------------------------------ MODULE PushHub ------------------------------
(***************************************************************************)
(* How a change of the cache reaches the dashboards: the producers that    *)
(* call PushHub.Notify (the pollers' OnTick, the UI handlers after a       *)
(* write), the hub's bounded queue per subscriber (push_hub.go), the SSE   *)
(* handler that fills a page and then drains its queue                     *)
(* (handlers_ui_sse.go), and the page, with its cards, its lost            *)
(* connections and its reconnections.                                      *)
(*                                                                         *)
(* Data.  A device's snapshot is the number of changes it has had; 0 is    *)
(* one without any values.  A page holds for each device how many cards it *)
(* shows, whether they are full cards or the placeholder of an             *)
(* unreachable device, and the snapshot they show.                         *)
(***************************************************************************)
EXTENDS Integers, Sequences, FiniteSets

CONSTANTS Devices,    \* all have a poller
          Pages,      \* browser pages
          Handlers,   \* goroutines that serve UI writes
          Buffer,     \* pushHubBufferSize
          None,
          \* Bounds of the model.
          Changes,    \* of one device's snapshot
          Budget      \* writes, failed dials, ticks a page is slow for

ASSUME PushHubAssumption ==
    /\ IsFiniteSet(Devices)
    /\ Handlers \cap Devices = {}
    /\ Buffer \in Nat \ {0}
    /\ None \notin Devices
    /\ Changes \in Nat
    /\ Budget \in Nat

VARIABLES cache,    \* the snapshot of each device
          known,    \* devices with an entry in the cache, empty or not
          notify,   \* the Notify each producer is in
          sub,      \* pages with a subscriber in the hub
          queue,    \* Subscriber.Events of each page
          conn,     \* the SSE handler of each page
          page,     \* what each page shows
          seen,     \* pages that have had an event: they have its ID
          told,     \* history: newest snapshot queued since subscribing
          excused,  \* history: devices whose newest event was lost or passed
          budget

vars == <<cache, known, notify, sub, queue, conn, page, seen, told, excused,
          budget>>

Producers == Devices \cup Handlers

Event == [dev : Devices, snap : Nat]
Notification == [at : {"idle", "render", "queue"}, dev : Devices \cup {None},
                 snap : Nat]
Quiet == [at |-> "idle", dev |-> None, snap |-> 0]

\* An SSE handler, and the cards it has still to send.
Handler == [at : {"off", "views", "cards", "stream"}, again : BOOLEAN,
            cards : Seq(Event)]
Off == [at |-> "off", again |-> FALSE, cards |-> <<>>]

Card == [cards : Nat, full : BOOLEAN, snap : Nat]
NoCard == [cards |-> 0, full |-> FALSE, snap |-> 0]

Spend == /\ budget > 0
         /\ budget' = budget - 1

Init == /\ cache = [d \in Devices |-> 0]
        /\ known = {}
        /\ notify = [n \in Producers |-> Quiet]
        /\ sub = {}
        /\ queue = [s \in Pages |-> <<>>]
        /\ conn = [s \in Pages |-> Off]
        /\ page = [s \in Pages |-> [d \in Devices |-> NoCard]]
        /\ seen = {}
        /\ told = [s \in Pages |-> [d \in Devices |-> 0]]
        /\ excused = [s \in Pages |-> {}]
        /\ budget = Budget

-----------------------------------------------------------------------------
(* Producers.                                                              *)

\* Nothing is on its way to a page.
Drained(s) == conn[s].at \in {"off", "stream"} /\ queue[s] = <<>>

\* Ticks are seconds apart: one that finds an event on its way to a page
\* costs a unit of the budget.
Unhurried == IF \A s \in Pages : Drained(s) THEN UNCHANGED budget ELSE Spend

\* What a tick makes of the cached snapshot: other values, the same ones, or
\* the same ones with an error.  A tick that fails before any has succeeded
\* leaves a snapshot without values.
Polled(d) == {cache[d]} \cup {v \in {cache[d] + 1} : v <= Changes}

\* Defect: a tick that finds nothing new tells nobody.
TickQuiet(d) ==
    /\ notify[d].at = "idle"
    /\ \E v \in Polled(d) :
         /\ cache' = [cache EXCEPT ![d] = v]
         /\ notify' = IF v = cache[d] THEN notify
                      ELSE [notify EXCEPT ![d] = [at |-> "render", dev |-> d,
                                                  snap |-> 0]]
    /\ known' = known \cup {d}
    /\ Unhurried
    /\ UNCHANGED <<sub, queue, conn, page, seen, told, excused>>

Tick(d) ==
    /\ notify[d].at = "idle"
    /\ \E v \in Polled(d) : cache' = [cache EXCEPT ![d] = v]
    /\ known' = known \cup {d}
    /\ notify' = [notify EXCEPT ![d] = [at |-> "render", dev |-> d,
                                        snap |-> 0]]
    /\ Unhurried
    /\ UNCHANGED <<sub, queue, conn, page, seen, told, excused>>

\* A tick whose dial fails returns before OnTick: the error it records is a
\* change of the snapshot that no page is told of.
TickDialFails(d) ==
    /\ notify[d].at = "idle"
    /\ cache[d] # 0
    /\ cache[d] < Changes
    /\ cache' = [cache EXCEPT ![d] = @ + 1]
    /\ Spend
    /\ UNCHANGED <<known, notify, sub, queue, conn, page, seen, told, excused>>

\* A write of another part of the daemon (/v1, HomeKit, a schedule) changes
\* the cache and tells nobody; a UI handler goes on to notifyAfterWrite.
Write(d) ==
    /\ cache[d] < Changes
    /\ cache' = [cache EXCEPT ![d] = @ + 1]
    /\ known' = known \cup {d}
    /\ Spend
    /\ UNCHANGED <<sub, queue, conn, page, seen, told, excused>>

OtherWrite(d) == Write(d) /\ UNCHANGED notify

UiWrite(h, d) ==
    /\ notify[h].at = "idle"
    /\ Write(d)
    /\ notify' = [notify EXCEPT ![h] = [at |-> "render", dev |-> d,
                                        snap |-> 0]]

\* renderBlocks reads the cache again, outside the hub's mutex.
Render(n) ==
    /\ notify[n].at = "render"
    /\ notify[n].dev \in known
    /\ notify' = [notify EXCEPT ![n].at = "queue",
                                ![n].snap = cache[notify[n].dev]]
    /\ UNCHANGED <<cache, known, sub, queue, conn, page, seen, told, excused,
                   budget>>

\* Defect: a queue without a bound.
PutAlways(q, e) == Append(q, e)

\* Defect: a full queue refuses the new event.
PutDropsNew(q, e) == IF Len(q) < Buffer THEN Append(q, e) ELSE q

\* A full queue drops its oldest event.
Put(q, e) == Append(IF Len(q) < Buffer THEN q ELSE Tail(q), e)

Has(q, d) == \E i \in 1 .. Len(q) : q[i].dev = d

\* Devices whose only event is pushed out of q by e, which is not theirs.
Lost(q, e) == {d \in Devices : d # e.dev /\ Has(q, d) /\ Len(q) = Buffer
                                 /\ ~Has(Tail(q), d)}

Enqueue(n) ==
    LET e == [dev |-> notify[n].dev, snap |-> notify[n].snap] IN
    /\ notify[n].at = "queue"
    /\ queue' = [s \in Pages |-> IF s \in sub THEN Put(queue[s], e)
                                              ELSE queue[s]]
    /\ told' = [s \in Pages |-> IF s \in sub /\ e.snap > told[s][e.dev]
                                THEN [told[s] EXCEPT ![e.dev] = e.snap]
                                ELSE told[s]]
    /\ excused' = [s \in Pages |->
           IF s \notin sub THEN excused[s]
           ELSE IF e.snap < told[s][e.dev]
                THEN excused[s] \cup Lost(queue[s], e) \cup {e.dev}
                ELSE (excused[s] \cup Lost(queue[s], e)) \ {e.dev}]
    /\ notify' = [notify EXCEPT ![n] = Quiet]
    /\ UNCHANGED <<cache, known, sub, conn, page, seen, budget>>

-----------------------------------------------------------------------------
(* The SSE handler and the page.                                           *)

\* Defect: a reconnecting page is taken for a new one.
ConnectCold(s) ==
    /\ conn[s].at = "off"
    /\ conn' = [conn EXCEPT ![s] = [Off EXCEPT !.at = "views"]]
    /\ sub' = sub \cup {s}
    /\ UNCHANGED <<cache, known, notify, queue, page, seen, told, excused,
                   budget>>

\* The handler subscribes before it looks at the cache.  A page that has had
\* an event comes back with its ID.
Connect(s) ==
    /\ conn[s].at = "off"
    /\ conn' = [conn EXCEPT ![s] = [Off EXCEPT !.at = "views",
                                               !.again = s \in seen]]
    /\ sub' = sub \cup {s}
    /\ UNCHANGED <<cache, known, notify, queue, page, seen, told, excused,
                   budget>>

\* collectViews: a card for every device of the registry, in name order.
Ordered(cs) == /\ Len(cs) = Cardinality(Devices)
               /\ {cs[i].dev : i \in 1 .. Len(cs)} = Devices
               /\ \A i \in 1 .. Len(cs) : cs[i].snap = cache[cs[i].dev]

CollectViews(s) ==
    /\ conn[s].at = "views"
    /\ \E cs \in [1 .. Cardinality(Devices) ->
                     {[dev |-> d, snap |-> cache[d]] : d \in Devices}] :
         /\ Ordered(cs)
         /\ conn' = [conn EXCEPT ![s].at = "cards", ![s].cards = cs]
    /\ UNCHANGED <<cache, known, notify, sub, queue, page, seen, told, excused,
                   budget>>

\* emitInitialCard: appended to a new page; on one that came back it takes
\* the place of the device's card, if there is one.
SendCard(s) ==
    LET e == Head(conn[s].cards) IN
    /\ conn[s].at = "cards"
    /\ conn[s].cards # <<>>
    /\ conn' = [conn EXCEPT ![s].cards = Tail(@)]
    /\ page' = [page EXCEPT ![s][e.dev] =
           IF conn[s].again
           THEN IF @.cards = 0 THEN @
                ELSE [@ EXCEPT !.full = e.snap # 0, !.snap = e.snap]
           ELSE [cards |-> @.cards + 1, full |-> e.snap # 0, snap |-> e.snap]]
    /\ seen' = seen \cup {s}
    /\ UNCHANGED <<cache, known, notify, sub, queue, told, excused, budget>>

Stream(s) ==
    /\ conn[s].at = "cards"
    /\ conn[s].cards = <<>>
    /\ conn' = [conn EXCEPT ![s].at = "stream"]
    /\ UNCHANGED <<cache, known, notify, sub, queue, page, seen, told, excused,
                   budget>>

\* A patch goes to the blocks of a full card; a placeholder has none.
Patched(c, e) == IF c.cards > 0 /\ c.full THEN [c EXCEPT !.snap = e.snap]
                                          ELSE c

SendEvent(s) ==
    LET e == Head(queue[s]) IN
    /\ conn[s].at = "stream"
    /\ queue[s] # <<>>
    /\ queue' = [queue EXCEPT ![s] = Tail(@)]
    /\ page' = [page EXCEPT ![s][e.dev] = Patched(@, e)]
    /\ seen' = seen \cup {s}
    /\ UNCHANGED <<cache, known, notify, sub, conn, told, excused, budget>>

\* The connection is lost: the handler returns and unsubscribes, the page
\* stays as it is and connects again.
Disconnect(s) ==
    /\ conn[s].at # "off"
    /\ conn' = [conn EXCEPT ![s] = Off]
    /\ sub' = sub \ {s}
    /\ queue' = [queue EXCEPT ![s] = <<>>]
    /\ told' = [told EXCEPT ![s] = [d \in Devices |-> 0]]
    /\ excused' = [excused EXCEPT ![s] = {}]
    /\ UNCHANGED <<cache, known, notify, page, seen, budget>>

Next == \/ \E d \in Devices : Tick(d) \/ TickDialFails(d) \/ OtherWrite(d)
        \/ \E h \in Handlers, d \in Devices : UiWrite(h, d)
        \/ \E n \in Producers : Render(n) \/ Enqueue(n)
        \/ \E s \in Pages : \/ Connect(s) \/ CollectViews(s) \/ SendCard(s)
                            \/ Stream(s) \/ SendEvent(s) \/ Disconnect(s)

Spec == Init /\ [][Next]_vars

\* Notify runs to its end, a connected page is served, and each poller ticks
\* and now and then gets past its dial.
FairSpec ==
    /\ Spec
    /\ \A d \in Devices : SF_vars(Tick(d))
    /\ \A n \in Producers : WF_vars(Render(n) \/ Enqueue(n))
    /\ \A s \in Pages : WF_vars(CollectViews(s) \/ SendCard(s) \/ Stream(s)
                                  \/ SendEvent(s))

-----------------------------------------------------------------------------
\* Type correctness; a queue never holds more than its buffer.
TypeOK == /\ cache \in [Devices -> 0 .. Changes]
          /\ known \subseteq Devices
          /\ notify \in [Producers -> Notification]
          /\ sub = {s \in Pages : conn[s].at # "off"}
          /\ queue \in [Pages -> Seq(Event)]
          /\ \A s \in Pages : Len(queue[s]) <= Buffer
          /\ conn \in [Pages -> Handler]
          /\ page \in [Pages -> [Devices -> Card]]
          /\ seen \subseteq Pages
          /\ told \in [Pages -> [Devices -> 0 .. Changes]]
          /\ excused \in [Pages -> SUBSET Devices]
          /\ budget \in Nat

\* Lost connections and reconnections in any order never leave a page with
\* two cards for a device: Last-Event-ID tells a page that has cards from one
\* that has none (handlers_ui_sse.go:75-79).
OneCardEach == \A s \in Pages : \A d \in Devices : page[s][d].cards <= 1

\* A page that has drained its queue shows the newest snapshot it was told
\* of, unless another device's event pushed it out of the queue or an older
\* rendering was queued after it: drop-oldest and the order of subscribing
\* and filling the page lose nothing else (push_hub.go:14-17,
\* handlers_ui_sse.go:81-87).
DrainedShowsNewest ==
    \A s \in Pages : \A d \in Devices \ excused[s] :
        (/\ conn[s].at = "stream"
         /\ queue[s] = <<>>
         /\ page[s][d].cards > 0
         /\ page[s][d].full) => page[s][d].snap >= told[s][d]

\* Whatever is dropped, passed or never pushed, a connected page comes to
\* show every snapshot or a newer one: the next ticks see to it.
CatchesUp ==
    \A s \in Pages : \A d \in Devices : \A v \in 1 .. Changes :
        (page[s][d].full /\ conn[s].at # "off" /\ cache[d] = v)
            ~> (page[s][d].snap >= v \/ conn[s].at = "off")

\* "Once any params land in the State cache, the next push replaces the
\* unreachable card with a full one" (SPECIFICATION-web.md:128).
PlaceholderReplaced ==
    \A s \in Pages : \A d \in Devices :
        (conn[s].at = "stream" /\ page[s][d].cards > 0 /\ cache[d] # 0)
            ~> (page[s][d].full \/ conn[s].at = "off")

\* A connected page whose cards have been sent has a card for every device:
\* "the handler ... [s]ends the current card for every configured device"
\* (handlers_ui_sse.go:49).
EveryCardShows ==
    \A s \in Pages : conn[s].at = "stream" =>
        \A d \in Devices : page[s][d].cards > 0
=============================================================================
