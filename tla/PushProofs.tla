----------------------------- MODULE PushProofs -----------------------------
(***************************************************************************)
(* Proofs about PushHub, in three invariants.                              *)
(*                                                                         *)
(* TInv: the types, which need that a Notify under way is about a device   *)
(* and renders no snapshot beyond the cache's.  CInv: a page that has had  *)
(* no event has no card, and while a handler fills it the devices still to *)
(* come are distinct and have none.  NInv: of the devices that are not     *)
(* excused, the last event in the queue is the newest a page was told of,  *)
(* and where the queue has none the page shows it already.                 *)
(***************************************************************************)
EXTENDS PushHub, FiniteSetTheorems, TLAPS

-----------------------------------------------------------------------------
(* Queues.                                                                 *)

\* Notify: what the queue of a subscriber is after an event, with and
\* without room for it.
LEMMA PutFields ==
    ASSUME NEW q \in Seq(Event), NEW e \in Event, Len(q) <= Buffer
    PROVE  /\ Put(q, e) \in Seq(Event)
           /\ Len(Put(q, e)) \in 1 .. Buffer
           /\ Put(q, e)[Len(Put(q, e))] = e
           /\ Len(q) < Buffer =>
                /\ Len(Put(q, e)) = Len(q) + 1
                /\ \A i \in 1 .. Len(q) : Put(q, e)[i] = q[i]
           /\ Len(q) = Buffer =>
                /\ Len(Put(q, e)) = Len(q)
                /\ \A i \in 1 .. Len(q) - 1 : Put(q, e)[i] = q[i + 1]
<1>1. CASE Len(q) < Buffer
  <2>1. Put(q, e) = Append(q, e)
    BY <1>1 DEF Put
  <2> QED
    BY <1>1, <2>1, PushHubAssumption
<1>2. CASE Len(q) = Buffer
  <2>1. q # <<>> /\ Put(q, e) = Append(Tail(q), e)
    BY <1>2, PushHubAssumption DEF Put
  <2>2. /\ Tail(q) \in Seq(Event)
        /\ Len(Tail(q)) = Len(q) - 1
        /\ \A i \in 1 .. Len(q) - 1 : Tail(q)[i] = q[i + 1]
    BY <2>1
  <2>3. /\ Put(q, e) \in Seq(Event)
        /\ Len(Put(q, e)) = Len(q)
        /\ Put(q, e)[Len(q)] = e
        /\ \A i \in 1 .. Len(q) - 1 : Put(q, e)[i] = Tail(q)[i]
    BY <2>1, <2>2
  <2> QED
    BY <1>2, <2>2, <2>3, PushHubAssumption
<1> QED
  BY <1>1, <1>2, PushHubAssumption

\* The SSE handler takes the event at the head of its queue.
LEMMA TailFields ==
    ASSUME NEW S, NEW q \in Seq(S), q # <<>>
    PROVE  /\ Tail(q) \in Seq(S)
           /\ Len(q) \in Nat \ {0}
           /\ Len(Tail(q)) = Len(q) - 1
           /\ Head(q) = q[1]
           /\ Head(q) \in S
           /\ \A i \in 1 .. Len(q) - 1 : Tail(q)[i] = q[i + 1]
  OBVIOUS

\* The events of a queue, and the one at its head, are of devices.
LEMMA EventFields ==
    ASSUME NEW q \in Seq(Event)
    PROVE  /\ \A i \in 1 .. Len(q) : q[i].dev \in Devices
           /\ q # <<>> => Head(q).dev \in Devices /\ Head(q).snap \in Nat
<1>1. \A e \in Event : e.dev \in Devices /\ e.snap \in Nat
  BY DEF Event
<1>2. \A i \in 1 .. Len(q) : q[i] \in Event
  OBVIOUS
<1>3. q # <<>> => Head(q) \in Event
  BY TailFields
<1> QED
  BY <1>1, <1>2, <1>3

\* The last event of d in q is of t or newer.
LastIs(q, d, t) == \A i \in 1 .. Len(q) :
    (q[i].dev = d /\ \A j \in i + 1 .. Len(q) : q[j].dev # d) => q[i].snap >= t

\* Notify: an event of d that is not older than t is the last of d.
LEMMA PutOwn ==
    ASSUME NEW q \in Seq(Event), NEW e \in Event, Len(q) <= Buffer,
           NEW t, e.snap >= t
    PROVE  Has(Put(q, e), e.dev) /\ LastIs(Put(q, e), e.dev, t)
<1> DEFINE p == Put(q, e)
<1>1. Len(p) \in Nat \ {0} /\ p[Len(p)] = e
  BY PutFields, PushHubAssumption
<1>2. Has(p, e.dev)
  BY <1>1 DEF Has
<1>3. ASSUME NEW i \in 1 .. Len(p), \A j \in i + 1 .. Len(p) : p[j].dev # e.dev
      PROVE  p[i].snap >= t
  <2>1. i = Len(p)
    <3>1. SUFFICES ASSUME i < Len(p) PROVE FALSE
      BY <1>1
    <3>2. Len(p) \in i + 1 .. Len(p)
      BY <3>1, <1>1
    <3> QED
      BY <3>2, <1>3, <1>1
  <2> QED
    BY <2>1, <1>1
<1> QED
  BY <1>2, <1>3 DEF LastIs

\* Notify: an event of another device leaves the last of d where it is, or
\* pushes the only one of d out.
LEMMA PutOther ==
    ASSUME NEW q \in Seq(Event), NEW e \in Event, Len(q) <= Buffer,
           NEW d \in Devices, NEW t, d # e.dev, LastIs(q, d, t)
    PROVE  /\ LastIs(Put(q, e), d, t)
           /\ Has(Put(q, e), d) => Has(q, d)
           /\ Has(q, d) => Has(Put(q, e), d) \/ d \in Lost(q, e)
<1> DEFINE p == Put(q, e)
<1>0. Len(p) \in Nat \ {0} /\ p[Len(p)] = e /\ Len(q) \in Nat
  <2>1. Len(p) \in 1 .. Buffer /\ p[Len(p)] = e
    BY PutFields
  <2>2. Len(q) \in Nat
    OBVIOUS
  <2> QED
    BY <2>1, <2>2, PushHubAssumption
<1>1. CASE Len(q) < Buffer
  <2>1. /\ Len(p) = Len(q) + 1
        /\ \A i \in 1 .. Len(q) : p[i] = q[i]
    BY <1>1, PutFields
  <2>2. Has(p, d) <=> Has(q, d)
    BY <2>1, <1>0 DEF Has
  <2>3. ASSUME NEW i \in 1 .. Len(p), p[i].dev = d,
               \A j \in i + 1 .. Len(p) : p[j].dev # d
        PROVE  p[i].snap >= t
    <3>1. i \in 1 .. Len(q)
      BY <2>3, <2>1, <1>0
    <3>2. \A j \in i + 1 .. Len(q) : q[j].dev # d
      BY <2>3, <2>1, <1>0, <3>1
    <3> QED
      BY <3>1, <3>2, <2>1, <2>3 DEF LastIs
  <2> QED
    BY <2>2, <2>3 DEF LastIs
<1>2. CASE Len(q) = Buffer
  <2>1. /\ Len(p) = Len(q)
        /\ \A i \in 1 .. Len(q) - 1 : p[i] = q[i + 1]
    BY <1>2, PutFields
  <2>2. Has(p, d) => Has(q, d)
    <3>1. ASSUME NEW i \in 1 .. Len(p), p[i].dev = d PROVE Has(q, d)
      <4>1. i \in 1 .. Len(q) - 1
        BY <3>1, <2>1, <1>0
      <4>2. i + 1 \in 1 .. Len(q) /\ q[i + 1].dev = d
        BY <4>1, <3>1, <2>1, <1>0
      <4> QED
        BY <4>2 DEF Has
    <3> QED
      BY <3>1 DEF Has
  <2>3. Has(q, d) => Has(p, d) \/ d \in Lost(q, e)
    <3>1. q # <<>>
      BY <1>2, PushHubAssumption
    <3>2. ASSUME Has(Tail(q), d) PROVE Has(p, d)
      <4>1. PICK i \in 1 .. Len(Tail(q)) : Tail(q)[i].dev = d
        BY <3>2 DEF Has
      <4>2. i \in 1 .. Len(q) - 1 /\ Tail(q)[i] = q[i + 1]
        BY <3>1, <4>1, TailFields
      <4>3. i \in 1 .. Len(p) /\ p[i].dev = d
        BY <4>1, <4>2, <2>1, <1>0
      <4> QED
        BY <4>3 DEF Has
    <3> QED
      BY <3>2, <1>2 DEF Lost
  <2>4. ASSUME NEW i \in 1 .. Len(p), p[i].dev = d,
               \A j \in i + 1 .. Len(p) : p[j].dev # d
        PROVE  p[i].snap >= t
    <3>1. i \in 1 .. Len(q) - 1
      BY <2>4, <2>1, <1>0
    <3>2. i + 1 \in 1 .. Len(q) /\ p[i] = q[i + 1]
      BY <3>1, <2>1, <1>0
    <3>3. ASSUME NEW j \in i + 2 .. Len(q) PROVE q[j].dev # d
      <4>1. j - 1 \in i + 1 .. Len(p) /\ j - 1 \in 1 .. Len(q) - 1
        BY <3>1, <2>1, <1>0
      <4>2. p[j - 1] = q[j]
        BY <4>1, <2>1, <1>0
      <4> QED
        BY <4>1, <4>2, <2>4
    <3>4. \A j \in (i + 1) + 1 .. Len(q) : q[j].dev # d
      BY <3>1, <3>3, <1>0
    <3> QED
      BY <3>2, <3>4, <2>4 DEF LastIs
  <2> QED
    BY <2>2, <2>3, <2>4 DEF LastIs
<1> QED
  BY <1>0, <1>1, <1>2, PushHubAssumption

\* The SSE handler: what is behind the head stays the last, and where
\* nothing of d is behind it the head was the last.
LEMMA TailLast ==
    ASSUME NEW q \in Seq(Event), q # <<>>, NEW d \in Devices, NEW t,
           LastIs(q, d, t)
    PROVE  /\ LastIs(Tail(q), d, t)
           /\ Has(q, d) /\ ~Has(Tail(q), d) =>
                Head(q).dev = d /\ Head(q).snap >= t
           /\ Has(Tail(q), d) => Has(q, d)
<1> DEFINE p == Tail(q)
<1>1. /\ Len(q) \in Nat \ {0}
      /\ Len(p) = Len(q) - 1
      /\ Head(q) = q[1]
      /\ \A i \in 1 .. Len(q) - 1 : p[i] = q[i + 1]
  BY TailFields
<1>2. ASSUME NEW i \in 1 .. Len(p), p[i].dev = d,
             \A j \in i + 1 .. Len(p) : p[j].dev # d
      PROVE  p[i].snap >= t
  <2>1. i + 1 \in 1 .. Len(q) /\ p[i] = q[i + 1]
    BY <1>1
  <2>2. ASSUME NEW j \in (i + 1) + 1 .. Len(q) PROVE q[j].dev # d
    <3>1. j - 1 \in i + 1 .. Len(p) /\ j - 1 \in 1 .. Len(q) - 1
      BY <1>1
    <3>2. p[j - 1] = q[j]
      BY <3>1, <1>1
    <3> QED
      BY <3>1, <3>2, <1>2
  <2> QED
    BY <2>1, <2>2, <1>2 DEF LastIs
<1>3. ASSUME NEW i \in 1 .. Len(p), p[i].dev = d PROVE Has(q, d)
  <2>1. i + 1 \in 1 .. Len(q) /\ q[i + 1].dev = d
    BY <1>1, <1>3
  <2> QED
    BY <2>1 DEF Has
<1>4. ASSUME Has(q, d), ~Has(p, d)
      PROVE  Head(q).dev = d /\ Head(q).snap >= t
  <2>1. PICK i \in 1 .. Len(q) : q[i].dev = d
    BY <1>4 DEF Has
  <2>2. ASSUME NEW j \in 2 .. Len(q) PROVE q[j].dev # d
    <3>1. j - 1 \in 1 .. Len(p) /\ p[j - 1] = q[j]
      BY <1>1
    <3> QED
      BY <3>1, <1>4 DEF Has
  <2>3. i = 1
    BY <2>1, <2>2, <1>1
  <2>4. 1 \in 1 .. Len(q) /\ \A j \in 1 + 1 .. Len(q) : q[j].dev # d
    BY <2>2, <1>1
  <2> QED
    BY <2>1, <2>3, <2>4, <1>1 DEF LastIs
<1> QED
  BY <1>2, <1>3, <1>4 DEF LastIs, Has

-----------------------------------------------------------------------------
(* Types.                                                                  *)

TInv == /\ TypeOK
        /\ \A n \in Producers : notify[n].at # "idle" =>
              /\ notify[n].dev \in Devices
              /\ notify[n].snap <= Changes

\* collectViews: the cards it collects are events of the model.
LEMMA CollectedType ==
    ASSUME TypeOK,
           NEW cs \in [1 .. Cardinality(Devices) ->
                          {[dev |-> d, snap |-> cache[d]] : d \in Devices}]
    PROVE  cs \in Seq(Event)
<1>1. Cardinality(Devices) \in Nat
  BY FS_CardinalityType, PushHubAssumption
<1>2. {[dev |-> d, snap |-> cache[d]] : d \in Devices} \subseteq Event
  BY PushHubAssumption DEF TypeOK, Event
<1>3. cs \in [1 .. Cardinality(Devices) -> Event]
  BY <1>2
<1> QED
  BY <1>1, <1>3

\* Nothing has been shown, queued or rendered when the daemon starts.
LEMMA TypesInit == Init => TInv
<1> SUFFICES ASSUME Init PROVE TInv
  OBVIOUS
<1>1. /\ cache \in [Devices -> 0 .. Changes]
      /\ notify \in [Producers -> Notification]
      /\ \A n \in Producers : notify[n].at = "idle"
      /\ budget \in Nat /\ known \subseteq Devices /\ seen \subseteq Pages
  BY PushHubAssumption DEF Init, Quiet, Notification, Producers
<1>2. /\ queue \in [Pages -> Seq(Event)]
      /\ \A s \in Pages : Len(queue[s]) <= Buffer
      /\ conn \in [Pages -> Handler]
      /\ sub = {s \in Pages : conn[s].at # "off"}
  BY PushHubAssumption DEF Init, Off, Handler
<1>3. /\ page \in [Pages -> [Devices -> Card]]
      /\ told \in [Pages -> [Devices -> 0 .. Changes]]
      /\ excused \in [Pages -> SUBSET Devices]
  BY PushHubAssumption DEF Init, NoCard, Card
<1> QED
  BY <1>1, <1>2, <1>3 DEF TInv, TypeOK

\* What a producer is in after it begins, renders and ends a Notify.
LEMMA NotifyTypes ==
    ASSUME NEW d \in Devices
    PROVE  /\ Quiet \in Notification
           /\ [at |-> "render", dev |-> d, snap |-> 0] \in Notification
           /\ \A x \in Notification : \A v \in 0 .. Changes :
                [x EXCEPT !.at = "queue", !.snap = v] \in Notification
<1>1. /\ Quiet \in Notification
      /\ [at |-> "render", dev |-> d, snap |-> 0] \in Notification
  BY DEF Quiet, Notification
<1>2. ASSUME NEW x \in Notification, NEW v \in 0 .. Changes
      PROVE  [x EXCEPT !.at = "queue", !.snap = v] \in Notification
  <2>1. v \in Nat
    BY PushHubAssumption
  <2> QED
    BY <2>1 DEF Notification
<1> QED
  BY <1>1, <1>2

\* What an SSE handler becomes in a step.
LEMMA HandlerTypes ==
    /\ Off \in Handler
    /\ \A b \in BOOLEAN : [Off EXCEPT !.at = "views", !.again = b] \in Handler
    /\ \A c \in Handler :
         /\ c.cards \in Seq(Event)
         /\ [c EXCEPT !.at = "stream"] \in Handler
         /\ \A cs \in Seq(Event) :
              /\ [c EXCEPT !.cards = cs] \in Handler
              /\ [c EXCEPT !.at = "cards", !.cards = cs] \in Handler
<1>1. Off \in Handler
  BY DEF Off, Handler
<1>2. ASSUME NEW b \in BOOLEAN
      PROVE  [Off EXCEPT !.at = "views", !.again = b] \in Handler
  <2>1. ASSUME NEW c \in Handler
        PROVE  [c EXCEPT !.at = "views", !.again = b] \in Handler
    BY <1>2 DEF Handler
  <2> QED
    BY <1>1, <2>1
<1>3. ASSUME NEW c \in Handler
      PROVE  c.cards \in Seq(Event) /\ [c EXCEPT !.at = "stream"] \in Handler
  BY DEF Handler
<1>4. ASSUME NEW c \in Handler, NEW cs \in Seq(Event)
      PROVE  /\ [c EXCEPT !.cards = cs] \in Handler
             /\ [c EXCEPT !.at = "cards", !.cards = cs] \in Handler
  BY DEF Handler
<1> QED
  BY <1>1, <1>2, <1>3, <1>4

\* What a device's card becomes when a card or an event is sent.
LEMMA CardTypes ==
    ASSUME NEW c \in Card, NEW e \in Event
    PROVE  /\ [c EXCEPT !.full = e.snap # 0, !.snap = e.snap] \in Card
           /\ [cards |-> c.cards + 1, full |-> e.snap # 0, snap |-> e.snap]
                \in Card
           /\ Patched(c, e) \in Card
<1>1. e.snap \in Nat /\ (e.snap # 0) \in BOOLEAN
  BY DEF Event
<1>2. [c EXCEPT !.full = e.snap # 0, !.snap = e.snap] \in Card
  BY <1>1 DEF Card
<1>3. [cards |-> c.cards + 1, full |-> e.snap # 0, snap |-> e.snap] \in Card
  BY <1>1 DEF Card
<1>4. [c EXCEPT !.snap = e.snap] \in Card
  BY <1>1 DEF Card
<1> QED
  BY <1>2, <1>3, <1>4 DEF Patched

\* Every step keeps the types.
LEMMA TypesNext == TInv /\ [Next]_vars => TInv'
<1> SUFFICES ASSUME TInv, [Next]_vars PROVE TInv'
  OBVIOUS
<1> USE DEF TInv, TypeOK
<1> USE PushHubAssumption
<1>1. ASSUME NEW d \in Devices, Tick(d) PROVE TInv'
  <2>1. cache' \in [Devices -> 0 .. Changes] /\ known' \subseteq Devices
    BY <1>1 DEF Tick, Polled
  <2>2. budget' \in Nat
    BY <1>1 DEF Tick, Unhurried, Spend
  <2>3. d \in Producers
    BY DEF Producers
  <2>4. /\ notify' \in [Producers -> Notification]
        /\ \A n \in Producers : notify'[n].at # "idle" =>
              notify'[n].dev \in Devices /\ notify'[n].snap <= Changes
    <3>1. notify' = [notify EXCEPT ![d] = [at |-> "render", dev |-> d,
                                           snap |-> 0]]
      BY <1>1 DEF Tick
    <3>2. PICK x \in Notification : /\ notify' = [notify EXCEPT ![d] = x]
                                    /\ x.dev = d /\ x.snap = 0
      BY <3>1, NotifyTypes
    <3> QED
      BY <3>2, <2>3
  <2> QED
    BY <1>1, <2>1, <2>2, <2>4 DEF Tick
<1>2. ASSUME NEW d \in Devices, TickDialFails(d) PROVE TInv'
  BY <1>2 DEF TickDialFails, Spend
<1>3. ASSUME NEW d \in Devices, OtherWrite(d) PROVE TInv'
  BY <1>3 DEF OtherWrite, Write, Spend
<1>4. ASSUME NEW h \in Handlers, NEW d \in Devices, UiWrite(h, d) PROVE TInv'
  <2>1. h \in Producers
    BY DEF Producers
  <2>2. /\ notify' \in [Producers -> Notification]
        /\ \A n \in Producers : notify'[n].at # "idle" =>
              notify'[n].dev \in Devices /\ notify'[n].snap <= Changes
    <3>1. notify' = [notify EXCEPT ![h] = [at |-> "render", dev |-> d,
                                           snap |-> 0]]
      BY <1>4 DEF UiWrite
    <3>2. PICK x \in Notification : /\ notify' = [notify EXCEPT ![h] = x]
                                    /\ x.dev = d /\ x.snap = 0
      BY <3>1, NotifyTypes
    <3> QED
      BY <3>2, <2>1
  <2> QED
    BY <1>4, <2>2 DEF UiWrite, Write, Spend
<1>5. ASSUME NEW n \in Producers, Render(n) PROVE TInv'
  <2>1. notify[n].dev \in Devices /\ cache[notify[n].dev] \in 0 .. Changes
    BY <1>5 DEF Render
  <2>2. notify' \in [Producers -> Notification]
    BY <1>5, <2>1, NotifyTypes DEF Render
  <2>3. \A m \in Producers : notify'[m].at # "idle" =>
              notify'[m].dev \in Devices /\ notify'[m].snap <= Changes
    BY <1>5, <2>1 DEF Render, Notification
  <2> QED
    BY <1>5, <2>2, <2>3 DEF Render
<1>6. ASSUME NEW n \in Producers, Enqueue(n) PROVE TInv'
  <2> DEFINE e == [dev |-> notify[n].dev, snap |-> notify[n].snap]
  <2>1. e \in Event /\ e.snap \in 0 .. Changes /\ e.dev \in Devices
    BY <1>6 DEF Enqueue, Event, Notification
  <2>2. \A s \in Pages : /\ Put(queue[s], e) \in Seq(Event)
                         /\ Len(Put(queue[s], e)) <= Buffer
    BY <2>1, PutFields
  <2>3. /\ queue' \in [Pages -> Seq(Event)]
        /\ \A s \in Pages : Len(queue'[s]) <= Buffer
    BY <1>6, <2>2 DEF Enqueue
  <2>4. told' \in [Pages -> [Devices -> 0 .. Changes]]
    BY <1>6, <2>1 DEF Enqueue
  <2>5. excused' \in [Pages -> SUBSET Devices]
    <3>1. \A s \in Pages : Lost(queue[s], e) \subseteq Devices
      BY DEF Lost
    <3> QED
      BY <1>6, <2>1, <3>1 DEF Enqueue
  <2>6. /\ notify' \in [Producers -> Notification]
        /\ \A m \in Producers : notify'[m].at # "idle" =>
              notify'[m].dev \in Devices /\ notify'[m].snap <= Changes
    BY <1>6, <2>1, NotifyTypes DEF Enqueue, Quiet
  <2> QED
    BY <1>6, <2>3, <2>4, <2>5, <2>6 DEF Enqueue
<1>7. ASSUME NEW s \in Pages, Connect(s) PROVE TInv'
  <2> DEFINE v == [Off EXCEPT !.at = "views", !.again = s \in seen]
  <2>0. v \in Handler /\ v.at = "views"
    <3>1. (s \in seen) \in BOOLEAN
      OBVIOUS
    <3>2. v \in Handler
      BY <3>1, HandlerTypes
    <3>3. v.at = "views"
      BY DEF Off
    <3> QED
      BY <3>2, <3>3
  <2>1. /\ conn' \in [Pages -> Handler]
        /\ sub' = {z \in Pages : conn'[z].at # "off"}
    <3>1. conn' = [conn EXCEPT ![s] = v] /\ sub' = sub \cup {s}
      BY <1>7 DEF Connect
    <3> HIDE DEF v
    <3> QED
      BY <2>0, <3>1
  <2> QED
    BY <1>7, <2>1 DEF Connect
<1>8. ASSUME NEW s \in Pages, CollectViews(s) PROVE TInv'
  <2>1. PICK cs \in Seq(Event) :
            conn' = [conn EXCEPT ![s].at = "cards", ![s].cards = cs]
    BY <1>8, CollectedType DEF CollectViews
  <2>2. /\ conn' \in [Pages -> Handler]
        /\ sub = {z \in Pages : conn'[z].at # "off"}
    <3> DEFINE v == [conn[s] EXCEPT !.at = "cards", !.cards = cs]
    <3>1. conn' = [conn EXCEPT ![s] = v]
      BY <2>1
    <3>2. v \in Handler /\ v.at = "cards" /\ conn[s].at = "views"
      <4>1. conn[s].at = "views"
        BY <1>8 DEF CollectViews
      <4>2. v \in Handler
        BY HandlerTypes
      <4>3. v.at = "cards"
        BY DEF Handler
      <4> QED
        BY <4>1, <4>2, <4>3
    <3> HIDE DEF v
    <3> QED
      BY <3>1, <3>2
  <2> QED
    BY <1>8, <2>2 DEF CollectViews
<1>9. ASSUME NEW s \in Pages, SendCard(s) PROVE TInv'
  <2> DEFINE e == Head(conn[s].cards)
  <2>1. /\ conn[s].cards \in Seq(Event) /\ conn[s].cards # <<>>
        /\ conn' = [conn EXCEPT ![s].cards = Tail(@)]
    BY <1>9 DEF SendCard, Handler
  <2>2. e \in Event /\ Tail(conn[s].cards) \in Seq(Event)
    BY <2>1, TailFields
  <2>3. /\ conn' \in [Pages -> Handler]
        /\ sub = {z \in Pages : conn'[z].at # "off"}
    <3> DEFINE v == [conn[s] EXCEPT !.cards = Tail(conn[s].cards)]
    <3>1. conn' = [conn EXCEPT ![s] = v]
      BY <2>1
    <3>2. v \in Handler /\ v.at = conn[s].at
      <4>1. v \in Handler
        BY <2>2, HandlerTypes
      <4>2. v.at = conn[s].at
        BY DEF Handler
      <4> QED
        BY <4>1, <4>2
    <3> HIDE DEF v
    <3> QED
      BY <3>1, <3>2
  <2>4. page' \in [Pages -> [Devices -> Card]]
    <3>1. /\ e.dev \in Devices /\ page[s] \in [Devices -> Card]
          /\ page[s][e.dev] \in Card
      BY <2>2 DEF Event
    <3>2. PICK c \in Card : page' = [page EXCEPT ![s][e.dev] = c]
      <4> DEFINE b == page[s][e.dev]
                 x == [b EXCEPT !.full = e.snap # 0, !.snap = e.snap]
                 y == [cards |-> b.cards + 1, full |-> e.snap # 0,
                       snap |-> e.snap]
      <4>1. \/ page' = [page EXCEPT ![s][e.dev] = b]
            \/ page' = [page EXCEPT ![s][e.dev] = x]
            \/ page' = [page EXCEPT ![s][e.dev] = y]
        BY <1>9 DEF SendCard
      <4>2. b \in Card /\ x \in Card /\ y \in Card
        BY <2>2, <3>1, CardTypes
      <4> HIDE DEF b, x, y
      <4> QED
        BY <4>1, <4>2
    <3> HIDE DEF e
    <3> QED
      BY <3>1, <3>2
  <2> QED
    BY <1>9, <2>3, <2>4 DEF SendCard
<1>10. ASSUME NEW s \in Pages, Stream(s) PROVE TInv'
  <2>1. /\ conn' \in [Pages -> Handler]
        /\ sub = {z \in Pages : conn'[z].at # "off"}
    <3> DEFINE v == [conn[s] EXCEPT !.at = "stream"]
    <3>1. conn' = [conn EXCEPT ![s] = v] /\ conn[s].at = "cards"
      BY <1>10 DEF Stream
    <3>2. v \in Handler
      BY HandlerTypes
    <3>3. v.at = "stream"
      BY DEF Handler
    <3> HIDE DEF v
    <3> QED
      BY <3>1, <3>2, <3>3
  <2> QED
    BY <1>10, <2>1 DEF Stream
<1>11. ASSUME NEW s \in Pages, SendEvent(s) PROVE TInv'
  <2> DEFINE e == Head(queue[s])
  <2>1. /\ e \in Event /\ Tail(queue[s]) \in Seq(Event)
        /\ Len(Tail(queue[s])) <= Buffer
    BY <1>11, TailFields DEF SendEvent
  <2>2. /\ queue' \in [Pages -> Seq(Event)]
        /\ \A z \in Pages : Len(queue'[z]) <= Buffer
    BY <1>11, <2>1 DEF SendEvent
  <2>3. page' \in [Pages -> [Devices -> Card]]
    <3>1. e.dev \in Devices /\ page[s] \in [Devices -> Card]
      BY <2>1 DEF Event
    <3>2. PICK c \in Card : page' = [page EXCEPT ![s][e.dev] = c]
      BY <1>11, <2>1, <3>1, CardTypes DEF SendEvent
    <3> HIDE DEF e
    <3> QED
      BY <3>1, <3>2
  <2> QED
    BY <1>11, <2>2, <2>3 DEF SendEvent
<1>12. ASSUME NEW s \in Pages, Disconnect(s) PROVE TInv'
  <2>1. /\ conn' \in [Pages -> Handler]
        /\ sub' = {z \in Pages : conn'[z].at # "off"}
    BY <1>12 DEF Disconnect, Off, Handler
  <2>2. /\ queue' \in [Pages -> Seq(Event)]
        /\ \A z \in Pages : Len(queue'[z]) <= Buffer
    BY <1>12 DEF Disconnect
  <2> QED
    BY <1>12, <2>1, <2>2 DEF Disconnect
<1>13. CASE UNCHANGED vars
  BY <1>13 DEF vars
<1> QED
  BY <1>1, <1>2, <1>3, <1>4, <1>5, <1>6, <1>7, <1>8, <1>9, <1>10, <1>11,
     <1>12, <1>13 DEF Next

\* The model's values have their types, and no subscriber's queue grows
\* beyond pushHubBufferSize, whatever is notified (push_hub.go:115-123).
THEOREM PushTypes == Spec => []TypeOK
<1>1. TInv => TypeOK
  BY DEF TInv
<1> QED
  BY <1>1, TypesInit, TypesNext, PTL DEF Spec

-----------------------------------------------------------------------------
(* Cards.                                                                  *)

\* The cards cs to come are of distinct devices, of which the page p has none.
Fresh(cs, p) == /\ \A i \in 1 .. Len(cs) : p[cs[i].dev].cards = 0
                /\ \A i, j \in 1 .. Len(cs) : cs[i].dev = cs[j].dev => i = j

CInv == /\ OneCardEach
        /\ \A s \in Pages \ seen : \A d \in Devices : page[s][d].cards = 0
        /\ \A s \in Pages : conn[s].at = "views" /\ ~conn[s].again =>
              s \notin seen
        /\ \A s \in Pages : conn[s].at = "cards" /\ ~conn[s].again =>
              Fresh(conn[s].cards, page[s])

\* The registry lists every device once: as many cards as there are devices,
\* and every device among them.
LEMMA CollectedDistinct ==
    ASSUME NEW cs \in Seq(Event), Len(cs) = Cardinality(Devices),
           {cs[i].dev : i \in 1 .. Len(cs)} = Devices
    PROVE  \A i, j \in 1 .. Len(cs) : cs[i].dev = cs[j].dev => i = j
<1> DEFINE n == Len(cs)
           f == [i \in 1 .. n |-> cs[i].dev]
<1>1. n \in Nat /\ IsFiniteSet(1 .. n) /\ Cardinality(1 .. n) = Cardinality(Devices)
  <2>1. n \in Nat
    OBVIOUS
  <2>2. IsFiniteSet(1 .. n) /\ Cardinality(1 .. n) = n
    BY <2>1, FS_Interval
  <2> QED
    BY <2>1, <2>2
<1>2. f \in Surjection(1 .. n, Devices)
  <2>1. f \in [1 .. n -> Devices]
    BY DEF Event
  <2>2. \A d \in Devices : \E i \in 1 .. n : f[i] = d
    OBVIOUS
  <2> QED
    BY <2>1, <2>2 DEF Surjection
<1> HIDE DEF f
<1>3. f \in Injection(1 .. n, Devices)
  BY <1>1, <1>2, FS_SurjSameCardinalityImpliesInj
<1>4. \A i, j \in 1 .. n : f[i] = f[j] => i = j
  BY <1>3 DEF Injection, IsInjective
<1> QED
  BY <1>4 DEF f

\* emitInitialCard: what is still to come after a card stays fresh.
LEMMA SentFresh ==
    ASSUME NEW cs \in Seq(Event), cs # <<>>, NEW p, NEW r, Fresh(cs, p),
           \A d \in Devices : d # Head(cs).dev => r[d] = p[d]
    PROVE  p[Head(cs).dev].cards = 0 /\ Fresh(Tail(cs), r)
<1> DEFINE t == Tail(cs)
<1>1. /\ Len(cs) \in Nat \ {0}
      /\ Len(t) = Len(cs) - 1
      /\ Head(cs) = cs[1]
      /\ \A i \in 1 .. Len(cs) - 1 : t[i] = cs[i + 1]
      /\ \A i \in 1 .. Len(cs) : cs[i].dev \in Devices
  <2>1. \A i \in 1 .. Len(cs) : cs[i].dev \in Devices
    BY EventFields
  <2> QED
    BY <2>1, TailFields
<1>2. p[Head(cs).dev].cards = 0
  BY <1>1 DEF Fresh
<1>3. ASSUME NEW i \in 1 .. Len(t) PROVE r[t[i].dev].cards = 0
  <2>1. i + 1 \in 1 .. Len(cs) /\ 1 \in 1 .. Len(cs) /\ t[i] = cs[i + 1]
    BY <1>1
  <2>2. cs[i + 1].dev # cs[1].dev /\ p[cs[i + 1].dev].cards = 0
    BY <2>1 DEF Fresh
  <2> QED
    BY <1>1, <2>1, <2>2
<1>4. ASSUME NEW i \in 1 .. Len(t), NEW j \in 1 .. Len(t), t[i].dev = t[j].dev
      PROVE  i = j
  <2>1. /\ i + 1 \in 1 .. Len(cs) /\ t[i] = cs[i + 1]
        /\ j + 1 \in 1 .. Len(cs) /\ t[j] = cs[j + 1]
    BY <1>1
  <2>2. i + 1 = j + 1
    BY <2>1, <1>4 DEF Fresh
  <2> QED
    BY <2>2
<1> QED
  BY <1>2, <1>3, <1>4 DEF Fresh

\* Every step keeps the cards as CInv has them.
LEMMA CardsNext == TInv /\ CInv /\ [Next]_vars => CInv'
<1> SUFFICES ASSUME TInv, CInv, [Next]_vars PROVE CInv'
  OBVIOUS
<1> USE DEF CInv, OneCardEach
<1>0. conn \in [Pages -> Handler] /\ page \in [Pages -> [Devices -> Card]]
  BY DEF TInv, TypeOK
\* Steps that leave the page and its handler alone.
<1>1. CASE UNCHANGED <<conn, page, seen>>
  BY <1>1 DEF Fresh
<1>2. ASSUME NEW s \in Pages, Connect(s) PROVE CInv'
  <2>1. /\ conn' = [conn EXCEPT ![s] = [Off EXCEPT !.at = "views",
                                                   !.again = s \in seen]]
        /\ UNCHANGED <<page, seen>>
    BY <1>2 DEF Connect
  <2>2. /\ conn'[s].at = "views"
        /\ conn'[s].again <=> s \in seen
        /\ \A z \in Pages : z # s => conn'[z] = conn[z]
    BY <2>1, <1>0 DEF Off
  <2> QED
    BY <2>1, <2>2 DEF Fresh
<1>3. ASSUME NEW s \in Pages, CollectViews(s) PROVE CInv'
  <2>1. PICK cs \in Seq(Event) :
            /\ Ordered(cs)
            /\ conn' = [conn EXCEPT ![s].at = "cards", ![s].cards = cs]
    BY <1>3, CollectedType DEF CollectViews, TInv
  <2>2. conn[s].at = "views" /\ UNCHANGED <<page, seen>>
    BY <1>3 DEF CollectViews
  <2>3. /\ conn'[s].at = "cards" /\ conn'[s].cards = cs
        /\ conn'[s].again = conn[s].again
        /\ \A z \in Pages : z # s => conn'[z] = conn[z]
    BY <2>1, <1>0 DEF Handler
  <2>4. ~conn[s].again => Fresh(cs, page[s])
    <3>1. \A i, j \in 1 .. Len(cs) : cs[i].dev = cs[j].dev => i = j
      BY <2>1, CollectedDistinct DEF Ordered
    <3>2. \A i \in 1 .. Len(cs) : cs[i].dev \in Devices
      BY EventFields
    <3>3. ~conn[s].again => \A d \in Devices : page[s][d].cards = 0
      BY <2>2
    <3> QED
      BY <3>1, <3>2, <3>3 DEF Fresh
  <2> QED
    BY <2>2, <2>3, <2>4 DEF Fresh
<1>4. ASSUME NEW s \in Pages, SendCard(s) PROVE CInv'
  <2> DEFINE cs == conn[s].cards
             d == Head(cs).dev
  <2>1. /\ conn[s].at = "cards" /\ cs # <<>> /\ seen' = seen \cup {s}
        /\ conn' = [conn EXCEPT ![s].cards = Tail(@)]
    BY <1>4 DEF SendCard
  <2>2. cs \in Seq(Event) /\ d \in Devices
    <3>1. cs \in Seq(Event)
      BY <1>0 DEF Handler
    <3> QED
      BY <2>1, <3>1, EventFields
  <2>3. /\ conn'[s].at = "cards" /\ conn'[s].cards = Tail(cs)
        /\ conn'[s].again = conn[s].again
        /\ \A z \in Pages : z # s => conn'[z] = conn[z]
    BY <2>1, <1>0 DEF Handler
  <2>4. /\ \A z \in Pages : z # s => page'[z] = page[z]
        /\ \A x \in Devices : x # d => page'[s][x] = page[s][x]
    BY <1>4, <1>0 DEF SendCard
  <2>5. page'[s][d].cards <= 1
    <3>1. CASE conn[s].again
      <4>1. page'[s][d].cards = page[s][d].cards
        BY <1>4, <3>1, <1>0, <2>2 DEF SendCard, Card
      <4> QED
        BY <4>1, <2>2
    <3>2. CASE ~conn[s].again
      <4>1. page'[s][d].cards = page[s][d].cards + 1
        BY <1>4, <3>2, <1>0, <2>2 DEF SendCard
      <4>2. page[s][d].cards = 0
        BY <3>2, <2>1, <2>2, SentFresh
      <4> QED
        BY <4>1, <4>2
    <3> QED
      BY <3>1, <3>2
  <2>6. ~conn[s].again => Fresh(Tail(cs), page'[s])
    <3>1. ~conn[s].again => Fresh(cs, page[s])
      BY <2>1
    <3>2. \A x \in Devices : x # d => page'[s][x] = page[s][x]
      BY <2>4
    <3> QED
      BY <2>1, <2>2, <3>1, <3>2, SentFresh
  <2>7. OneCardEach'
    <3>1. \A x \in Devices : page'[s][x].cards <= 1
      <4> HIDE DEF d
      <4> QED
        BY <2>4, <2>5
    <3> QED
      BY <2>4, <3>1
  <2>8. \A z \in Pages \ seen' : \A x \in Devices : page'[z][x].cards = 0
    BY <2>1, <2>4
  <2>9. \A z \in Pages : conn'[z].at = "views" /\ ~conn'[z].again =>
            z \notin seen'
    BY <2>1, <2>3
  <2>10. \A z \in Pages : conn'[z].at = "cards" /\ ~conn'[z].again =>
             Fresh(conn'[z].cards, page'[z])
    <3>1. \A z \in Pages : z # s =>
              conn'[z] = conn[z] /\ page'[z] = page[z]
      BY <2>3, <2>4
    <3> QED
      BY <2>3, <2>6, <3>1
  <2> QED
    BY <2>7, <2>8, <2>9, <2>10
<1>5. ASSUME NEW s \in Pages, Stream(s) PROVE CInv'
  <2>1. /\ conn'[s].at = "stream" /\ UNCHANGED <<page, seen>>
        /\ \A z \in Pages : z # s => conn'[z] = conn[z]
    BY <1>5, <1>0 DEF Stream, Handler
  <2> QED
    BY <2>1 DEF Fresh
<1>6. ASSUME NEW s \in Pages, SendEvent(s) PROVE CInv'
  <2> DEFINE d == Head(queue[s]).dev
  <2>1. /\ conn[s].at = "stream" /\ seen' = seen \cup {s}
        /\ UNCHANGED conn
        /\ page' = [page EXCEPT ![s][d] = Patched(@, Head(queue[s]))]
    BY <1>6 DEF SendEvent
  <2>2. d \in Devices
    <3>1. queue[s] \in Seq(Event) /\ queue[s] # <<>>
      BY <1>6 DEF SendEvent, TInv, TypeOK
    <3> QED
      BY <3>1, EventFields
  <2>3. /\ \A z \in Pages : z # s => page'[z] = page[z]
        /\ \A x \in Devices : x # d => page'[s][x] = page[s][x]
        /\ page'[s][d] = Patched(page[s][d], Head(queue[s]))
    BY <2>1, <2>2, <1>0
  <2>4. page'[s][d].cards = page[s][d].cards
    BY <2>2, <2>3, <1>0 DEF Patched, Card
  <2> HIDE DEF d
  <2> QED
    BY <2>1, <2>2, <2>3, <2>4 DEF Fresh
<1>7. ASSUME NEW s \in Pages, Disconnect(s) PROVE CInv'
  <2>1. /\ conn'[s].at = "off" /\ UNCHANGED <<page, seen>>
        /\ \A z \in Pages : z # s => conn'[z] = conn[z]
    BY <1>7, <1>0 DEF Disconnect, Off
  <2> QED
    BY <2>1 DEF Fresh
<1>8. ASSUME NEW n \in Producers, Render(n) \/ Enqueue(n)
      PROVE  UNCHANGED <<conn, page, seen>>
  BY <1>8 DEF Render, Enqueue
<1>9. ASSUME NEW d \in Devices,
             \/ Tick(d) \/ TickDialFails(d) \/ OtherWrite(d)
             \/ \E h \in Handlers : UiWrite(h, d)
      PROVE  UNCHANGED <<conn, page, seen>>
  BY <1>9 DEF Tick, TickDialFails, OtherWrite, UiWrite, Write
<1>10. CASE UNCHANGED vars
  BY <1>1, <1>10 DEF vars
<1> QED
  BY <1>1, <1>2, <1>3, <1>4, <1>5, <1>6, <1>7, <1>8, <1>9, <1>10 DEF Next

\* Lost connections and reconnections, in any order and at any point of a
\* fill, never leave a page with two cards for a device: a handler that
\* appends does so to a page that has had no event
\* (handlers_ui_sse.go:75-79).
THEOREM CardsOnce == Spec => []OneCardEach
<1>1. Init => CInv
  BY DEF Init, CInv, OneCardEach, NoCard, Off
<1>2. CInv => OneCardEach
  BY DEF CInv
<1> QED
  BY <1>1, <1>2, TypesInit, TypesNext, CardsNext, PTL DEF Spec

-----------------------------------------------------------------------------
(* Events.                                                                 *)

\* The full card c shows a snapshot of t or newer.
Shows(c, t) == c.cards > 0 /\ c.full => c.snap >= t

\* What page s was told of d, if d is not excused, is in the queue or shown.
Kept(s, d) == /\ LastIs(queue[s], d, told[s][d])
              /\ \/ Has(queue[s], d)
                 \/ told[s][d] = 0
                 \/ conn[s].at = "stream" /\ Shows(page[s][d], told[s][d])

NInv == \A s \in Pages : \A d \in Devices \ excused[s] : Kept(s, d)

\* Notify: a queued event is the newest of its device, or excuses it; of
\* another device it excuses the one whose only event it pushes out.
LEMMA EnqueueKeeps ==
    ASSUME TInv, NInv, NEW n \in Producers, Enqueue(n), NEW s \in Pages,
           NEW d \in Devices \ excused'[s]
    PROVE  Kept(s, d)'
<1> DEFINE e == [dev |-> notify[n].dev, snap |-> notify[n].snap]
<1>1. e \in Event /\ e.dev \in Devices /\ e.snap \in Nat
  <2>1. notify[n] \in Notification /\ notify[n].dev \in Devices
    BY DEF Enqueue, TInv, TypeOK
  <2>2. notify[n].snap \in Nat
    BY <2>1 DEF Notification
  <2> QED
    BY <2>1, <2>2 DEF Event
<1>2. queue[s] \in Seq(Event) /\ Len(queue[s]) <= Buffer
  BY DEF TInv, TypeOK
<1>3. told[s] \in [Devices -> 0 .. Changes] /\ told[s][d] \in Nat
  BY PushHubAssumption DEF TInv, TypeOK
<1>4. UNCHANGED <<conn, page>>
  BY DEF Enqueue
<1>5. CASE s \notin sub
  <2>1. /\ queue'[s] = queue[s] /\ told'[s] = told[s]
        /\ excused'[s] = excused[s]
    BY <1>5 DEF Enqueue
  <2>2. Kept(s, d)
    BY <2>1 DEF NInv
  <2> QED
    BY <1>4, <2>1, <2>2 DEF Kept
<1>6. CASE s \in sub /\ d = e.dev
  <2>1. queue'[s] = Put(queue[s], e)
    BY <1>6 DEF Enqueue
  <2>2. e.snap >= told[s][d]
    BY <1>1, <1>3, <1>6 DEF Enqueue
  <2>3. told'[s] = IF e.snap > told[s][e.dev]
                   THEN [told[s] EXCEPT ![e.dev] = e.snap] ELSE told[s]
    BY <1>6 DEF Enqueue
  <2> HIDE DEF e
  <2>4. told'[s][d] = e.snap
    BY <1>1, <1>3, <1>6, <2>2, <2>3
  <2>5. Has(Put(queue[s], e), e.dev) /\ LastIs(Put(queue[s], e), e.dev, e.snap)
    <3>1. e.snap >= e.snap
      BY <1>1
    <3> QED
      BY <1>1, <1>2, <3>1, PutOwn
  <2> QED
    BY <1>6, <2>1, <2>4, <2>5 DEF Kept
<1>7. CASE s \in sub /\ d # e.dev
  <2>1. queue'[s] = Put(queue[s], e)
    BY <1>7 DEF Enqueue
  <2>2. d \notin Lost(queue[s], e) /\ d \notin excused[s]
    BY <1>7 DEF Enqueue
  <2>3. told'[s][d] = told[s][d]
    BY <1>1, <1>3, <1>7 DEF Enqueue
  <2>4. Kept(s, d)
    BY <2>2 DEF NInv
  <2> HIDE DEF e
  <2>5. /\ LastIs(queue'[s], d, told[s][d])
        /\ Has(queue[s], d) => Has(queue'[s], d)
    BY <1>1, <1>2, <1>7, <2>1, <2>2, <2>4, PutOther DEF Kept
  <2> QED
    BY <1>4, <2>3, <2>4, <2>5 DEF Kept
<1> QED
  BY <1>5, <1>6, <1>7

\* The SSE handler: what leaves the queue last is shown.
LEMMA SendEventKeeps ==
    ASSUME TInv, NInv, NEW s \in Pages, SendEvent(s), NEW z \in Pages,
           NEW d \in Devices \ excused'[z]
    PROVE  Kept(z, d)'
<1> DEFINE e == Head(queue[s])
<1>1. /\ queue[s] \in Seq(Event) /\ queue[s] # <<>>
      /\ e.dev \in Devices /\ e.snap \in Nat
  BY EventFields DEF SendEvent, TInv, TypeOK
<1>2. /\ UNCHANGED <<conn, told, excused>> /\ conn[s].at = "stream"
      /\ Kept(z, d)
  BY DEF SendEvent, NInv
<1>3. /\ queue' = [queue EXCEPT ![s] = Tail(@)]
      /\ page' = [page EXCEPT ![s][e.dev] = Patched(@, e)]
  BY DEF SendEvent
<1>4. /\ queue \in [Pages -> Seq(Event)] /\ told[z][d] \in Nat
      /\ page \in [Pages -> [Devices -> Card]]
  BY PushHubAssumption DEF TInv, TypeOK
<1> HIDE DEF e
<1>5. CASE z # s
  <2>1. queue'[z] = queue[z] /\ page'[z] = page[z]
    BY <1>3, <1>4, <1>5
  <2> QED
    BY <1>2, <2>1 DEF Kept
<1>6. CASE z = s
  <2>1. queue'[s] = Tail(queue[s])
    BY <1>3, <1>4
  <2>2. /\ LastIs(queue'[s], d, told[s][d])
        /\ Has(queue[s], d) /\ ~Has(queue'[s], d) =>
             e.dev = d /\ e.snap >= told[s][d]
        /\ Has(queue'[s], d) => Has(queue[s], d)
    BY <1>1, <1>2, <1>6, <2>1, TailLast DEF Kept, e
  <2>3. CASE Has(queue'[s], d)
    BY <1>2, <1>6, <2>2, <2>3 DEF Kept
  <2>4. CASE ~Has(queue'[s], d) /\ Has(queue[s], d)
    <3>1. page'[s][d] = Patched(page[s][d], e)
      BY <1>3, <1>4, <2>2, <2>4
    <3>2. Shows(page'[s][d], told[s][d])
      BY <1>1, <1>4, <2>2, <2>4, <3>1 DEF Shows, Patched, Card
    <3> QED
      BY <1>2, <1>6, <2>2, <3>2 DEF Kept
  <2>5. CASE ~Has(queue[s], d)
    <3>1. Has(queue[s], e.dev)
      <4>1. 1 \in 1 .. Len(queue[s]) /\ e = queue[s][1]
        BY <1>1, TailFields DEF e
      <4> QED
        BY <4>1 DEF Has
    <3>2. page'[s][d] = page[s][d]
      BY <1>1, <1>3, <1>4, <2>5, <3>1
    <3> QED
      BY <1>2, <1>6, <2>2, <2>5, <3>2 DEF Kept
  <2> QED
    BY <2>3, <2>4, <2>5
<1> QED
  BY <1>5, <1>6

\* Every step keeps what a page was told of in its queue or on the page.
LEMMA EventsNext == TInv /\ NInv /\ [Next]_vars => NInv'
<1> SUFFICES ASSUME TInv, NInv, [Next]_vars PROVE NInv'
  OBVIOUS
<1>0. /\ conn \in [Pages -> Handler]
      /\ \A s \in Pages : \A d \in Devices \ excused[s] : Kept(s, d)
  BY DEF TInv, TypeOK, NInv
<1>1. CASE UNCHANGED <<queue, conn, page, told, excused>>
  BY <1>0, <1>1 DEF Kept, NInv
<1>2. ASSUME NEW n \in Producers, Enqueue(n) PROVE NInv'
  BY <1>2, EnqueueKeeps DEF NInv
<1>3. ASSUME NEW s \in Pages, SendEvent(s) PROVE NInv'
  BY <1>3, SendEventKeeps DEF NInv
\* A handler that fills a page leaves the queue alone.
<1>4. ASSUME NEW s \in Pages,
             Connect(s) \/ CollectViews(s) \/ SendCard(s) \/ Stream(s)
      PROVE  NInv'
  <2>1. /\ UNCHANGED <<queue, told, excused>>
        /\ conn[s].at # "stream"
        /\ \A z \in Pages : z # s =>
              conn'[z] = conn[z] /\ page'[z] = page[z]
    BY <1>4 DEF Connect, CollectViews, SendCard, Stream, TInv, TypeOK
  <2>2. ASSUME NEW z \in Pages, NEW d \in Devices \ excused[z]
        PROVE  Kept(z, d)'
    BY <1>0, <2>1, <2>2 DEF Kept
  <2> QED
    BY <2>1, <2>2 DEF NInv
<1>5. ASSUME NEW s \in Pages, Disconnect(s) PROVE NInv'
  <2>1. /\ UNCHANGED page
        /\ \A z \in Pages : z # s =>
              /\ conn'[z] = conn[z] /\ queue'[z] = queue[z]
              /\ told'[z] = told[z] /\ excused'[z] = excused[z]
        /\ queue'[s] = <<>>
        /\ \A d \in Devices : told'[s][d] = 0
    BY <1>5 DEF Disconnect, TInv, TypeOK
  <2>2. ASSUME NEW z \in Pages, NEW d \in Devices \ excused'[z], z # s
        PROVE  Kept(z, d)'
    BY <1>0, <2>1, <2>2 DEF Kept
  <2>3. ASSUME NEW d \in Devices PROVE Kept(s, d)'
    BY <2>1 DEF Kept, LastIs
  <2> QED
    BY <2>2, <2>3 DEF NInv
<1>6. ASSUME NEW n \in Producers, Render(n) PROVE NInv'
  BY <1>1, <1>6 DEF Render
<1>7. ASSUME NEW d \in Devices,
             \/ Tick(d) \/ TickDialFails(d) \/ OtherWrite(d)
             \/ \E h \in Handlers : UiWrite(h, d)
      PROVE  NInv'
  BY <1>1, <1>7 DEF Tick, TickDialFails, OtherWrite, UiWrite, Write
<1>8. CASE UNCHANGED vars
  BY <1>1, <1>8 DEF vars
<1> QED
  BY <1>2, <1>3, <1>4, <1>5, <1>6, <1>7, <1>8 DEF Next

\* Nothing is lost on the way to a page but what another device's event
\* pushed out of its queue and what an older rendering was queued after: a
\* page that has drained its queue shows the newest snapshot it was told of
\* (push_hub.go:14-17, handlers_ui_sse.go:81-87).
THEOREM DrainedIsNewest == Spec => []DrainedShowsNewest
<1>1. Init => NInv
  BY DEF Init, NInv, Kept, LastIs
<1>2. TInv /\ NInv => DrainedShowsNewest
  <2> SUFFICES ASSUME TInv, NInv, NEW s \in Pages,
                      NEW d \in Devices \ excused[s],
                      queue[s] = <<>>, page[s][d].cards > 0, page[s][d].full
               PROVE  page[s][d].snap >= told[s][d]
    BY DEF DrainedShowsNewest
  <2>1. Kept(s, d) /\ ~Has(queue[s], d)
    BY DEF NInv, Has
  <2>2. page[s][d].snap \in Nat
    BY DEF TInv, TypeOK, Card
  <2> QED
    BY <2>1, <2>2 DEF Kept, Shows
<1> QED
  BY <1>1, <1>2, TypesInit, TypesNext, EventsNext, PTL DEF Spec
=============================================================================
