--------------------------- MODULE HomekitProofs ---------------------------
(***************************************************************************)
(* Proofs about the HomeKit accessory: its types, and what its              *)
(* characteristics show when nothing is running and nothing has overlapped. *)
(***************************************************************************)
EXTENDS Homekit, TLAPS

-----------------------------------------------------------------------------
(* The inductive invariant.                                                *)

\* The switches a write's callback sets, and to what.
Pair(w) == IF w.to \in {"supply", "extract"} THEN {"supply", "extract"}
           ELSE IF w.to \in {"night", "turbo"} THEN {"night", "turbo"}
           ELSE {}
Target(w, c) == Bit(w.to = c /\ w.v = 1)

\* A callback has only switches of its pair to set, each to its target.
OwnSets == \A k \in Controllers : cb[k] # None =>
              \A i \in 1 .. Len(cb[k].left) :
                 /\ cb[k].left[i].char \in Pair(cb[k].w)
                 /\ cb[k].left[i].v = Target(cb[k].w, cb[k].left[i].char)

\* Sync has something left to set as long as it runs.
PollRuns == poll # None => poll.left # <<>>

\* Without an overlap at most one of the callbacks and Sync is running.
OneActor == ~overlap =>
              /\ \A k, j \in Callbacks : k = j
              /\ poll # None => Callbacks = {}

\* A tick that is alone has read the device as it is.
AlonePolls == poll # None /\ poll.alone =>
                 /\ Callbacks = {}
                 /\ poll.seen = dev

\* An undisturbed Sync has set whatever it has not left to set.
Synced == poll # None /\ (poll.alone \/ ~overlap) =>
             \A c \in Names : \/ \E i \in 1 .. Len(poll.left) : poll.left[i] = c
                              \/ chars[c] = Shown(poll.seen)[c]

SeenIsDevice == poll # None /\ ~overlap /\ ~wrong => poll.seen = dev

\* A callback on its own has set what it has not left to set; the other pair
\* is as exclusive as it was.
HalfSet == ~overlap => \A k \in Callbacks :
    /\ \A c \in Pair(cb[k].w) :
         \/ \E i \in 1 .. Len(cb[k].left) : cb[k].left[i].char = c
         \/ chars[c] = Target(cb[k].w, c)
    /\ "supply" \notin Pair(cb[k].w) => chars["supply"] + chars["extract"] <= 1
    /\ "night" \notin Pair(cb[k].w) => chars["night"] + chars["turbo"] <= 1

Followed == {"active", "supply", "extract", "heater"}

\* The rest of the accessory already shows what its operation will bring.
Ahead == ~overlap /\ ~wrong => \A k \in Callbacks :
    LET w == cb[k].w  d == Applied(w, dev) IN
    /\ \A c \in Followed \ Pair(w) : chars[c] = Shown(d)[c]
    /\ d.timer # "off" /\ d.timer \notin Pair(w) => chars[d.timer] = 1

Shows == /\ OwnSets
         /\ OneActor
         /\ AlonePolls
         /\ Synced
         /\ SeenIsDevice
         /\ HalfSet
         /\ Ahead
         /\ ExclusiveUnlessOverlapped
         /\ AloneFollows

HIInv == TypeOK /\ PollRuns /\ Shows

-----------------------------------------------------------------------------
(* The operators.                                                          *)

\* What a poll shows of a device is a value of the accessory, of each switch 0
\* or 1, and at most one of each pair is on.
LEMMA ShownType ==
    ASSUME NEW d \in Device
    PROVE  /\ Shown(d) \in [Names -> 0 .. 100]
           /\ \A c \in Switches : Shown(d)[c] <= 1
           /\ Shown(d)["supply"] + Shown(d)["extract"] <= 1
           /\ Shown(d)["night"] + Shown(d)["turbo"] <= 1
<1>1. SupplyPct(d) \in 0 .. 100
    BY HomekitAssumption DEF SupplyPct, Device
<1>2. \A b \in BOOLEAN : Bit(b) \in 0 .. 1
    BY DEF Bit
<1>3. ASSUME NEW c \in Names
      PROVE  /\ Shown(d)[c] \in 0 .. 100
             /\ c \in Switches => Shown(d)[c] <= 1
    <2>1. /\ d.power \in BOOLEAN /\ d.heater \in BOOLEAN /\ d.soiled \in BOOLEAN
          /\ Bit(d.preset # 0) \in 0 .. 1
          /\ \A x : Bit(d.airflow = x) \in 0 .. 1 /\ Bit(d.timer = x) \in 0 .. 1
        BY DEF Device, Bit
    <2>2. Bit(d.power) \in 0 .. 1 /\ Bit(d.heater) \in 0 .. 1 /\ Bit(d.soiled) \in 0 .. 1
        BY <1>2, <2>1
    <2> HIDE DEF Bit
    <2>3. CASE c = "speed"
        BY <1>1, <2>3 DEF Shown, Names, Switches
    <2>4. CASE c \in {"active", "auto"}
        BY <2>1, <2>2, <2>4 DEF Shown, Names, Switches
    <2>5. CASE c \in {"supply", "extract", "night", "turbo"}
        BY <2>1, <2>5 DEF Shown, Names, Switches
    <2>6. CASE c \in {"heater", "change"}
        BY <2>2, <2>6 DEF Shown, Names, Switches
    <2>7. c \in {"active", "auto", "supply", "extract", "heater", "night",
                  "turbo", "change", "speed"}
        BY DEF Names, Switches
    <2> QED  BY <2>3, <2>4, <2>5, <2>6, <2>7
<1>4. Shown(d) \in [Names -> 0 .. 100]
    <2>1. \A c \in Names : Shown(d)[c] \in 0 .. 100
        BY <1>3
    <2> QED  BY <2>1 DEF Shown
<1>5. Shown(d)["supply"] + Shown(d)["extract"] <= 1
    BY DEF Shown, Names, Switches, Bit
<1>6. Shown(d)["night"] + Shown(d)["turbo"] <= 1
    BY DEF Shown, Names, Switches, Bit
<1> QED  BY <1>3, <1>4, <1>5, <1>6 DEF Names

\* Each characteristic of a pair or of the followed ones, as shown.
LEMMA ShownIs ==
    ASSUME NEW d
    PROVE  /\ Shown(d)["active"] = Bit(d.power)
           /\ Shown(d)["heater"] = Bit(d.heater)
           /\ \A c \in {"supply", "extract"} : Shown(d)[c] = Bit(d.airflow = c)
           /\ \A c \in {"night", "turbo"} : Shown(d)[c] = Bit(d.timer = c)
    BY DEF Shown, Names, Switches

\* A remote write is to a characteristic that can be written.
LEMMA WriteType ==
    ASSUME NEW w \in RemoteWrites
    PROVE  /\ w.to \in {"active", "auto", "supply", "extract", "heater",
                        "night", "turbo", "speed", "reset"}
           /\ w.v \in 0 .. 100
           /\ w.to # "speed" => w.v \in 0 .. 1
    BY HomekitAssumption DEF Names, Switches

\* An operation leaves a state the device can be in.
LEMMA AppliedType ==
    ASSUME NEW w \in RemoteWrites, NEW d \in Device
    PROVE  Applied(w, d) \in Device
<1>1. Clamp(w.v) \in 10 .. 100
    BY WriteType DEF Clamp
<1>2. CASE w.to = "active"
    <2>1. Applied(w, d) \in {[d EXCEPT !.power = TRUE],
                              [d EXCEPT !.power = FALSE, !.timer = "off"]}
        <3>1. w.v = 0 \/ w.v = 1
            BY <1>2, WriteType
        <3>2. CASE w.v = 0
            BY <1>2, <3>2 DEF Applied
        <3>3. CASE w.v = 1
            BY <1>2, <3>3 DEF Applied
        <3> QED  BY <3>1, <3>2, <3>3
    <2>2. [d EXCEPT !.power = TRUE] \in Device
        BY DEF Device
    <2>3. [d EXCEPT !.power = FALSE, !.timer = "off"] \in Device
        BY DEF Device
    <2> QED  BY <2>1, <2>2, <2>3
<1>3. CASE w.to = "auto"
    <2>1. Applied(w, d) = [d EXCEPT !.preset = 1, !.timer = "off"]
        BY <1>3 DEF Applied
    <2>2. 1 \in 0 .. 3
        OBVIOUS
    <2> QED  BY <2>1, <2>2 DEF Device
<1>4. CASE w.to = "speed"
    <2>1. Applied(w, d) = [d EXCEPT !.pct = Clamp(w.v), !.preset = 0, !.timer = "off"]
        BY <1>4 DEF Applied
    <2>2. \A p \in 10 .. 100 : [d EXCEPT !.pct = p] \in Device
        BY DEF Device
    <2>3. \A e \in Device : [e EXCEPT !.preset = 0] \in Device
        BY DEF Device
    <2>4. \A e \in Device : [e EXCEPT !.timer = "off"] \in Device
        BY DEF Device
    <2> QED  BY <1>1, <2>1, <2>2, <2>3, <2>4
<1>5. CASE w.to \in {"supply", "extract"}
    BY <1>5 DEF Applied, Device
<1>6. CASE w.to = "heater"
    BY <1>6 DEF Applied, Device
<1>7. CASE w.to \in {"night", "turbo"}
    BY <1>7 DEF Applied, Device
<1>8. CASE w.to = "reset"
    BY <1>8 DEF Applied, Device
<1> QED  BY <1>2, <1>3, <1>4, <1>5, <1>6, <1>7, <1>8, WriteType

\* A write has a pair when it is to a switch of one.
LEMMA PairIs ==
    ASSUME NEW w
    PROVE  /\ Pair(w) \subseteq {"supply", "extract", "night", "turbo"}
           /\ Pair(w) \subseteq Names
           /\ "supply" \in Pair(w) <=> w.to \in {"supply", "extract"}
           /\ "extract" \in Pair(w) <=> w.to \in {"supply", "extract"}
           /\ "night" \in Pair(w) <=> w.to \in {"night", "turbo"}
           /\ "turbo" \in Pair(w) <=> w.to \in {"night", "turbo"}
    BY DEF Pair, Names, Switches

\* What an operation does to the fields that are followed.
LEMMA AppliedFields ==
    ASSUME NEW w \in RemoteWrites, NEW d \in Device
    PROVE  /\ w.to # "active" => Applied(w, d).power = d.power
           /\ w.to # "heater" => Applied(w, d).heater = d.heater
           /\ w.to \notin {"supply", "extract"} => Applied(w, d).airflow = d.airflow
           /\ w.to \notin {"night", "turbo"} => Applied(w, d).timer \in {"off", d.timer}
           /\ w.to = "active" => Bit(Applied(w, d).power) = w.v
           /\ w.to = "heater" => Bit(Applied(w, d).heater) = w.v
           /\ w.to \in {"supply", "extract"} =>
                 Applied(w, d).airflow = IF w.v = 1 THEN w.to ELSE "regeneration"
           /\ w.to \in {"night", "turbo"} =>
                 Applied(w, d).timer = IF w.v = 1 THEN w.to ELSE "off"
<1>1. CASE w.to = "active"
    <2>1. w.v = 0 \/ w.v = 1
        BY <1>1, WriteType
    <2>2. CASE w.v = 0
        BY <1>1, <2>2 DEF Applied, Device, Bit
    <2>3. CASE w.v = 1
        BY <1>1, <2>3 DEF Applied, Device, Bit
    <2> QED  BY <2>1, <2>2, <2>3
<1>2. CASE w.to = "auto"
    BY <1>2 DEF Applied, Device
<1>3. CASE w.to = "speed"
    BY <1>3 DEF Applied, Device
<1>4. CASE w.to \in {"supply", "extract"}
    BY <1>4 DEF Applied, Device
<1>5. CASE w.to = "heater"
    <2>1. w.v = 0 \/ w.v = 1
        BY <1>5, WriteType
    <2> QED  BY <1>5, <2>1 DEF Applied, Device, Bit
<1>6. CASE w.to \in {"night", "turbo"}
    BY <1>6 DEF Applied, Device
<1>7. CASE w.to = "reset"
    BY <1>7 DEF Applied, Device
<1> QED  BY <1>1, <1>2, <1>3, <1>4, <1>5, <1>6, <1>7, WriteType

\* Before its operation, a write has already shown what the operation brings,
\* but for the switches of its pair.
LEMMA WriteAhead ==
    ASSUME NEW w \in RemoteWrites, NEW d \in Device
    PROVE  /\ \A c \in Followed \ Pair(w) :
                 Shown(Applied(w, d))[c] = IF c = w.to THEN w.v ELSE Shown(d)[c]
           /\ Applied(w, d).timer # "off" /\ Applied(w, d).timer \notin Pair(w) =>
                 /\ Applied(w, d).timer = d.timer
                 /\ Applied(w, d).timer # w.to
                 /\ Applied(w, d).timer \in {"night", "turbo"}
<1> DEFINE e == Applied(w, d)
<1>1. e \in Device
    BY AppliedType
<1>2. /\ w.to \notin {"active"} => e.power = d.power
      /\ w.to # "heater" => e.heater = d.heater
      /\ w.to \notin {"supply", "extract"} => e.airflow = d.airflow
      /\ w.to \notin {"night", "turbo"} => e.timer \in {"off", d.timer}
    BY AppliedFields
<1>3. /\ w.to = "active" => Bit(e.power) = w.v
      /\ w.to = "heater" => Bit(e.heater) = w.v
    BY AppliedFields
<1> HIDE DEF e
<1>4. ASSUME NEW c \in Followed \ Pair(w)
      PROVE  Shown(e)[c] = IF c = w.to THEN w.v ELSE Shown(d)[c]
    <2>1. CASE c = "active"
        BY <1>2, <1>3, <2>1, ShownIs
    <2>2. CASE c = "heater"
        BY <1>2, <1>3, <2>2, ShownIs
    <2>3. CASE c \in {"supply", "extract"}
        <3>1. w.to \notin {"supply", "extract"}
            BY <1>4, <2>3 DEF Pair
        <3> QED  BY <1>2, <2>3, <3>1, ShownIs
    <2> QED  BY <1>4, <2>1, <2>2, <2>3 DEF Followed
<1>5. ASSUME e.timer # "off", e.timer \notin Pair(w)
      PROVE  e.timer = d.timer /\ e.timer # w.to /\ e.timer \in {"night", "turbo"}
    <2>1. e.timer \in {"night", "turbo"}
        BY <1>1, <1>5 DEF Device
    <2>2. w.to \notin {"night", "turbo"}
        BY <1>5, <2>1 DEF Pair
    <2> QED  BY <1>2, <1>5, <2>1, <2>2
<1> QED  BY <1>4, <1>5 DEF e

\* What a callback shows of its pair is what its operation brings.
LEMMA TargetIs ==
    ASSUME NEW w \in RemoteWrites, NEW d \in Device
    PROVE  /\ \A c \in {"supply", "extract"} \cap Pair(w) :
                 Target(w, c) = Shown(Applied(w, d))[c]
           /\ Applied(w, d).timer # "off" /\ Applied(w, d).timer \in Pair(w) =>
                 Target(w, Applied(w, d).timer) = 1
<1> DEFINE e == Applied(w, d)
<1>1. /\ w.to \in {"supply", "extract"} =>
            e.airflow = IF w.v = 1 THEN w.to ELSE "regeneration"
      /\ w.to \in {"night", "turbo"} => e.timer = IF w.v = 1 THEN w.to ELSE "off"
    BY AppliedFields
<1>2. e.timer \in {"off", "night", "turbo"}
    <2>1. e \in Device
        BY AppliedType
    <2> HIDE DEF e
    <2> QED  BY <2>1 DEF Device
<1> HIDE DEF e
<1>3. ASSUME NEW c \in {"supply", "extract"} \cap Pair(w)
      PROVE  Target(w, c) = Shown(e)[c]
    <2>1. w.to \in {"supply", "extract"}
        BY <1>3, PairIs
    <2>2. Shown(e)[c] = Bit(e.airflow = c)
        BY <1>3, ShownIs
    <2>3. (e.airflow = c) <=> (w.to = c /\ w.v = 1)
        BY <1>1, <1>3, <2>1
    <2> QED  BY <2>2, <2>3 DEF Target, Bit
<1>4. ASSUME e.timer # "off", e.timer \in Pair(w)
      PROVE  Target(w, e.timer) = 1
    <2>1. w.to \in {"night", "turbo"}
        BY <1>2, <1>4, PairIs
    <2>2. e.timer = w.to /\ w.v = 1
        BY <1>1, <1>4, <2>1
    <2> QED  BY <2>2 DEF Target, Bit
<1> QED  BY <1>3, <1>4 DEF e

\* A write sets two switches, its pair, to their targets.
SetsTwo(w, s, t) == /\ Sets(w) = <<s, t>>
                    /\ Pair(w) = {s.char, t.char}
                    /\ s.v = Target(w, s.char)
                    /\ t.v = Target(w, t.char)

LEMMA TwoSets ==
    ASSUME NEW w \in RemoteWrites,
           NEW s \in [char : Names, v : 0 .. 1], NEW t \in [char : Names, v : 0 .. 1],
           SetsTwo(w, s, t)
    PROVE  /\ Sets(w) \in Seq([char : Names, v : 0 .. 1])
           /\ \A i \in 1 .. Len(Sets(w)) : Sets(w)[i].char \in Pair(w)
           /\ \A i \in 1 .. Len(Sets(w)) : Sets(w)[i].v = Target(w, Sets(w)[i].char)
           /\ \A c \in Pair(w) : \E i \in 1 .. Len(Sets(w)) : Sets(w)[i].char = c
<1> DEFINE z == Sets(w)
<1> HIDE DEF z
<1>1. /\ z = <<s, t>> /\ Pair(w) = {s.char, t.char}
      /\ s.v = Target(w, s.char) /\ t.v = Target(w, t.char)
    BY DEF z, SetsTwo
<1>2. z \in Seq([char : Names, v : 0 .. 1]) /\ Len(z) = 2 /\ z[1] = s /\ z[2] = t
    BY <1>1
<1>3. \A i \in 1 .. 2 : z[i].v = Target(w, z[i].char) /\ z[i].char \in Pair(w)
    BY <1>1, <1>2
<1>4. \A c \in Pair(w) : \E i \in 1 .. 2 : z[i].char = c
    BY <1>1, <1>2
<1> QED  BY <1>2, <1>3, <1>4 DEF z

\* A callback sets the switches of its pair, each to its target, and no other.
LEMMA SetsIs ==
    ASSUME NEW w \in RemoteWrites
    PROVE  /\ Sets(w) \in Seq([char : Names, v : 0 .. 1])
           /\ \A i \in 1 .. Len(Sets(w)) : Sets(w)[i].char \in Pair(w)
           /\ \A i \in 1 .. Len(Sets(w)) : Sets(w)[i].v = Target(w, Sets(w)[i].char)
           /\ \A c \in Pair(w) : \E i \in 1 .. Len(Sets(w)) : Sets(w)[i].char = c
<1> DEFINE R == [char : Names, v : 0 .. 1]
<1>1. \A c : Target(w, c) \in 0 .. 1
    BY DEF Target, Bit
<1>2. CASE w.to \in {"supply", "extract"}
    <2> DEFINE s == Set("supply", Target(w, "supply"))  t == Set("extract", Target(w, "extract"))
    <2>1. Sets(w) = <<s, t>> /\ Pair(w) = {"supply", "extract"}
        BY <1>2 DEF Sets, Pair, Target
    <2>2. s.char = "supply" /\ s.v = Target(w, "supply") /\ t.char = "extract" /\ t.v = Target(w, "extract")
        BY DEF Set
    <2>3. s \in R /\ t \in R
        BY <1>1 DEF Set, Names, Switches
    <2>4. SetsTwo(w, s, t)
        BY <2>1, <2>2 DEF SetsTwo
    <2> HIDE DEF s, t
    <2> QED  BY <2>3, <2>4, TwoSets
<1>3. CASE w.to \in {"night", "turbo"}
    <2> DEFINE s == Set("night", Target(w, "night"))  t == Set("turbo", Target(w, "turbo"))
    <2>1. Sets(w) = <<s, t>> /\ Pair(w) = {"night", "turbo"}
        BY <1>3 DEF Sets, Pair, Target
    <2>2. s.char = "night" /\ s.v = Target(w, "night") /\ t.char = "turbo" /\ t.v = Target(w, "turbo")
        BY DEF Set
    <2>3. s \in R /\ t \in R
        BY <1>1 DEF Set, Names, Switches
    <2>4. SetsTwo(w, s, t)
        BY <2>1, <2>2 DEF SetsTwo
    <2> HIDE DEF s, t
    <2> QED  BY <2>3, <2>4, TwoSets
<1>4. CASE w.to \notin {"supply", "extract", "night", "turbo"}
    <2>1. Sets(w) = << >> /\ Pair(w) = {}
        BY <1>4 DEF Sets, Pair
    <2> QED  BY <2>1
<1> QED  BY <1>2, <1>3, <1>4

-----------------------------------------------------------------------------
(* Types.                                                                  *)

\* A tick that is no longer alone is still a tick, or still none.
LEMMA DisturbedType ==
    ASSUME poll \in Poll \cup {None}
    PROVE  /\ Disturbed \in Poll \cup {None}
           /\ (Disturbed = None) <=> (poll = None)
           /\ poll # None => /\ Disturbed.left = poll.left
                             /\ Disturbed.seen = poll.seen
                             /\ ~Disturbed.alone
    BY NoneAssumption DEF Disturbed, Poll

LEMMA TypesInit == Init => TypeOK /\ PollRuns
<1> SUFFICES ASSUME Init PROVE TypeOK /\ PollRuns
    OBVIOUS
<1>1. chars \in [Names -> 0 .. 100] /\ \A c \in Switches : chars[c] <= 1
    BY DEF Init, Defaults, Names
<1>2. cb \in [Controllers -> Callback \cup {None}]
    BY DEF Init
<1> QED  BY <1>1, <1>2, HomekitAssumption DEF Init, TypeOK, PollRuns

LEMMA RemoteWriteTypes ==
    ASSUME TypeOK, PollRuns, NEW k \in Controllers, NEW w \in RemoteWrites,
           RemoteWrite(k, w)
    PROVE  TypeOK' /\ PollRuns'
<1>1. chars' \in [Names -> 0 .. 100] /\ \A c \in Switches : chars'[c] <= 1
    <2>1. DOMAIN chars = Names /\ chars' = [c \in Names |-> IF c = w.to THEN w.v ELSE chars[c]]
        BY DEF TypeOK, RemoteWrite
    <2>2. "speed" \notin Switches /\ Switches \subseteq Names
        BY DEF Switches, Names
    <2> QED  BY <2>1, <2>2, WriteType DEF TypeOK
<1>2. cb' \in [Controllers -> Callback \cup {None}]
    <2>1. [w |-> w, left |-> Sets(w)] \in Callback
        BY SetsIs DEF Callback
    <2>2. cb' \in {cb, [cb EXCEPT ![k] = [w |-> w, left |-> Sets(w)]]}
        BY DEF RemoteWrite
    <2> QED  BY <2>1, <2>2 DEF TypeOK
<1>3. poll' \in Poll \cup {None} /\ PollRuns'
    BY DisturbedType DEF TypeOK, RemoteWrite, PollRuns
<1>4. overlap' \in BOOLEAN
    BY DEF RemoteWrite, TypeOK
<1> QED  BY <1>1, <1>2, <1>3, <1>4 DEF TypeOK, RemoteWrite

\* What a callback sets is one of its own.
LEMMA HeadOf ==
    ASSUME TypeOK, NEW k \in Controllers, cb[k] # None, cb[k].left # << >>
    PROVE  /\ cb[k] \in Callback
           /\ Head(cb[k].left) = cb[k].left[1]
           /\ Head(cb[k].left).char \in Names
           /\ Head(cb[k].left).v \in 0 .. 1
           /\ Len(cb[k].left) > 0
           /\ Len(cb[k].left) \in Nat
           /\ Tail(cb[k].left) \in Seq([char : Names, v : 0 .. 1])
           /\ Len(Tail(cb[k].left)) = Len(cb[k].left) - 1
           /\ \A i \in 1 .. Len(cb[k].left) - 1 :
                 Tail(cb[k].left)[i] = cb[k].left[i + 1]
<1>1. cb[k] \in Callback
    BY DEF TypeOK
<1> DEFINE q == cb[k].left  R == [char : Names, v : 0 .. 1]
<1>2. q \in Seq(R) /\ q # << >>
    BY <1>1 DEF Callback
<1> HIDE DEF q, R
<1>3. /\ Head(q) = q[1] /\ Len(q) > 0 /\ Len(q) \in Nat
      /\ q[1] \in R
      /\ Tail(q) \in Seq(R)
      /\ Len(Tail(q)) = Len(q) - 1
      /\ \A i \in 1 .. Len(q) - 1 : Tail(q)[i] = q[i + 1]
    BY <1>2
<1>4. q[1].char \in Names /\ q[1].v \in 0 .. 1
    BY <1>3 DEF R
<1> QED  BY <1>1, <1>3, <1>4 DEF q, R

\* The callback after a step of its own.
LEMMA SetValueIs ==
    ASSUME TypeOK, NEW k \in Controllers, SetValue(k)
    PROVE  /\ cb'[k].w = cb[k].w
           /\ cb'[k].left = Tail(cb[k].left)
           /\ cb'[k] \in Callback
           /\ \A j \in Controllers \ {k} : cb'[j] = cb[j]
           /\ cb' \in [Controllers -> Callback \cup {None}]
           /\ chars' = [chars EXCEPT ![Head(cb[k].left).char] = Head(cb[k].left).v]
<1>1. cb[k] \in Callback /\ Tail(cb[k].left) \in Seq([char : Names, v : 0 .. 1])
    BY HeadOf DEF SetValue
<1> DEFINE e == [cb[k] EXCEPT !.left = Tail(@)]
<1>2. e.w = cb[k].w /\ e.left = Tail(cb[k].left) /\ e \in Callback
    BY <1>1 DEF Callback
<1>3. cb' = [cb EXCEPT ![k] = e]
    BY DEF SetValue
<1>4. chars' = [chars EXCEPT ![Head(cb[k].left).char] = Head(cb[k].left).v]
    BY DEF SetValue
<1> HIDE DEF e
<1> QED  BY <1>2, <1>3, <1>4 DEF TypeOK

LEMMA SetValueTypes ==
    ASSUME TypeOK, PollRuns, NEW k \in Controllers, SetValue(k)
    PROVE  TypeOK' /\ PollRuns'
<1>1. Head(cb[k].left).char \in Names /\ Head(cb[k].left).v \in 0 .. 1
    BY HeadOf DEF SetValue
<1>2. chars' \in [Names -> 0 .. 100] /\ \A c \in Switches : chars'[c] <= 1
    BY <1>1, SetValueIs DEF TypeOK, Names
<1> QED  BY <1>2, SetValueIs DEF TypeOK, PollRuns, SetValue

LEMMA OperateTypes ==
    ASSUME TypeOK, PollRuns, NEW k \in Controllers, Operate(k) \/ OperateFails(k)
    PROVE  TypeOK' /\ PollRuns'
<1>1. dev' \in Device
    BY AppliedType DEF Operate, OperateFails, TypeOK, Callback
<1>2. cb' = [cb EXCEPT ![k] = None]
    BY DEF Operate, OperateFails
<1>3. cb' \in [Controllers -> Callback \cup {None}]
    BY <1>2 DEF TypeOK
<1>4. CASE Operate(k)
    BY <1>1, <1>3, <1>4 DEF Operate, TypeOK, PollRuns
<1>5. CASE OperateFails(k)
    BY <1>1, <1>3, <1>5 DEF OperateFails, TypeOK, PollRuns, Spend
<1> QED  BY <1>4, <1>5

LEMMA PollReadsTypes ==
    ASSUME TypeOK, PollRuns, PollReads
    PROVE  TypeOK' /\ PollRuns' /\ poll' \in Poll
<1>1. SyncOrder \in Seq(Names) /\ SyncOrder # << >>
    BY DEF SyncOrder, Names, Switches
<1>2. poll' \in Poll /\ poll'.left # << >>
    BY <1>1 DEF PollReads, Poll, TypeOK
<1>3. overlap' \in BOOLEAN
    BY DEF PollReads, TypeOK
<1> QED  BY <1>2, <1>3 DEF PollReads, TypeOK, PollRuns

\* What Sync sets next is a characteristic, and the rest is still a sequence.
LEMMA SyncHead ==
    ASSUME TypeOK, PollRuns, poll # None
    PROVE  /\ poll \in Poll
           /\ Head(poll.left) = poll.left[1]
           /\ Head(poll.left) \in Names
           /\ Len(poll.left) > 0
           /\ Len(poll.left) \in Nat
           /\ Tail(poll.left) \in Seq(Names)
           /\ Len(Tail(poll.left)) = Len(poll.left) - 1
           /\ \A i \in 1 .. Len(poll.left) - 1 : Tail(poll.left)[i] = poll.left[i + 1]
           /\ Len(poll.left) > 1 => Tail(poll.left) # << >>
<1>1. poll \in Poll
    BY DEF TypeOK
<1> DEFINE q == poll.left
<1>2. q \in Seq(Names) /\ q # << >>
    BY <1>1 DEF Poll, PollRuns
<1> HIDE DEF q
<1>3. /\ Head(q) = q[1] /\ q[1] \in Names
      /\ Len(q) > 0 /\ Len(q) \in Nat
      /\ Tail(q) \in Seq(Names) /\ Len(Tail(q)) = Len(q) - 1
      /\ \A i \in 1 .. Len(q) - 1 : Tail(q)[i] = q[i + 1]
    BY <1>2
<1>4. Len(q) > 1 => Tail(q) # << >>
    <2> DEFINE t == Tail(q)
    <2>1. Len(q) > 1 => Len(t) > 0
        BY <1>3
    <2> HIDE DEF t
    <2>2. Len(t) > 0 => t # << >>
        OBVIOUS
    <2> QED  BY <2>1, <2>2 DEF t
<1> QED  BY <1>1, <1>3, <1>4 DEF q

LEMMA SyncSetsTypes ==
    ASSUME TypeOK, PollRuns, SyncSets
    PROVE  TypeOK' /\ PollRuns'
<1>1. poll # None
    BY DEF SyncSets
<1> DEFINE c == Head(poll.left)
<1>2. c \in Names /\ poll.seen \in Device
    BY <1>1, SyncHead DEF Poll
<1>3. chars' = [chars EXCEPT ![c] = Shown(poll.seen)[c]]
    BY DEF SyncSets
<1>4. chars' \in [Names -> 0 .. 100] /\ \A n \in Switches : chars'[n] <= 1
    <2> HIDE DEF c
    <2> QED  BY <1>2, <1>3, ShownType DEF TypeOK, Names
<1>5. CASE Len(poll.left) > 1
    <2>1. poll' = [poll EXCEPT !.left = Tail(@)] /\ UNCHANGED <<overlap, wrong>>
        BY <1>5 DEF SyncSets
    <2>3. Tail(poll.left) # << >>
        BY <1>1, <1>5, SyncHead
    <2>4. poll' \in Poll /\ poll'.left # << >>
        BY <1>1, <2>1, <2>3, SyncHead DEF Poll
    <2> QED  BY <1>4, <2>1, <2>4 DEF TypeOK, PollRuns, SyncSets
<1>6. CASE ~(Len(poll.left) > 1)
    <2>1. poll' = None /\ overlap' \in BOOLEAN /\ wrong' \in BOOLEAN
        BY <1>6 DEF SyncSets, TypeOK
    <2> QED  BY <1>4, <2>1 DEF TypeOK, PollRuns, SyncSets
<1> QED  BY <1>5, <1>6

LEMMA ChangeTypes ==
    ASSUME TypeOK, PollRuns, NEW d \in Changes, Change(d)
    PROVE  TypeOK' /\ PollRuns'
<1>1. d \in Device
    BY HomekitAssumption
<1> QED  BY <1>1, DisturbedType DEF Change, TypeOK, PollRuns, Spend

LEMMA TypesNext == TypeOK /\ PollRuns /\ [Next]_vars => TypeOK' /\ PollRuns'
<1> SUFFICES ASSUME TypeOK, PollRuns, [Next]_vars PROVE TypeOK' /\ PollRuns'
    OBVIOUS
<1>1. CASE PollReads
    BY <1>1, PollReadsTypes
<1>2. CASE SyncSets
    BY <1>2, SyncSetsTypes
<1>3. CASE \E d \in Changes : Change(d)
    BY <1>3, ChangeTypes
<1>4. ASSUME NEW k \in Controllers, CallbackStep(k) PROVE TypeOK' /\ PollRuns'
    BY <1>4, SetValueTypes, OperateTypes DEF CallbackStep
<1>5. ASSUME NEW k \in Controllers, NEW w \in RemoteWrites, RemoteWrite(k, w)
      PROVE  TypeOK' /\ PollRuns'
    BY <1>5, RemoteWriteTypes
<1>6. CASE UNCHANGED vars
    BY <1>6 DEF TypeOK, PollRuns, vars
<1> QED  BY <1>1, <1>2, <1>3, <1>4, <1>5, <1>6 DEF Next

-----------------------------------------------------------------------------
(* What the accessory shows, action by action.                             *)

LEMMA NamesAre ==
    /\ {"active", "supply", "extract", "heater", "night", "turbo", "auto"} \subseteq Names
    /\ Followed \subseteq Names
    BY DEF Names, Switches, Followed

\* Which callbacks there are after a step.
LEMMA CallbacksIs ==
    ASSUME NEW k \in Controllers
    PROVE  /\ cb' = cb => Callbacks' = Callbacks
           /\ TypeOK /\ cb' = [cb EXCEPT ![k] = None] => Callbacks' = Callbacks \ {k}
           /\ TypeOK /\ SetValue(k) => Callbacks' = Callbacks /\ k \in Callbacks
<1>1. cb' = cb => Callbacks' = Callbacks
    BY DEF Callbacks
<1>2. ASSUME TypeOK, cb' = [cb EXCEPT ![k] = None] PROVE Callbacks' = Callbacks \ {k}
    BY <1>2 DEF Callbacks, TypeOK
<1>3. ASSUME TypeOK, SetValue(k) PROVE Callbacks' = Callbacks /\ k \in Callbacks
    <2>1. cb'[k] # None /\ cb[k] # None
        BY <1>3, SetValueIs, NoneAssumption DEF SetValue
    <2>2. \A j \in Controllers \ {k} : cb'[j] = cb[j]
        BY <1>3, SetValueIs
    <2> QED  BY <2>1, <2>2 DEF Callbacks
<1> QED  BY <1>1, <1>2, <1>3

LEMMA ShowsInit == Init => Shows
<1> SUFFICES ASSUME Init PROVE Shows
    OBVIOUS
<1>1. Callbacks = {} /\ \A k \in Controllers : cb[k] = None
    BY DEF Init, Callbacks
<1>2. Exclusive
    BY NamesAre DEF Init, Defaults, Exclusive
<1> QED  BY <1>1, <1>2 DEF Init, Shows, OwnSets, OneActor, AlonePolls, Synced,
            SeenIsDevice, HalfSet, Ahead, ExclusiveUnlessOverlapped, AloneFollows

\* A remote write, when nothing else runs, is one callback that has its pair
\* to set; otherwise something has overlapped.
LEMMA RemoteWriteShows ==
    ASSUME TypeOK, TypeOK', Shows, NEW k \in Controllers, NEW w \in RemoteWrites,
           RemoteWrite(k, w)
    PROVE  Shows'
<1> DEFINE new == [w |-> w, left |-> Sets(w)]
<1>1. new \in Callback /\ new # None /\ new.w = w /\ new.left = Sets(w)
    <2>1. new \in Callback
        BY SetsIs DEF Callback
    <2> QED  BY <2>1, NoneAssumption
<1>2. \/ w.to = "auto" /\ w.v = 0 /\ cb' = cb
      \/ ~(w.to = "auto" /\ w.v = 0) /\ cb' = [cb EXCEPT ![k] = new]
    BY DEF RemoteWrite
<1> HIDE DEF new
<1>3. \/ w.to = "auto" /\ cb' = cb /\ Callbacks' = Callbacks
      \/ /\ ~(w.to = "auto" /\ w.v = 0)
         /\ cb'[k] = new /\ \A j \in Controllers \ {k} : cb'[j] = cb[j]
         /\ Callbacks' = Callbacks \cup {k}
    BY <1>1, <1>2 DEF TypeOK, Callbacks
<1>4. \A c \in Names : chars'[c] = IF c = w.to THEN w.v ELSE chars[c]
    BY DEF RemoteWrite, TypeOK
<1>5. ~overlap' => ~overlap /\ Callbacks = {} /\ poll = None /\ poll' = None /\ Resting
    BY DEF RemoteWrite, Disturbed, Resting
<1>6. poll' # None => ~poll'.alone /\ overlap'
    BY <1>5, DisturbedType DEF RemoteWrite, TypeOK
<1>7. dev' = dev /\ wrong' = wrong
    BY DEF RemoteWrite
<1>8. OwnSets'
    <2>1. \A i \in 1 .. Len(new.left) :
             new.left[i].char \in Pair(new.w) /\ new.left[i].v = Target(new.w, new.left[i].char)
        <3>1. /\ \A i \in 1 .. Len(Sets(w)) : Sets(w)[i].char \in Pair(w)
              /\ \A i \in 1 .. Len(Sets(w)) : Sets(w)[i].v = Target(w, Sets(w)[i].char)
            BY SetsIs
        <3> QED  BY <1>1, <3>1
    <2> QED  BY <1>3, <2>1 DEF Shows, OwnSets
<1>9. OneActor' /\ AlonePolls' /\ Synced' /\ SeenIsDevice'
    BY <1>3, <1>5, <1>6 DEF OneActor, AlonePolls, Synced, SeenIsDevice
<1>10. ASSUME ~overlap'
       PROVE  /\ chars["supply"] + chars["extract"] <= 1
              /\ chars["night"] + chars["turbo"] <= 1
              /\ ~wrong => /\ \A c \in Followed : chars[c] = Shown(dev)[c]
                           /\ dev.timer # "off" => chars[dev.timer] = 1
    BY <1>5, <1>10 DEF Shows, ExclusiveUnlessOverlapped, Exclusive, AloneFollows, Followed
<1>11. HalfSet'
    <2> SUFFICES ASSUME ~overlap', NEW j \in Callbacks'
                 PROVE  /\ \A c \in Pair(cb'[j].w) :
                             \/ \E i \in 1 .. Len(cb'[j].left) : cb'[j].left[i].char = c
                             \/ chars'[c] = Target(cb'[j].w, c)
                        /\ "supply" \notin Pair(cb'[j].w) => chars'["supply"] + chars'["extract"] <= 1
                        /\ "night" \notin Pair(cb'[j].w) => chars'["night"] + chars'["turbo"] <= 1
        BY DEF HalfSet
    <2>1. cb'[j] = new
        BY <1>3, <1>5
    <2>2. \A c \in Pair(w) : \E i \in 1 .. Len(Sets(w)) : Sets(w)[i].char = c
        BY SetsIs
    <2>3. "supply" \notin Pair(w) => chars'["supply"] + chars'["extract"] <= 1
        BY <1>4, <1>10, PairIs, NamesAre
    <2>4. "night" \notin Pair(w) => chars'["night"] + chars'["turbo"] <= 1
        BY <1>4, <1>10, PairIs, NamesAre
    <2> QED  BY <1>1, <2>1, <2>2, <2>3, <2>4
<1>12. Ahead'
    <2> SUFFICES ASSUME ~overlap', ~wrong', NEW j \in Callbacks'
                 PROVE  LET d == Applied(cb'[j].w, dev') IN
                        /\ \A c \in Followed \ Pair(cb'[j].w) : chars'[c] = Shown(d)[c]
                        /\ d.timer # "off" /\ d.timer \notin Pair(cb'[j].w) => chars'[d.timer] = 1
        BY DEF Ahead
    <2>1. cb'[j].w = w /\ dev' = dev /\ ~wrong
        BY <1>1, <1>3, <1>5, <1>7
    <2>2. dev \in Device
        BY DEF TypeOK
    <2> DEFINE d == Applied(w, dev)
    <2>3. \A c \in Followed \ Pair(w) : chars'[c] = Shown(d)[c]
        BY <1>4, <1>10, <2>1, <2>2, WriteAhead, NamesAre
    <2>4. d.timer # "off" /\ d.timer \notin Pair(w) => chars'[d.timer] = 1
        BY <1>4, <1>10, <2>1, <2>2, WriteAhead, NamesAre
    <2> QED  BY <2>1, <2>3, <2>4
<1>13. ASSUME Resting', ~overlap'
       PROVE  /\ Exclusive'
              /\ ~wrong' => /\ \A c \in Followed : chars'[c] = Shown(dev')[c]
                            /\ dev'.timer # "off" => chars'[dev'.timer] = 1
    <2>1. w.to = "auto"
        BY <1>3, <1>13 DEF Resting
    <2>2. \A c \in Names \ {"auto"} : chars'[c] = chars[c]
        BY <1>4, <2>1
    <2>3. Exclusive'
        BY <1>10, <1>13, <2>2, NamesAre DEF Exclusive
    <2>4. dev.timer \in {"off", "night", "turbo"}
        BY DEF TypeOK, Device
    <2>5. \A c \in Followed : c # "auto" /\ c \in Names
        BY NamesAre DEF Followed
    <2>6. dev.timer # "off" => chars'[dev.timer] = chars[dev.timer]
        BY <2>2, <2>4, NamesAre
    <2>7. \A c \in Followed : chars'[c] = chars[c]
        BY <2>2, <2>5
    <2>8. ASSUME ~wrong'
          PROVE  /\ \A c \in Followed : chars'[c] = Shown(dev')[c]
                 /\ dev'.timer # "off" => chars'[dev'.timer] = 1
        BY <1>7, <1>10, <1>13, <2>6, <2>7, <2>8
    <2> QED  BY <2>3, <2>8
<1>14. ExclusiveUnlessOverlapped'
    BY <1>13 DEF ExclusiveUnlessOverlapped
<1>15. AloneFollows'
    <2> SUFFICES ASSUME Resting', ~overlap', ~wrong'
                 PROVE  /\ \A c \in Followed : chars'[c] = Shown(dev')[c]
                        /\ dev'.timer # "off" => chars'[dev'.timer] = 1
        BY DEF AloneFollows, Followed
    <2> QED  BY <1>13
<1> QED  BY <1>8, <1>9, <1>11, <1>12, <1>14, <1>15 DEF Shows

\* A callback sets one of its switches to its target.
LEMMA SetValueShows ==
    ASSUME TypeOK, TypeOK', Shows, NEW k \in Controllers, SetValue(k)
    PROVE  Shows'
<1> DEFINE q == cb[k].left  s == Head(cb[k].left)  w == cb[k].w
<1>1. Callbacks' = Callbacks /\ k \in Callbacks
    BY CallbacksIs
<1>2. /\ s = q[1] /\ s.char \in Names
      /\ Len(q) > 0 /\ Len(q) \in Nat
      /\ Len(Tail(q)) = Len(q) - 1
      /\ \A i \in 1 .. Len(q) - 1 : Tail(q)[i] = q[i + 1]
    BY HeadOf DEF SetValue
<1>3. /\ cb'[k].w = w /\ cb'[k].left = Tail(q)
      /\ \A j \in Controllers \ {k} : cb'[j] = cb[j]
      /\ cb'[k] # None
    BY SetValueIs, NoneAssumption
<1>4. UNCHANGED <<dev, poll, overlap, wrong>>
    BY DEF SetValue
<1>5. chars' = [chars EXCEPT ![s.char] = s.v]
    BY SetValueIs
<1>6. \A i \in 1 .. Len(q) : q[i].char \in Pair(w) /\ q[i].v = Target(w, q[i].char)
    BY DEF Shows, OwnSets, SetValue
<1> HIDE DEF q, s, w
<1>7. s.char \in Pair(w) /\ s.v = Target(w, s.char)
    BY <1>2, <1>6
<1>8. \A c \in Names : chars'[c] = IF c = s.char THEN Target(w, c) ELSE chars[c]
    BY <1>5, <1>7 DEF TypeOK
<1>9. OwnSets'
    <2> SUFFICES ASSUME NEW j \in Controllers, cb'[j] # None
                 PROVE  \A i \in 1 .. Len(cb'[j].left) :
                           /\ cb'[j].left[i].char \in Pair(cb'[j].w)
                           /\ cb'[j].left[i].v = Target(cb'[j].w, cb'[j].left[i].char)
        BY DEF OwnSets
    <2>1. CASE j # k
        BY <1>3, <2>1 DEF Shows, OwnSets
    <2>2. CASE j = k
        <3>1. \A i \in 1 .. Len(Tail(q)) : /\ Tail(q)[i].char \in Pair(w)
                                          /\ Tail(q)[i].v = Target(w, Tail(q)[i].char)
            BY <1>2, <1>6
        <3> QED  BY <1>3, <2>2, <3>1
    <2> QED  BY <2>1, <2>2
<1>10. OneActor'
    BY <1>1, <1>4 DEF Shows, OneActor
<1>11. poll # None => ~poll.alone /\ overlap
    BY <1>1 DEF Shows, OneActor, AlonePolls
<1>12. AlonePolls' /\ Synced' /\ SeenIsDevice'
    BY <1>4, <1>11 DEF AlonePolls, Synced, SeenIsDevice
<1>13. HalfSet'
    <2> SUFFICES ASSUME ~overlap, NEW j \in Callbacks
                 PROVE  /\ \A c \in Pair(cb'[j].w) :
                             \/ \E i \in 1 .. Len(cb'[j].left) : cb'[j].left[i].char = c
                             \/ chars'[c] = Target(cb'[j].w, c)
                        /\ "supply" \notin Pair(cb'[j].w) => chars'["supply"] + chars'["extract"] <= 1
                        /\ "night" \notin Pair(cb'[j].w) => chars'["night"] + chars'["turbo"] <= 1
        BY <1>1, <1>4 DEF HalfSet
    <2>1. j = k
        BY <1>1 DEF Shows, OneActor
    <2>2. /\ \A c \in Pair(w) : \/ \E i \in 1 .. Len(q) : q[i].char = c
                                \/ chars[c] = Target(w, c)
          /\ "supply" \notin Pair(w) => chars["supply"] + chars["extract"] <= 1
          /\ "night" \notin Pair(w) => chars["night"] + chars["turbo"] <= 1
        BY <1>1 DEF Shows, HalfSet, q, w
    <2>3. ASSUME NEW c \in Pair(w)
          PROVE  \/ \E i \in 1 .. Len(Tail(q)) : Tail(q)[i].char = c
                 \/ chars'[c] = Target(w, c)
        <3>1. c \in Names
            BY PairIs
        <3>2. CASE c = s.char
            BY <1>8, <3>1, <3>2
        <3>3. CASE c # s.char /\ chars[c] = Target(w, c)
            BY <1>8, <3>1, <3>3
        <3>4. ASSUME c # s.char, NEW i \in 1 .. Len(q), q[i].char = c
              PROVE  \E n \in 1 .. Len(Tail(q)) : Tail(q)[n].char = c
            <4>1. i # 1
                BY <1>2, <3>4
            <4>2. i - 1 \in 1 .. Len(q) - 1 /\ (i - 1) + 1 = i
                BY <1>2, <4>1
            <4>3. Tail(q)[i - 1] = q[i]
                BY <1>2, <4>2
            <4> QED  BY <1>2, <3>4, <4>2, <4>3
        <3> QED  BY <2>2, <3>2, <3>3, <3>4
    <2>4. "supply" \notin Pair(w) => chars'["supply"] + chars'["extract"] <= 1
        BY <1>7, <1>8, <2>2, PairIs, NamesAre
    <2>5. "night" \notin Pair(w) => chars'["night"] + chars'["turbo"] <= 1
        BY <1>7, <1>8, <2>2, PairIs, NamesAre
    <2> QED  BY <1>3, <2>1, <2>3, <2>4, <2>5
<1>14. Ahead'
    <2> SUFFICES ASSUME ~overlap, ~wrong, NEW j \in Callbacks
                 PROVE  LET d == Applied(cb'[j].w, dev) IN
                        /\ \A c \in Followed \ Pair(cb'[j].w) : chars'[c] = Shown(d)[c]
                        /\ d.timer # "off" /\ d.timer \notin Pair(cb'[j].w) => chars'[d.timer] = 1
        BY <1>1, <1>4 DEF Ahead
    <2>1. j = k
        BY <1>1 DEF Shows, OneActor
    <2> DEFINE d == Applied(w, dev)
    <2>2. /\ \A c \in Followed \ Pair(w) : chars[c] = Shown(d)[c]
          /\ d.timer # "off" /\ d.timer \notin Pair(w) => chars[d.timer] = 1
        BY <1>1 DEF Shows, Ahead, w
    <2>3. \A c \in Followed \ Pair(w) : chars'[c] = chars[c]
        BY <1>7, <1>8, NamesAre
    <2>4. d.timer \in {"off", "night", "turbo"}
        <3>1. w \in RemoteWrites
            BY HeadOf DEF SetValue, Callback, w
        <3>2. d \in Device
            BY <3>1, AppliedType DEF TypeOK
        <3> HIDE DEF d
        <3> QED  BY <3>2 DEF Device
    <2>5. d.timer # "off" /\ d.timer \notin Pair(w) => chars'[d.timer] = chars[d.timer]
        <3> HIDE DEF d
        <3> QED  BY <1>7, <1>8, <2>4, NamesAre
    <2>6. /\ \A c \in Followed \ Pair(w) : chars'[c] = Shown(d)[c]
          /\ d.timer # "off" /\ d.timer \notin Pair(w) => chars'[d.timer] = 1
        <3> HIDE DEF d
        <3> QED  BY <2>2, <2>3, <2>5
    <2> QED  BY <1>3, <2>1, <2>6
<1>15. ~Resting'
    BY <1>1 DEF Resting
<1>16. ExclusiveUnlessOverlapped' /\ AloneFollows'
    BY <1>15 DEF ExclusiveUnlessOverlapped, AloneFollows
<1> QED  BY <1>9, <1>10, <1>12, <1>13, <1>14, <1>16 DEF Shows

\* The operation of a callback that has run on its own brings the device to
\* what the accessory shows; one that fails leaves each pair exclusive.
LEMMA OperateShows ==
    ASSUME TypeOK, TypeOK', Shows, NEW k \in Controllers, Operate(k) \/ OperateFails(k)
    PROVE  Shows'
<1> DEFINE w == cb[k].w
<1>1. /\ cb[k] # None /\ cb[k].left = << >> /\ poll = None /\ poll' = None
      /\ cb' = [cb EXCEPT ![k] = None]
      /\ chars' = chars /\ overlap' = overlap
    BY DEF Operate, OperateFails
<1>2. ~wrong' => ~wrong /\ dev' = Applied(w, dev)
    BY DEF Operate, OperateFails
<1>3. Callbacks' = Callbacks \ {k} /\ k \in Callbacks
    BY <1>1, CallbacksIs DEF Callbacks
<1>4. \A j \in Controllers : cb'[j] # None => j # k /\ cb'[j] = cb[j]
    BY <1>1 DEF TypeOK
<1>5. w \in RemoteWrites
    BY <1>1 DEF TypeOK, Callback
<1> HIDE DEF w
<1>6. OwnSets'
    BY <1>4 DEF Shows, OwnSets
<1>7. ~overlap => Callbacks' = {}
    BY <1>3 DEF Shows, OneActor
<1>8. OneActor' /\ AlonePolls' /\ Synced' /\ SeenIsDevice' /\ HalfSet' /\ Ahead'
    BY <1>1, <1>7 DEF OneActor, AlonePolls, Synced, SeenIsDevice, HalfSet, Ahead
<1>9. ASSUME ~overlap
      PROVE  /\ \A c \in Pair(w) : chars[c] = Target(w, c)
             /\ "supply" \notin Pair(w) => chars["supply"] + chars["extract"] <= 1
             /\ "night" \notin Pair(w) => chars["night"] + chars["turbo"] <= 1
    <2>1. Len(cb[k].left) = 0
        BY <1>1
    <2> QED  BY <1>3, <1>9, <2>1 DEF Shows, HalfSet, w
<1>10. ~overlap => Exclusive'
    <2>1. /\ Target(w, "supply") + Target(w, "extract") <= 1
          /\ Target(w, "night") + Target(w, "turbo") <= 1
        BY DEF Target, Bit
    <2> QED  BY <1>1, <1>9, <2>1, PairIs DEF Exclusive
<1>11. ASSUME ~overlap, ~wrong'
       PROVE  /\ \A c \in Followed : chars'[c] = Shown(dev')[c]
              /\ dev'.timer # "off" => chars'[dev'.timer] = 1
    <2> DEFINE d == Applied(w, dev)
    <2>1. dev' = d /\ ~wrong
        BY <1>2, <1>11
    <2>2. /\ \A c \in Followed \ Pair(w) : chars[c] = Shown(d)[c]
          /\ d.timer # "off" /\ d.timer \notin Pair(w) => chars[d.timer] = 1
        BY <1>3, <1>11, <2>1 DEF Shows, Ahead, w
    <2>3. d \in Device
        BY <2>1 DEF TypeOK
    <2>4. /\ \A c \in {"supply", "extract"} \cap Pair(w) : Target(w, c) = Shown(d)[c]
          /\ d.timer # "off" /\ d.timer \in Pair(w) => Target(w, d.timer) = 1
        BY <1>5, TargetIs DEF TypeOK
    <2> HIDE DEF d
    <2>5. ASSUME NEW c \in Followed PROVE chars[c] = Shown(d)[c]
        <3>1. CASE c \in Pair(w)
            <4>1. c \in {"supply", "extract"}
                BY <3>1, PairIs DEF Followed
            <4> QED  BY <1>9, <1>11, <2>4, <3>1, <4>1
        <3> QED  BY <2>2, <3>1
    <2>6. d.timer # "off" => chars[d.timer] = 1
        BY <1>9, <1>11, <2>2, <2>4
    <2> QED  BY <1>1, <2>1, <2>5, <2>6
<1>12. ExclusiveUnlessOverlapped'
    BY <1>1, <1>10 DEF ExclusiveUnlessOverlapped
<1>13. AloneFollows'
    BY <1>1, <1>11 DEF AloneFollows, Followed
<1> QED  BY <1>6, <1>8, <1>12, <1>13 DEF Shows

\* A tick has everything to set, and has read the device as it is.
LEMMA PollReadsShows ==
    ASSUME TypeOK, TypeOK', Shows, PollReads
    PROVE  Shows'
<1>1. poll = None /\ UNCHANGED <<dev, chars, cb, wrong>>
    BY DEF PollReads
<1>2. Callbacks' = Callbacks /\ \A k \in Controllers : cb'[k] = cb[k]
    BY <1>1 DEF Callbacks
<1>3. poll'.seen = dev /\ poll'.left = SyncOrder /\ poll'.alone = (Callbacks = {})
    BY DEF PollReads
<1>4. ~overlap' => ~overlap /\ Callbacks = {}
    BY DEF PollReads
<1>5. poll' # None
    <2>1. SyncOrder \in Seq(Names)
        BY DEF SyncOrder, Names, Switches
    <2>2. poll' \in Poll
        BY <2>1 DEF PollReads, Poll, TypeOK
    <2> QED  BY <2>2, NoneAssumption
<1>6. OwnSets'
    BY <1>1 DEF Shows, OwnSets
<1>7. OneActor'
    BY <1>2, <1>4 DEF OneActor
<1>8. AlonePolls' /\ SeenIsDevice'
    BY <1>1, <1>2, <1>3 DEF AlonePolls, SeenIsDevice
<1>9. Synced'
    <2>1. \A c \in Names : \E i \in 1 .. Len(SyncOrder) : SyncOrder[i] = c
        <3>1. /\ Len(SyncOrder) = 9
              /\ SyncOrder[1] = "active" /\ SyncOrder[2] = "speed" /\ SyncOrder[3] = "auto"
              /\ SyncOrder[4] = "supply" /\ SyncOrder[5] = "extract" /\ SyncOrder[6] = "heater"
              /\ SyncOrder[7] = "night" /\ SyncOrder[8] = "turbo" /\ SyncOrder[9] = "change"
            BY DEF SyncOrder
        <3>2. 1 .. 9 = {1, 2, 3, 4, 5, 6, 7, 8, 9}
            OBVIOUS
        <3> QED  BY <3>1, <3>2 DEF Names, Switches
    <2> QED  BY <1>3, <2>1 DEF Synced
<1>10. HalfSet' /\ Ahead'
    BY <1>1, <1>2, <1>4 DEF HalfSet, Ahead
<1>11. ExclusiveUnlessOverlapped' /\ AloneFollows'
    BY <1>5 DEF ExclusiveUnlessOverlapped, AloneFollows, Resting
<1> QED  BY <1>6, <1>7, <1>8, <1>9, <1>10, <1>11 DEF Shows

\* A Sync that has been alone, or that has met nothing since the last one that
\* was, ends with the accessory showing what it read.
LEMMA SyncSetsShows ==
    ASSUME TypeOK, TypeOK', PollRuns, Shows, SyncSets
    PROVE  Shows'
<1> DEFINE q == poll.left  c0 == Head(q)  d == poll.seen
<1>1. /\ poll # None /\ UNCHANGED <<dev, cb>>
      /\ chars' = [chars EXCEPT ![c0] = Shown(d)[c0]]
    BY DEF SyncSets
<1>2. /\ poll \in Poll /\ c0 = q[1] /\ c0 \in Names
      /\ Len(q) > 0 /\ Len(q) \in Nat /\ Len(Tail(q)) = Len(q) - 1
      /\ \A i \in 1 .. Len(q) - 1 : Tail(q)[i] = q[i + 1]
    BY <1>1, SyncHead
<1>3. d \in Device
    BY <1>2 DEF Poll
<1>4. Callbacks' = Callbacks /\ \A k \in Controllers : cb'[k] = cb[k]
    BY <1>1 DEF Callbacks
<1>5. OwnSets'
    BY <1>1 DEF Shows, OwnSets
<1>6. poll.alone \/ ~overlap =>
         /\ Callbacks = {}
         /\ \A c \in Names : \/ \E i \in 1 .. Len(q) : q[i] = c
                             \/ chars[c] = Shown(d)[c]
    BY <1>1 DEF Shows, AlonePolls, OneActor, Synced
<1>7. /\ poll.alone => d = dev
      /\ ~overlap /\ ~wrong => d = dev
    BY <1>1 DEF Shows, AlonePolls, SeenIsDevice
<1>8. CASE Len(q) > 1
    <2>1. poll' = [poll EXCEPT !.left = Tail(@)] /\ UNCHANGED <<overlap, wrong>>
        BY <1>8 DEF SyncSets
    <2>2. poll'.left = Tail(q) /\ poll'.seen = d /\ poll'.alone = poll.alone /\ poll' # None
        <3>1. poll'.left = Tail(q) /\ poll'.seen = d /\ poll'.alone = poll.alone
            BY <1>2, <2>1 DEF Poll
        <3>2. poll' \in Poll
            BY <1>1, <1>2, <2>1, SyncHead DEF Poll
        <3> QED  BY <3>1, <3>2, NoneAssumption
    <2> HIDE DEF q, c0, d
    <2>3. poll.alone \/ ~overlap => Callbacks' = {}
        BY <1>4, <1>6
    <2>4. OneActor' /\ HalfSet' /\ Ahead'
        BY <2>1, <2>3 DEF OneActor, HalfSet, Ahead
    <2>5. AlonePolls' /\ SeenIsDevice'
        BY <1>1, <1>7, <2>1, <2>2, <2>3 DEF AlonePolls, SeenIsDevice
    <2>6. Synced'
        <3> SUFFICES ASSUME poll.alone \/ ~overlap, NEW c \in Names
                     PROVE  \/ \E i \in 1 .. Len(Tail(q)) : Tail(q)[i] = c
                            \/ chars'[c] = Shown(d)[c]
            BY <2>1, <2>2 DEF Synced
        <3>1. CASE c = c0
            BY <1>1, <1>2, <3>1 DEF TypeOK
        <3>2. CASE c # c0 /\ chars[c] = Shown(d)[c]
            BY <1>1, <3>2 DEF TypeOK
        <3>3. ASSUME c # c0, NEW i \in 1 .. Len(q), q[i] = c
              PROVE  \E n \in 1 .. Len(Tail(q)) : Tail(q)[n] = c
            <4>1. i # 1
                BY <1>2, <3>3
            <4>2. i - 1 \in 1 .. Len(q) - 1 /\ (i - 1) + 1 = i
                BY <1>2, <4>1
            <4>3. Tail(q)[i - 1] = q[i]
                BY <1>2, <4>2
            <4> QED  BY <1>2, <3>3, <4>2, <4>3
        <3> QED  BY <1>6, <3>1, <3>2, <3>3
    <2>7. ExclusiveUnlessOverlapped' /\ AloneFollows'
        BY <2>2 DEF ExclusiveUnlessOverlapped, AloneFollows, Resting
    <2> QED  BY <1>5, <2>4, <2>5, <2>6, <2>7 DEF Shows
<1>9. CASE ~(Len(q) > 1)
    <2> DEFINE alone == poll.alone /\ Callbacks = {} /\ poll.seen = dev
    <2>1. poll' = None /\ overlap' = (overlap /\ ~alone) /\ wrong' = (wrong /\ ~alone)
        BY <1>9 DEF SyncSets
    <2>2. ~overlap' => poll.alone \/ ~overlap
        BY <2>1
    <2>3. ~overlap' /\ ~wrong' => d = dev
        BY <1>7, <2>1
    <2> HIDE DEF q, c0, d
    <2>4. ASSUME ~overlap' PROVE \A c \in Names : chars'[c] = Shown(d)[c]
        <3> SUFFICES ASSUME NEW c \in Names PROVE chars'[c] = Shown(d)[c]
            OBVIOUS
        <3>1. \A i \in 1 .. Len(q) : q[i] = c0
            BY <1>2, <1>9
        <3>2. c = c0 \/ chars[c] = Shown(d)[c]
            BY <1>6, <2>2, <2>4, <3>1
        <3> QED  BY <1>1, <1>2, <3>2 DEF TypeOK
    <2>5. ~overlap' => Callbacks' = {}
        BY <1>4, <1>6, <2>2
    <2>6. OneActor' /\ AlonePolls' /\ Synced' /\ SeenIsDevice' /\ HalfSet' /\ Ahead'
        BY <2>1, <2>5 DEF OneActor, AlonePolls, Synced, SeenIsDevice, HalfSet, Ahead
    <2>7. ~overlap' => Exclusive'
        BY <1>3, <2>4, ShownType, NamesAre DEF Exclusive
    <2>8. ASSUME ~overlap', ~wrong'
          PROVE  /\ \A c \in Followed : chars'[c] = Shown(dev')[c]
                 /\ dev'.timer # "off" => chars'[dev'.timer] = 1
        <3>1. d = dev /\ dev' = dev
            BY <1>1, <2>3, <2>8
        <3>2. \A c \in Names : chars'[c] = Shown(dev)[c]
            BY <2>4, <2>8, <3>1
        <3>3. dev.timer \in {"off", "night", "turbo"}
            BY DEF TypeOK, Device
        <3>4. dev.timer # "off" => Shown(dev)[dev.timer] = 1
            BY <3>3, ShownIs DEF Bit
        <3>5. dev.timer # "off" => chars'[dev.timer] = 1
            BY <3>2, <3>3, <3>4, NamesAre
        <3> QED  BY <3>1, <3>2, <3>5, NamesAre
    <2>9. ExclusiveUnlessOverlapped'
        BY <2>7 DEF ExclusiveUnlessOverlapped
    <2>10. AloneFollows'
        BY <2>8 DEF AloneFollows, Followed
    <2> QED  BY <1>5, <2>6, <2>9, <2>10 DEF Shows
<1> QED  BY <1>8, <1>9

\* A change of the device by others is what AloneFollows excepts.
LEMMA ChangeShows ==
    ASSUME TypeOK, TypeOK', Shows, NEW d \in Changes, Change(d)
    PROVE  Shows'
<1>1. wrong' /\ poll' = Disturbed /\ UNCHANGED <<chars, cb, overlap>>
    BY DEF Change
<1>2. Callbacks' = Callbacks /\ \A k \in Controllers : cb'[k] = cb[k]
    BY <1>1 DEF Callbacks
<1>3. /\ (poll' = None) <=> (poll = None)
      /\ poll # None => poll'.left = poll.left /\ poll'.seen = poll.seen /\ ~poll'.alone
    BY <1>1, DisturbedType DEF TypeOK
<1>4. OwnSets' /\ OneActor'
    BY <1>1, <1>2, <1>3 DEF Shows, OwnSets, OneActor
<1>5. AlonePolls' /\ SeenIsDevice' /\ Ahead' /\ AloneFollows'
    BY <1>1, <1>3 DEF AlonePolls, SeenIsDevice, Ahead, AloneFollows
<1>6. Synced'
    BY <1>1, <1>3 DEF Shows, Synced
<1>7. HalfSet'
    BY <1>1, <1>2 DEF Shows, HalfSet
<1>8. ExclusiveUnlessOverlapped'
    BY <1>1, <1>2, <1>3 DEF Shows, ExclusiveUnlessOverlapped, Resting, Exclusive
<1> QED  BY <1>4, <1>5, <1>6, <1>7, <1>8 DEF Shows

LEMMA StutterShows ==
    ASSUME Shows, UNCHANGED vars
    PROVE  Shows'
<1>1. UNCHANGED <<dev, chars, cb, poll, overlap, wrong>>
    BY DEF vars
<1>2. Callbacks' = Callbacks
    BY <1>1 DEF Callbacks
<1>3. OwnSets' /\ OneActor' /\ AlonePolls' /\ SeenIsDevice'
    BY <1>1, <1>2 DEF Shows, OwnSets, OneActor, AlonePolls, SeenIsDevice
<1>4. Synced' /\ HalfSet' /\ Ahead'
    BY <1>1, <1>2 DEF Shows, Synced, HalfSet, Ahead
<1>5. ExclusiveUnlessOverlapped' /\ AloneFollows'
    BY <1>1, <1>2 DEF Shows, ExclusiveUnlessOverlapped, AloneFollows, Resting, Exclusive
<1> QED  BY <1>3, <1>4, <1>5 DEF Shows

LEMMA HIInductive == HIInv /\ [Next]_vars => HIInv'
<1> SUFFICES ASSUME HIInv, [Next]_vars PROVE HIInv'
    OBVIOUS
<1>1. TypeOK /\ PollRuns /\ Shows /\ TypeOK' /\ PollRuns'
    BY TypesNext DEF HIInv
<1>2. CASE PollReads
    BY <1>1, <1>2, PollReadsShows DEF HIInv
<1>3. CASE SyncSets
    BY <1>1, <1>3, SyncSetsShows DEF HIInv
<1>4. ASSUME NEW d \in Changes, Change(d) PROVE HIInv'
    BY <1>1, <1>4, ChangeShows DEF HIInv
<1>5. ASSUME NEW k \in Controllers, CallbackStep(k) PROVE HIInv'
    <2>1. CASE SetValue(k)
        BY <1>1, <2>1, SetValueShows DEF HIInv
    <2>2. CASE Operate(k) \/ OperateFails(k)
        BY <1>1, <2>2, OperateShows DEF HIInv
    <2> QED  BY <1>5, <2>1, <2>2 DEF CallbackStep
<1>6. ASSUME NEW k \in Controllers, NEW w \in RemoteWrites, RemoteWrite(k, w)
      PROVE  HIInv'
    BY <1>1, <1>6, RemoteWriteShows DEF HIInv
<1>7. CASE UNCHANGED vars
    BY <1>1, <1>7, StutterShows DEF HIInv
<1> QED  BY <1>2, <1>3, <1>4, <1>5, <1>6, <1>7 DEF Next

LEMMA HIHolds == Spec => []HIInv
<1>1. Init => HIInv
    BY TypesInit, ShowsInit DEF HIInv
<1> QED  BY <1>1, HIInductive, PTL DEF Spec

-----------------------------------------------------------------------------
(* The theorems.                                                           *)

\* The accessory, the device, the callbacks and the tick stay within their
\* types: every switch is 0 or 1, and no callback or Sync is left with a write
\* it cannot make (homekit.go:253-385, sync.go:19-107).
THEOREM AccessoryTypes == Spec => []TypeOK
<1>1. HIInv => TypeOK
    BY DEF HIInv
<1> QED  BY <1>1, HIHolds, PTL

\* At rest at most one switch of each pair is on, whatever fails and whatever
\* else changes the device, unless callbacks or Syncs overlapped since a Sync
\* last ran alone (switchTimer and switchAirflow, homekit.go:348-385).
THEOREM SwitchesExclusive == Spec => []ExclusiveUnlessOverlapped
<1>1. HIInv => ExclusiveUnlessOverlapped
    BY DEF HIInv, Shows
<1> QED  BY <1>1, HIHolds, PTL

\* At rest, with nothing overlapping, failing or changing behind its back, the
\* accessory shows the device's power, airflow and heater as they are, and
\* every timer that runs (homekit.go:253-385, sync.go:19-107).
THEOREM AccessoryFollows == Spec => []AloneFollows
<1>1. HIInv => AloneFollows
    BY DEF HIInv, Shows
<1> QED  BY <1>1, HIHolds, PTL
=============================================================================
