------------------------------- MODULE Codec -------------------------------
(***************************************************************************)
(* The datagrams of the FDFD/02 protocol, byte by byte: the frame          *)
(* (pkg/breezy/frame.go), its DATA block with page switches and explicit   *)
(* sizes, the bytes of a value by its type (params.go), and the unit's     *)
(* side as the fake device plays it (fakedevice/fake.go).                  *)
(*                                                                         *)
(* A parameter id is a number of 16 bits, a byte string a sequence of      *)
(* numbers of 8 bits.  A builder's page register is always the high byte   *)
(* of the id before, 0 at the start.                                       *)
(***************************************************************************)
EXTENDS Integers, Sequences, SequencesExt

\* One function over another: of what both are defined for, the first's.
f ++ g == [x \in DOMAIN f \cup DOMAIN g |-> IF x \in DOMAIN f THEN f[x] ELSE g[x]]

Byte == 0 .. 255
HiByte(id) == id \div 256
LoByte(id) == id % 256
LE16(n) == <<n % 256, n \div 256>>
Num16(raw) == raw[1] + 256 * raw[2]
Signed(n) == IF n < 32768 THEN n ELSE n - 65536

FuncRead == 1
FuncWriteWithReply == 3
FuncResponse == 6
FuncAuthFailure == 7

\* The bytes that mean something else than a parameter: FC to FF.
isReservedLowByte(lo) == lo >= 252

\* The ids the builders take, and the bytes of a value: they panic on others.
Ids == {id \in 0 .. 65535 : ~isReservedLowByte(LoByte(id))}
Bytes == {raw \in Seq(Byte) : Len(raw) <= 255}

-----------------------------------------------------------------------------
(* DATA blocks.                                                            *)

\* Defect: a page switch is emitted only away from page 0.
PagesForward(ids, pieces) ==
    LET page(i) == IF i = 0 THEN 0 ELSE HiByte(ids[i])
        upto[i \in 0 .. Len(ids)] ==
            IF i = 0 THEN <<>>
            ELSE upto[i - 1] \o (IF page(i) \in {0, page(i - 1)} THEN <<>>
                                 ELSE <<255, page(i)>>) \o pieces[i]
    IN upto[Len(ids)]

\* The pieces of the block, each after the page switch its id needs.
Pages(ids, pieces) ==
    LET page(i) == IF i = 0 THEN 0 ELSE HiByte(ids[i])
        upto[i \in 0 .. Len(ids)] ==
            IF i = 0 THEN <<>>
            ELSE upto[i - 1] \o (IF page(i) = page(i - 1) THEN <<>>
                                 ELSE <<255, page(i)>>) \o pieces[i]
    IN upto[Len(ids)]

BuildReadDataBlock(ids) == Pages(ids, [i \in DOMAIN ids |-> <<LoByte(ids[i])>>])

\* One byte follows its id, more come after FE and their number.  An empty
\* value is skipped, its page switch is not.
Sized(id, raw) == IF Len(raw) = 1 THEN <<LoByte(id)>> \o raw
                  ELSE <<254, Len(raw), LoByte(id)>> \o raw

BuildWriteDataBlock(writes) ==
    Pages([i \in DOMAIN writes |-> writes[i].id],
          [i \in DOMAIN writes |-> IF writes[i].raw = <<>> THEN <<>>
                                   ELSE Sized(writes[i].id, writes[i].raw)])

\* What the unit answers for the ids: FD for a parameter it does not have or
\* has no value of.
buildResponseDataBlock(unit, ids) ==
    Pages(ids, [i \in DOMAIN ids |->
        IF ids[i] \in DOMAIN unit /\ unit[ids[i]] # <<>>
        THEN Sized(ids[i], unit[ids[i]]) ELSE <<253, LoByte(ids[i])>>])

\* The unit's reading of a request: ids, page switches, and FC skipped with
\* the byte after it.
parseReadDataBlock(data) ==
    LET from[i \in 1 .. Len(data) + 1] == [hi \in Byte |->
            IF i > Len(data) THEN <<>>
            ELSE IF data[i] \notin {252, 255}
                 THEN <<256 * hi + data[i]>> \o from[i + 1][hi]
            ELSE IF i = Len(data) THEN <<>>
            ELSE from[i + 2][IF data[i] = 255 THEN data[i + 1] ELSE hi]]
    IN from[1][0]

\* An entry of a block: its value, or that the unit does not support it.
Entry(id, raw, unsupported) == [id |-> id, raw |-> raw,
                                unsupported |-> unsupported]

\* The entries of a block.  A block cut short is refused, and one that goes
\* on with another function (FC) too.
ParseDataBlock(data) ==
    LET refused == [ok |-> FALSE, entries |-> <<>>]
        then(e, rest) == IF rest.ok THEN [rest EXCEPT !.entries = <<e>> \o @]
                         ELSE refused
        from[i \in 1 .. Len(data) + 1] == [hi \in Byte |->
            LET id(lo) == 256 * hi + lo IN
            CASE i > Len(data) -> [ok |-> TRUE, entries |-> <<>>]
              [] i = Len(data) -> refused
              [] i < Len(data) /\ data[i] = 255 -> from[i + 2][data[i + 1]]
              [] i < Len(data) /\ data[i] = 253 ->
                   then(Entry(id(data[i + 1]), <<>>, TRUE), from[i + 2][hi])
              [] i < Len(data) /\ data[i] = 254 ->
                   IF i + 2 > Len(data) \/ i + 2 + data[i + 1] > Len(data)
                   THEN refused
                   ELSE then(Entry(id(data[i + 2]),
                                   SubSeq(data, i + 3, i + 2 + data[i + 1]),
                                   FALSE), from[i + 3 + data[i + 1]][hi])
              [] i < Len(data) /\ data[i] = 252 -> refused
              [] OTHER -> then(Entry(id(data[i]), <<data[i + 1]>>, FALSE),
                               from[i + 2][hi])]
    IN from[1][0]

\* The values of the parameters the entries have one for: the last one says.
Values(entries) ==
    LET own(p) == {i \in DOMAIN entries :
                     entries[i].id = p /\ ~entries[i].unsupported}
        had == {p \in {entries[i].id : i \in DOMAIN entries} : own(p) # {}}
    IN [p \in had |-> entries[Max(own(p))].raw]

-----------------------------------------------------------------------------
(* Frames.                                                                 *)

\* The sum of bytes that closes a frame, in 16 bits.
Checksum(bytes) ==
    LET sum[i \in 0 .. Len(bytes)] == IF i = 0 THEN 0
                                      ELSE (sum[i - 1] + bytes[i]) % 65536
    IN sum[Len(bytes)]

EncodeRequest(deviceID, password, function, data) ==
    LET body == <<2, 16>> \o deviceID \o <<Len(password)>> \o password
                  \o <<function>> \o data
    IN <<253, 253>> \o body \o LE16(Checksum(body))

\* What both decoders make of a datagram: the parts of a well-formed frame,
\* or nothing.
Frame(raw) ==
    LET fn == 22 + raw[21] IN
    IF \/ Len(raw) < 24
       \/ SubSeq(raw, 1, 4) # <<253, 253, 2, 16>>
       \/ raw[21] > 8
       \/ fn + 2 > Len(raw)
       \/ Checksum(SubSeq(raw, 3, Len(raw) - 2))
            # Num16(SubSeq(raw, Len(raw) - 1, Len(raw)))
    THEN <<>>
    ELSE <<[id |-> SubSeq(raw, 5, 20), password |-> SubSeq(raw, 22, fn - 1),
            function |-> raw[fn], data |-> SubSeq(raw, fn + 1, Len(raw) - 2)]>>

\* The strict decoder wants the id and the password of the request.
DecodeResponse(raw, deviceID, password) ==
    LET f == Head(Frame(raw)) IN
    IF Frame(raw) # <<>> /\ f.id = deviceID /\ f.password = password
    THEN Frame(raw) ELSE <<>>

\* The discovery decoder takes the id the frame carries.
DecodeDiscoveryResponse(raw) == Frame(raw)

\* Whom a datagram that answers the probe is from: the id in its data, or
\* else the one in its frame, if it is not the wildcard's echo.
parseDiscoveryResponse(raw, wildcard) ==
    LET f == Head(DecodeDiscoveryResponse(raw))
        parsed == ParseDataBlock(f.data)
        own == Values(parsed.entries)
        id == IF 124 \in DOMAIN own /\ own[124] # <<>> THEN own[124] ELSE f.id
    IN IF \/ DecodeDiscoveryResponse(raw) = <<>>
          \/ f.function = FuncAuthFailure
          \/ ~parsed.ok
          \/ id = wildcard
       THEN <<>> ELSE <<id>>

-----------------------------------------------------------------------------
(* Both ends of an exchange.                                               *)

\* The unit's answer to a read or a write that reached it.
Reply(unit, f, ids) ==
    EncodeRequest(f.id, f.password, FuncResponse,
                  buildResponseDataBlock(unit, ids))

\* ReadParams: the values of a reply it can parse, or nothing at all.
ReadParams(frames) ==
    LET parsed == ParseDataBlock(Head(frames).data) IN
    IF frames = <<>> \/ Head(frames).function = FuncAuthFailure \/ ~parsed.ok
    THEN <<>> ELSE <<Values(parsed.entries)>>

\* handleWrite: the unit takes every value of a block it can parse.
Taken(unit, data) == Values(ParseDataBlock(data).entries) ++ unit

-----------------------------------------------------------------------------
(* Values by type.  A decoded value is a tuple of numbers in the order of  *)
(* the fields of its Go type.                                              *)

Sizes == [uint8 |-> 1, uint16 |-> 2, int16 |-> 2, ipv4 |-> 4,
          time_of_day |-> 3, date |-> 4, duration |-> 2, remaining_time |-> 4]

\* Decode refuses a value of the wrong size; <<>> stands for its error.
Decode(type, raw) ==
    CASE Len(raw) # Sizes[type] -> <<>>
      [] Len(raw) = Sizes[type] /\ type = "uint16" -> <<Num16(raw)>>
      [] Len(raw) = Sizes[type] /\ type = "int16" -> <<Signed(Num16(raw))>>
      [] Len(raw) = Sizes[type] /\ type \in {"time_of_day", "duration"} ->
           Reverse(raw)
      [] Len(raw) = Sizes[type] /\ type = "remaining_time" ->
           <<Num16(Tail(Tail(raw))), raw[2], raw[1]>>
      [] OTHER -> raw

Encode(type, v) ==
    CASE type \in {"uint16", "int16"} -> LE16(v[1] % 65536)
      [] type \in {"time_of_day", "duration"} -> Reverse(v)
      [] type = "remaining_time" -> <<v[3], v[2]>> \o LE16(v[1])
      [] OTHER -> v
=============================================================================
