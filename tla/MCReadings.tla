----------------------------- MODULE MCReadings -----------------------------
(***************************************************************************)
(* The parameters and the batches of defaultReadIDs (main.go:639-660), for *)
(* a unit in its everyday state and one that its remote control has put    *)
(* into turbo, without a VOC sensor and with a preset running.  Only the   *)
(* first one answers a probe with its id in the data too.                  *)
(***************************************************************************)
EXTENDS Readings

MCReadIDs == <<1, 2, 7, 11, 15, 17, 25, 26, 31, 32, 33, 34, 36, 37, 39,
               58, 59, 60, 61, 62, 63, 68, 74, 75, 99, 100, 104,
               126, 127, 129, 131, 132, 134, 136, 183, 185,
               297, 770, 771, 779, 789, 799, 800>>

MCDeviceID == [i \in 1 .. 16 |-> 65 + i]
MCWildcard == [i \in 1 .. 16 |-> 90]

Bytes1 == [p \in {1, 15, 17, 104, 789} |-> <<1>>]
            @@ [p \in {7, 129, 131, 136, 183, 779} |-> <<0>>]
            @@ [p \in {25, 37, 58, 59, 60, 61, 62, 63, 68, 297} |-> <<p % 256>>]
            @@ [p \in {2} |-> <<255>>]
Bytes2 == [p \in {26, 74, 75, 770, 771, 799} |-> <<30, 1>>]
            @@ [p \in {31, 32} |-> <<254, 255>>] @@ [p \in {33, 34} |-> <<253, 0>>]
            @@ [p \in {36} |-> <<252, 10>>] @@ [p \in {39, 800} |-> <<150, 2>>]
            @@ [p \in {99} |-> <<90, 0>>] @@ [p \in {185} |-> <<17, 0>>]
Bytes3 == [p \in {11} |-> <<1, 2, 3>>]
            @@ [p \in {100, 126} |-> <<59, 23, 44, 0>>]
            @@ [p \in {127} |-> <<252, 0, 253, 1>>]
            @@ [p \in {132} |-> <<0, 0, 0, 0, 0>>]
            @@ [p \in {134} |-> <<0, 11, 14, 3, 231, 7>>]
            @@ [p \in {124} |-> MCDeviceID]
Everyday == Bytes1 @@ Bytes2 @@ Bytes3
Turbo == [p \in DOMAIN Everyday |->
             CASE p \in {1} -> <<0>> [] p \in {2, 7} -> <<2>>
               [] p \in {131} -> <<1>> [] p \in {74} -> <<0, 0>>
               [] p \in {132} -> <<0, 1, 0, 0, 0>>
               [] p \in {124, 789, 799, 800} -> <<>> [] OTHER -> Everyday[p]]
MCUnits == {Everyday, Turbo}

MCOthers(p) == {<<>>} \cup
    CASE p \in DOMAIN Bytes1 -> {<<0>>, <<1>>, <<2>>, <<3>>, <<254>>}
      [] p \in {99} -> {<<0, 0>>, <<1, 0, 0>>}
      [] p \in DOMAIN Bytes2 \ {99} -> {<<0, 0>>, <<0, 128>>, <<255, 127>>, <<16, 39>>,
                                       <<232, 3>>, <<12, 254>>}
      [] p \in {132} -> {<<1, 0, 0, 0, 0>>, <<0, 1, 0, 0, 0>>, <<0, 0, 0, 0, 1>>,
                         <<0, 0, 1, 0, 0>>, <<1, 1>>}
      [] p \in {124} -> {MCDeviceID}
      [] OTHER -> {<<0, 0, 0, 0>>, <<254, 253>>}

\* The last packet is one only the command-line client can send.
MCWrites == {<<[id |-> 111, raw |-> Encode("time_of_day", <<23, 59, 58>>)],
               [id |-> 112, raw |-> Encode("date", <<31, 5, 12, 26>>)]>>,
             <<[id |-> 799, raw |-> Encode("uint16", <<252>>)],
               [id |-> 26, raw |-> Encode("uint16", <<65023>>)]>>,
             <<[id |-> 68, raw |-> <<255>>], [id |-> 2, raw |-> <<255>>]>>,
             <<[id |-> 799, raw |-> <<>>], [id |-> 17, raw |-> <<1>>]>>}

MCFanWrites == {2, 7, 68, 183} \cup 58 .. 63
MCFanReads == {74, 75, 132}

MCPassword == <<49, 49, 49, 49>>
=============================================================================
