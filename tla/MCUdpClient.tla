---------------------------- MODULE MCUdpClient ----------------------------
(***************************************************************************)
(* Two goroutines that share a client, one retry, two exchanges and two    *)
(* dials: the fewest in which a late reply meets a later exchange of the   *)
(* same socket, and one of the next socket.                                *)
(***************************************************************************)
EXTENDS UdpClient, TLC

CONSTANTS speed, power, k1, k2

Reads(ids) == [is |-> "read", ids |-> ids]
Writes(ids) == [is |-> "write", ids |-> ids]

MCRequests == {Writes({speed}), Reads({speed})}
MCWrites == {Writes({speed}), Writes({power})}

MCSymmetry == Permutations({k1, k2})
=============================================================================
