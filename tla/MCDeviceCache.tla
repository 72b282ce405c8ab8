--------------------------- MODULE MCDeviceCache ---------------------------
(***************************************************************************)
(* Three parameters: one that sets the fans, one that they disturb, and    *)
(* one that is neither; two packets to a tick, one while the fans settle.  *)
(***************************************************************************)
EXTENDS DeviceCache, TLC

CONSTANTS speed, rpm, filter, w1, w2

MCParams == {speed, rpm, filter}
MCReadIDs == <<speed, rpm, filter>>
MCOps == {<<{speed, filter}>>, <<{filter}, {speed}>>}
MCOneOp == {<<{speed}>>}
=============================================================================
