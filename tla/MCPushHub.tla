----------------------------- MODULE MCPushHub -----------------------------
(***************************************************************************)
(* Two devices, one page and one UI write handler; a queue of as many    *)
(* events as there are devices that tick.                                 *)
(***************************************************************************)
EXTENDS PushHub, TLC

CONSTANTS d1, d2, s1, h1
=============================================================================
