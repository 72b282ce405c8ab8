------------------------------ MODULE MCDaemon ------------------------------
(***************************************************************************)
(* Two devices, the second of which may be added later, and configurations *)
(* with each kind of discovery, with an old address and with none.         *)
(***************************************************************************)
EXTENDS Daemon

File(ip, discovery, homekit) ==
    [ip |-> ip, discovery |-> discovery, homekit |-> homekit,
     passwords |-> TRUE, readable |-> FALSE, malformed |-> FALSE]

MCDefault == [File(<<>>, "on-start", FALSE) EXCEPT !.passwords = FALSE,
                                                   !.readable = FALSE]
MCConfigs == {File(<<"a">>, "periodic", TRUE),
              File(<<"b", None>>, "on-start", TRUE),
              File(<<None, "b">>, "periodic", TRUE),
              [File(<<"a">>, "off", FALSE) EXCEPT !.readable = TRUE],
              File(<<"a", "b">>, "off", FALSE)}
=============================================================================
