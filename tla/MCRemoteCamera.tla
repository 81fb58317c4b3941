--------------------------- MODULE MCRemoteCamera ---------------------------
(***************************************************************************)
(* A few kinds of request stand for all those that are handled alike.  The *)
(* first request concerns c1: the cameras are alike.                       *)
(***************************************************************************)
EXTENDS RemoteCamera

CONSTANTS c1, c2

Kinds == {"enumerate", "set_calib_config", "send_hwm_command", "send_hw_reset",
          "undeclared", "untyped", "bad_index", "malformed", "frame", "calibrate", "abort"}
Asks(kinds, cameras) == [kind : kinds, camera : cameras]

MCScripts ==
  {<<first, second>> : first \in Asks(Kinds, {c1}), second \in Asks(Kinds, {c1, c2})}
    \union {<<first, second, third>> :
              first \in Asks({"calibrate"}, {c1}),
              second \in Asks({"calibrate"}, {c1, c2}),
              third \in Asks({"abort"}, {c1})}
    \union {<<first, second>> : first, second \in Asks({"frame"}, {c2})}
=============================================================================
