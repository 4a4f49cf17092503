----------------------------- MODULE MCCarMotion -----------------------------
(* Finite command sets for checking CarMotion.                             *)
EXTENDS CarMotion

Cmd(word, speed) == [word |-> word, speed |-> speed]

\* Manual driving: both directions, a turn, an ineffective speed, and text the
\* parser does not know, which is a stop.
ManualCommands ==
  {Cmd("forward", 35), Cmd("backward", 10), Cmd("left", 35), Cmd("other", 0)}

RouteCommands == {Cmd("auto_start", 0)}

MixedCommands == {Cmd("auto_start", 0), Cmd("stop", 0)}
=============================================================================
