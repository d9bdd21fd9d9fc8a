---------------------------- MODULE MCShareLock ----------------------------
(* ShareLock for TLC: a room of a host and two panelists. *)
EXTENDS ShareLock

CONSTANTS h1, p1, p2

OneHost == {h1}
HostAndPanelists == {h1, p1, p2}
=============================================================================
