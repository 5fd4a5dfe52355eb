--------------------------- MODULE MC_NetworkHub ---------------------------
(* Two nodes, one unit and one alert message, channels of two.           *)
EXTENDS NetworkHub, TLC

CONSTANTS n0, n1, u1, a1, a2

MCNodes == {n0, n1}
MCUnitMessages == {u1}
MCAlertMessages == {a1}
=============================================================================
