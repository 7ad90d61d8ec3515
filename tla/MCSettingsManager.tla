-------------------------- MODULE MCSettingsManager --------------------------
(* An instance of SettingsManager for TLC. *)
EXTENDS SettingsManager

CONSTANTS p1, p2, x, y
=============================================================================
