------------------------- MODULE MCSignalForwarder -------------------------
(* Instances of SignalForwarder for TLC. *)
EXTENDS SignalForwarder

CONSTANTS INT, TERM, HUP
=============================================================================
