--------------------------- MODULE MCDaemonSocket ---------------------------
(***************************************************************************)
(* Instances of DaemonSocket for TLC.                                      *)
(***************************************************************************)
EXTENDS DaemonSocket, TLC

CONSTANTS d1, d2, d3, s1, s2, s3, s4, f1

Symmetry == Permutations(Daemons) \cup Permutations(Sockets)

=============================================================================
