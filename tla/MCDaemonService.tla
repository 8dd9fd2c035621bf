-------------------------- MODULE MCDaemonService --------------------------
(* Instances of DaemonService for TLC. *)
EXTENDS DaemonService, TLC

CONSTANTS q1, q2, o1, o2

Sends(n, text) == [allowed |-> TRUE, length |-> n, body |-> text]

\* An empty frame, a short one, the longest one, one too long, text that is no
\* request, a request of another version, and a peer that is not allowed.
Awkward ==
    {Sends(0, "status"), Sends(1, "version"), Sends(MaxFrame, "status"),
     Sends(MaxFrame + 1, "status"), Sends(MaxFrame, "junk"),
     [Sends(1, "status") EXCEPT !.allowed = FALSE]}
=============================================================================
