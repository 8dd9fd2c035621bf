-------------------------- MODULE SignalForwarder --------------------------
(***************************************************************************)
(* One call of run_program (src/src/runner.rs) with its SignalForwarder:   *)
(* the calling thread, the forwarding thread, the Codex child with its     *)
(* process id, and the signals that reach codex-vault at any moment.       *)
(*                                                                         *)
(* The signal-hook crate keeps one flag for each signal and a pipe that    *)
(* wakes the iterator; both are modelled from how runner.rs uses them.     *)
(***************************************************************************)
CONSTANTS
    Signals,    \* SIGINT, SIGTERM, SIGHUP
    None

ASSUME NoneAssumption == None \notin Signals

VARIABLES
    pc,         \* what run_program does next
    child,      \* the Codex process
    reused,     \* another process has got the child's id
    struck,     \* that process has been sent a signal
    installed,  \* the signals with a handler in place
    pending,    \* signals whose flag is set
    wake,       \* there is a byte in the pipe
    closed,     \* the handle has been closed
    thread,     \* what the forwarding thread does next
    todo,       \* the flags it has still to look at in this round
    taken,      \* the signal it is about to send on
    owed        \* signals that came in and were not sent on since

runner    == <<pc, child, reused, struck>>
delivery  == <<installed, pending, wake, closed, owed>>
forwarder == <<thread, todo, taken>>
vars      == <<runner, delivery, forwarder>>

TypeOK ==
    /\ pc \in {"launch", "register", "start", "wait", "stop", "wake", "join", "kill", "reap",
               "seal", "done", "dead"}
    /\ child \in {"none", "running", "dying", "zombie", "gone"}
    /\ reused \in BOOLEAN /\ struck \in BOOLEAN
    /\ installed \subseteq Signals /\ pending \subseteq installed
    /\ wake \in BOOLEAN /\ closed \in BOOLEAN
    /\ thread \in {"none", "check", "block", "scan", "send", "ended"}
    /\ todo \subseteq Signals /\ taken \in Signals \cup {None}
    /\ taken = None <=> thread # "send"
    /\ owed \subseteq installed
    /\ thread # "none" => installed = Signals

Init ==
    /\ pc = "launch" /\ child = "none" /\ reused = FALSE /\ struck = FALSE
    /\ installed = {} /\ pending = {} /\ wake = FALSE /\ closed = FALSE /\ owed = {}
    /\ thread = "none" /\ todo = {} /\ taken = None

Alive == pc \notin {"done", "dead"}

-----------------------------------------------------------------------------
(* run_program *)

\* The vault is unlocked; Codex is launched, or cannot be.
Launch ==
    /\ pc = "launch"
    /\ \/ pc' = "register" /\ child' = "running"
       \/ pc' = "seal" /\ child' = child
    /\ UNCHANGED <<reused, struck, delivery, forwarder>>

\* Signals::new puts one handler after the other in place; each may fail.
AllButOne == Signals \ {CHOOSE s \in Signals : TRUE}
Wanted    == Signals

Register ==
    /\ pc = "register" /\ installed # Wanted
    /\ \E s \in Wanted \ installed : installed' = installed \cup {s}
    /\ UNCHANGED <<runner, pending, wake, closed, owed, forwarder>>

Registered ==
    /\ pc = "register" /\ installed = Wanted /\ pc' = "start"
    /\ UNCHANGED <<child, reused, struck, delivery, forwarder>>

RegisterFails ==
    /\ pc = "register" /\ pc' = "kill"
    /\ UNCHANGED <<child, reused, struck, delivery, forwarder>>

\* The error path: Codex is killed, and waited for.
Kill ==
    /\ pc = "kill" /\ pc' = "reap"
    /\ child' = IF child = "running" THEN "dying" ELSE child
    /\ UNCHANGED <<reused, struck, delivery, forwarder>>

\* wait returns when the child has ended, and frees its process id.
TryWait    == TRUE
Exited     == child = "zombie"
AfterWait  == IF child = "zombie" THEN "gone" ELSE child

Reap ==
    /\ pc = "reap" /\ Exited /\ pc' = "seal" /\ child' = AfterWait
    /\ UNCHANGED <<reused, struck, delivery, forwarder>>

\* The forwarding thread is started; a panic takes run_program with it.
StartThread ==
    /\ pc = "start"
    /\ \/ pc' = "wait" /\ thread' = "check"
       \/ pc' = "dead" /\ thread' = thread
    /\ UNCHANGED <<child, reused, struck, delivery, todo, taken>>

Wait ==
    /\ pc = "wait" /\ Exited /\ pc' = "stop" /\ child' = AfterWait
    /\ UNCHANGED <<reused, struck, delivery, forwarder>>

\* handle.close: the flag first, then the pipe.
Close ==
    /\ pc = "stop" /\ closed' = TRUE /\ pc' = "wake"
    /\ UNCHANGED <<child, reused, struck, installed, pending, wake, owed, forwarder>>

NoWake  == wake
Woken   == TRUE
Wake ==
    /\ pc = "wake" /\ wake' = Woken /\ pc' = "join"
    /\ UNCHANGED <<child, reused, struck, installed, pending, closed, owed, forwarder>>

\* thread.join; with the iterator gone, the signals are still caught, and dropped.
ThreadDetached == TRUE
ThreadEnded    == thread = "ended"
Join ==
    /\ pc = "join" /\ ThreadEnded /\ pc' = "seal"
    /\ UNCHANGED <<child, reused, struck, delivery, forwarder>>

\* vault.close seals the session, and run_program returns.
Seal ==
    /\ pc = "seal" /\ pc' = "done"
    /\ UNCHANGED <<child, reused, struck, delivery, forwarder>>

RunnerStep ==
    \/ Launch \/ Register \/ Registered \/ RegisterFails \/ Kill \/ Reap
    \/ StartThread \/ Wait \/ Close \/ Wake \/ Join \/ Seal

-----------------------------------------------------------------------------
(* The forwarding thread *)

\* The iterator ends when it sees the handle closed; with the flags of a round
\* looked at, it asks the pipe for the next.
Check ==
    /\ thread = "check"
    /\ thread' = IF closed THEN "ended" ELSE IF todo # {} THEN "scan" ELSE "block"
    /\ UNCHANGED <<runner, delivery, todo, taken>>

Block ==
    /\ thread = "block" /\ wake
    /\ wake' = FALSE /\ todo' = Signals /\ thread' = "check"
    /\ UNCHANGED <<runner, installed, pending, closed, owed, taken>>

\* The next flag that is set; it is cleared in the same step.
Take ==
    /\ thread = "scan"
    /\ \E s \in todo \cap pending :
        /\ pending' = pending \ {s} /\ todo' = todo \ {s} /\ taken' = s
    /\ thread' = "send"
    /\ UNCHANGED <<runner, installed, wake, closed, owed>>

OneRound   == "ended"
AfterRound == "check"
EndRound ==
    /\ thread = "scan" /\ todo \cap pending = {}
    /\ todo' = {} /\ thread' = AfterRound
    /\ UNCHANGED <<runner, delivery, taken>>

\* kill: the child gets it, or whoever has its process id.
Forward ==
    /\ thread = "send"
    /\ struck' = (struck \/ (child = "gone" /\ reused))
    /\ owed' = owed \ {taken} /\ taken' = None /\ thread' = "check"
    /\ UNCHANGED <<pc, child, reused, installed, pending, wake, closed, todo>>

ThreadStep == pc # "dead" /\ (Check \/ Block \/ Take \/ EndRound \/ Forward)

-----------------------------------------------------------------------------
(* The rest of the machine *)

\* A signal for codex-vault: its handler sets the flag and wakes the iterator.
Caught(s) ==
    /\ Alive /\ s \in installed
    /\ pending' = pending \cup {s} /\ wake' = TRUE
    /\ owed' = owed \cup {s}
    /\ UNCHANGED <<runner, installed, closed, forwarder>>

\* Without a handler it ends codex-vault, with the session open.
Killed(s) ==
    /\ Alive /\ s \notin installed
    /\ pc' = "dead"
    /\ UNCHANGED <<child, reused, struck, delivery, forwarder>>

\* Codex ends, for a signal or of its own accord, or because it was killed.
End(state) ==
    /\ child = state /\ child' = "zombie"
    /\ UNCHANGED <<pc, reused, struck, delivery, forwarder>>
Exit == End("running")
Die  == End("dying")

\* The kernel gives the id of a reaped child to a new process.
Reuse ==
    /\ child = "gone" /\ ~reused /\ reused' = TRUE
    /\ UNCHANGED <<pc, child, struck, delivery, forwarder>>

Environment == Exit \/ Die \/ Reuse \/ \E s \in Signals : Caught(s) \/ Killed(s)

Next == RunnerStep \/ ThreadStep \/ Environment

Spec == Init /\ [][Next]_vars

\* Both threads go on, and a killed process ends.  Codex need not end.
Fairness == WF_vars(RunnerStep) /\ WF_vars(ThreadStep) /\ WF_vars(Die)

FairSpec == Spec /\ Fairness

-----------------------------------------------------------------------------
\* The session is never sealed while Codex may still write to it, on the error
\* path as little as on the other (run_program).
SealedAfterExit == pc \in {"seal", "done"} => child \in {"none", "gone"}

\* A process that is not Codex can be sent a signal only between the reaping of
\* the child and the end of stop, and never once stop has joined the thread.
StrangerSpared == [][struck' # struck => pc \in {"stop", "wake", "join"}]_vars

\* A signal that comes in while Codex runs is sent on, however early it came and
\* whatever the thread was about, unless Codex ends before.
Forwarded ==
    \A s \in Signals :
        (s \in owed /\ pc = "wait" /\ child = "running")
            ~> (s \notin owed \/ child # "running")

\* When Codex has ended, the session is sealed: no signal keeps run_program from
\* it any more, and stop never waits for a thread that sleeps on.
Seals ==
    /\ (pc = "wait" /\ child = "zombie") ~> pc = "done"
    /\ pc = "kill" ~> pc \in {"done", "dead"}
=============================================================================
