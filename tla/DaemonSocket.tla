---------------------------- MODULE DaemonSocket ----------------------------
(***************************************************************************)
(* The life cycle of codex-vaultd processes that share one socket path:    *)
(* serve_daemon and serve_daemon_once around bind_listener,                *)
(* remove_stale_socket and SocketGuard (src/src/daemon.rs).  What is said  *)
(* over a connection is another matter; here a daemon serves or it does    *)
(* not.                                                                    *)
(*                                                                         *)
(* Every system call on the path is a step of its own: the path may name   *)
(* another file at each of them.  Inodes are reused once neither the path  *)
(* nor an open socket refers to them.                                      *)
(***************************************************************************)
EXTENDS Naturals, FiniteSets

CONSTANTS
    Daemons,     \* slots for codex-vaultd processes
    Sockets,     \* inodes of socket files
    Foreign,     \* files that are no sockets (all are the user's own: the
                 \* directory is private)
    Supervised,  \* one start at a time, and nobody meddles during one
    Faults,      \* the faults of the environment an instance explores
    None

Files == Sockets \cup Foreign

\* The steps of bind_listener, those with an open socket, and of its return.
Unbound  == {"stat", "probe", "unlink", "bind"}
Binding  == {"listen", "record", "secure", "verify"}
Starting == Unbound \cup Binding
Guarded  == {"secure", "verify", "serve", "drop", "remove"}
Bound    == Binding \cup Guarded \cup {"discard", "close"}
Steps    == {"down"} \cup Unbound \cup Bound

ASSUME SupervisedAssumption == Supervised \in BOOLEAN
ASSUME FaultsAssumption     == Faults \subseteq {"crash", "io", "cleanup", "meddle"}
ASSUME FilesAssumption      == Sockets \cap Foreign = {} /\ None \notin Files

VARIABLES
    path,       \* the file the socket path names
    sock,       \* daemon -> inode its open socket is bound to
    listening,  \* daemons whose socket accepts connections
    guard,      \* daemon -> inode in its SocketGuard
    pc,         \* daemon -> next step
    displaced,  \* history: daemons whose socket somebody took from the path
    alone       \* history: starts that met no other daemon and no fault

process == <<sock, listening, guard, pc>>
history == <<displaced, alone>>
vars    == <<path, process, history>>

TypeOK ==
    /\ path      \in Files \cup {None}
    /\ sock      \in [Daemons -> Sockets \cup {None}]
    /\ listening \subseteq Daemons
    /\ guard     \in [Daemons -> Files \cup {None}]
    /\ pc        \in [Daemons -> Steps]
    /\ displaced \subseteq Daemons
    /\ alone     \subseteq Daemons

\* A socket file without a daemon may be left from an earlier crash.
Init ==
    /\ path      \in Files \cup {None}
    /\ sock      = [d \in Daemons |-> None]
    /\ listening = {}
    /\ guard     = [d \in Daemons |-> None]
    /\ pc        = [d \in Daemons |-> "down"]
    /\ displaced = {}
    /\ alone     = {}

-----------------------------------------------------------------------------
Goto(d, step) == pc' = [pc EXCEPT ![d] = step]

IoFault == "io" \in Faults

\* A fault of d, after which its start need not succeed: a call that fails on
\* the way to a daemon that serves, or one that only looks at and removes its file.
Faulted(d, fault) ==
    /\ fault \in Faults
    /\ alone' = alone \ {d}
    /\ UNCHANGED displaced

\* The process ends, or only its listener is dropped: the kernel closes the
\* socket and leaves the file.
Gone(d) ==
    /\ sock'      = [sock  EXCEPT ![d] = None]
    /\ guard'     = [guard EXCEPT ![d] = None]
    /\ listening' = listening \ {d}
    /\ displaced' = displaced \ {d}
    /\ Goto(d, "down")

(***************************************************************************)
(* remove_stale_socket: look at the path, try to connect, remove.          *)
(***************************************************************************)
Start(d) ==
    /\ pc[d] = "down"
    /\ Supervised => \A e \in Daemons : pc[e] \notin Starting
    /\ alone' = IF path \notin Foreign /\ \A e \in Daemons : pc[e] = "down"
                THEN {d} ELSE {}
    /\ Goto(d, "stat")
    /\ UNCHANGED <<path, sock, listening, guard, displaced>>

RemovableAnything == path # None
Removable == path \in Sockets

Stat(d) ==
    /\ pc[d] = "stat"
    /\ \/ path = None /\ Goto(d, "bind")
       \/ Removable   /\ Goto(d, "probe")
    /\ UNCHANGED <<path, sock, listening, guard, history>>

\* DaemonAlreadyRunning: the socket at the path answers.
AnySocketAnswers == path \in Sockets
NobodyAnswers == FALSE
SomebodyAnswers == \E e \in listening : sock[e] = path

\* No answer: nobody listens, or the path is gone by now (NotFound), or it
\* names a file that is no socket (also ECONNREFUSED).
Probe(d) ==
    /\ pc[d] = "probe"
    /\ ~SomebodyAnswers
    /\ Goto(d, "unlink")
    /\ UNCHANGED <<path, sock, listening, guard, history>>

Unlink(d) ==
    /\ pc[d] = "unlink"
    /\ path # None
    /\ path' = None
    /\ Goto(d, "bind")
    /\ UNCHANGED <<sock, listening, guard, history>>

\* The start is refused for what is, or is not, at the path.
Refused(d) ==
    /\ \/ pc[d] = "stat"   /\ path # None /\ ~Removable
       \/ pc[d] = "probe"  /\ SomebodyAnswers
       \/ pc[d] = "unlink" /\ path = None
       \/ pc[d] = "bind"   /\ path # None
    /\ Gone(d)
    /\ UNCHANGED <<path, alone>>

StartFails(d) ==
    /\ IoFault
    /\ pc[d] \in Unbound
    /\ Gone(d)
    /\ alone' = alone \ {d}
    /\ UNCHANGED path

(***************************************************************************)
(* The rest of bind_listener.  UnixListener::bind is socket, bind, listen; *)
(* in between the new socket refuses connections.                          *)
(***************************************************************************)
Unused(inode) == \A e \in Daemons : sock[e] # inode

Bind(d) ==
    /\ pc[d] = "bind"
    /\ path = None
    /\ \E inode \in Sockets :
         /\ Unused(inode)
         /\ path' = inode
         /\ sock' = [sock EXCEPT ![d] = inode]
    /\ Goto(d, "listen")
    /\ UNCHANGED <<listening, guard, history>>

Listen(d) ==
    /\ pc[d] = "listen"
    /\ listening' = listening \cup {d}
    /\ Goto(d, "record")
    /\ UNCHANGED <<path, sock, guard, history>>

\* There is no guard yet, so the file stays.
ListenFails(d) ==
    /\ IoFault
    /\ pc[d] = "listen"
    /\ Gone(d)
    /\ alone' = alone \ {d}
    /\ UNCHANGED path

\* The guard takes the inode from the path, not from the socket.
Record(d) ==
    /\ pc[d] = "record"
    /\ path # None
    /\ guard' = [guard EXCEPT ![d] = path]
    /\ Goto(d, "secure")
    /\ UNCHANGED <<path, sock, listening, history>>

RecordFails(d) ==
    /\ pc[d] = "record"
    /\ \/ path = None /\ UNCHANGED history
       \/ Faulted(d, "io")
    /\ Goto(d, "discard")
    /\ UNCHANGED <<path, sock, listening, guard>>

Discard(d) ==
    /\ pc[d] = "discard"
    /\ \/ path' = None /\ UNCHANGED history
       \/ Faulted(d, "cleanup") /\ UNCHANGED path
    /\ Goto(d, "close")
    /\ UNCHANGED <<sock, listening, guard>>

\* set_permissions follows the path.
Secure(d) ==
    /\ pc[d] = "secure"
    /\ path # None
    /\ Goto(d, "verify")
    /\ UNCHANGED <<path, sock, listening, guard, history>>

\* The mode of another daemon's socket may be private by now or not.
Verify(d) ==
    /\ pc[d] = "verify"
    /\ path \in Sockets
    /\ Goto(d, "serve")
    /\ UNCHANGED <<path, sock, listening, guard, history>>

SecureFails(d) ==
    /\ \/ pc[d] = "secure" /\ path = None    /\ UNCHANGED history
       \/ pc[d] = "verify" /\ path # sock[d] /\ UNCHANGED history
       \/ pc[d] \in {"secure", "verify"} /\ Faulted(d, "io")
    /\ Goto(d, "drop")
    /\ UNCHANGED <<path, sock, listening, guard>>

(***************************************************************************)
(* The end: a signal, an error of accept, or the one request of            *)
(* serve_daemon_once.  The guard is dropped before the listener.           *)
(***************************************************************************)
StopAtOnce(d) ==
    /\ pc[d] = "serve"
    /\ Goto(d, "close")
    /\ UNCHANGED <<path, sock, listening, guard, history>>
StopClosingFirst(d) ==
    /\ pc[d] = "serve"
    /\ sock' = [sock EXCEPT ![d] = None]
    /\ listening' = listening \ {d}
    /\ Goto(d, "drop")
    /\ UNCHANGED <<path, guard, history>>
Stop(d) ==
    /\ pc[d] = "serve"
    /\ Goto(d, "drop")
    /\ UNCHANGED <<path, sock, listening, guard, history>>

GuardMatches(d) == path \in Sockets /\ path = guard[d]

DropGuard(d) ==
    /\ pc[d] = "drop"
    /\ \/ GuardMatches(d)  /\ Goto(d, "remove") /\ UNCHANGED history
       \/ ~GuardMatches(d) /\ Goto(d, "close") /\ UNCHANGED history
       \/ Faulted(d, "cleanup") /\ Goto(d, "close")
    /\ UNCHANGED <<path, sock, listening, guard>>

RemoveOwn(d) ==
    /\ pc[d] = "remove"
    /\ \/ path' = None /\ UNCHANGED history
       \/ Faulted(d, "cleanup") /\ UNCHANGED path
    /\ Goto(d, "close")
    /\ UNCHANGED <<sock, listening, guard>>

Close(d) ==
    /\ pc[d] = "close"
    /\ Gone(d)
    /\ UNCHANGED <<path, alone>>

-----------------------------------------------------------------------------
(***************************************************************************)
(* The environment: a daemon is killed; somebody removes, moves or         *)
(* replaces what is at the path (the test                                  *)
(* shutdown_does_not_remove_a_replacement_at_the_socket_path does).        *)
(***************************************************************************)
Crash(d) ==
    /\ "crash" \in Faults
    /\ pc[d] # "down"
    /\ Gone(d)
    /\ alone' = alone \ {d}
    /\ UNCHANGED path

Meddle ==
    /\ "meddle" \in Faults
    /\ Supervised => \A d \in Daemons : pc[d] \in {"down", "serve"}
    /\ path' \in (Foreign \cup {None}) \ {path}
    /\ displaced' = displaced \cup {d \in Daemons : path # None /\ sock[d] = path}
    /\ alone' = {}
    /\ UNCHANGED process

\* What a daemon does by itself; a stop needs a signal or a request.
Step(d) ==
    \/ Stat(d) \/ Probe(d) \/ Unlink(d) \/ Refused(d) \/ StartFails(d)
    \/ Bind(d) \/ Listen(d) \/ ListenFails(d) \/ Record(d) \/ RecordFails(d)
    \/ Discard(d) \/ Secure(d) \/ Verify(d) \/ SecureFails(d)
    \/ DropGuard(d) \/ RemoveOwn(d) \/ Close(d)

Next ==
    \/ \E d \in Daemons : Start(d) \/ Step(d) \/ Stop(d) \/ Crash(d)
    \/ Meddle

Spec     == Init /\ [][Next]_vars
FairSpec == Spec /\ \A d \in Daemons : WF_vars(Step(d))

-----------------------------------------------------------------------------
\* A daemon that serves can be reached through the path, unless somebody
\* moved its socket away: another daemon's remove_stale_socket, start or
\* shutdown never hides it.
Reachable ==
    \A d \in Daemons :
        pc[d] = "serve" => path = sock[d] \/ d \in displaced

\* No daemon takes the socket of another one that still runs off the path:
\* remove_stale_socket removes stale sockets only, and the guard only its own.
LiveSocketKept ==
    [][\A d \in Daemons :
         sock[d] # None /\ path = sock[d] /\ path' # path =>
             d \in displaced' \/ pc[d] # pc'[d]]_vars

\* A file that is no socket is not removed by any daemon, be it there before
\* a start or put there while the daemon serves.
ForeignFileKept ==
    [][(path \in Foreign /\ path' # path) => UNCHANGED process]_vars

\* A daemon that ends in an orderly way leaves no socket of its own behind,
\* whatever other daemons or people did to the path and whichever call of its
\* start failed, the removal itself excepted (SocketGuard::drop).
CleanExit ==
    [][\A d \in Daemons :
         pc[d] = "close" /\ pc'[d] = "down" => path' # sock[d]]_vars

\* A start that meets no other daemon and no fault comes to serve: a socket
\* left behind by a crash does not stand in its way (remove_stale_socket).
StaleRecovered ==
    \A d \in Daemons :
        pc[d] = "stat" /\ d \in alone ~> pc[d] = "serve" \/ d \notin alone

=============================================================================
