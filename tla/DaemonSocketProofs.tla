-------------------------- MODULE DaemonSocketProofs --------------------------
(***************************************************************************)
(* Theorems about DaemonSocket.  CleanExits and LoneStartsGoOn hold for    *)
(* daemons started in any way; the others need Supervised, since two       *)
(* starts at once can take each other's socket (LiveSocketKept is then     *)
(* violated).                                                              *)
(***************************************************************************)
EXTENDS DaemonSocket, TLAPS

\* A process has a socket from bind to close, and no two share an inode.
HoldsInv ==
    \A d \in Daemons :
        /\ (sock[d] # None) <=> (pc[d] \in Bound)
        /\ (d \in listening) <=> (pc[d] \in Bound \ {"listen"})
        /\ \A e \in Daemons \ {d} : sock[d] # None => sock[e] # sock[d]

TypeInv == TypeOK /\ HoldsInv

\* Where the path still names a daemon's socket its guard knows that inode.
CleanInv ==
    \A d \in Daemons :
        /\ pc[d] \in Guarded /\ path = sock[d] => guard[d] = sock[d]
        /\ pc[d] = "close" => path # sock[d]

\* From bind to the removal of the file the path names the daemon's socket,
\* or somebody took it away while it served.
Listed == Binding \cup {"discard", "serve", "drop", "remove"}

PathInv ==
    \A d \in Daemons :
        /\ \A e \in Daemons \ {d} : pc[d] \in Starting => pc[e] \notin Starting
        /\ pc[d] \in Listed => path = sock[d] \/ d \in displaced
        /\ d \in displaced => pc[d] \in {"serve", "drop", "close"} /\ path # sock[d]
        /\ pc[d] \in Guarded => guard[d] = sock[d]
        /\ pc[d] \in {"probe", "unlink"} => path \notin Foreign
        /\ pc[d] = "unlink" => \A e \in Daemons : sock[e] # None => path # sock[e]

USE FilesAssumption DEF Files, Goto, history, process

-----------------------------------------------------------------------------
LEMMA TypeStep ==
    ASSUME TypeInv, Next
    PROVE  TypeInv'
<1> USE DEF TypeInv, Steps, Bound, Guarded, Binding, Unbound
<1>1. ASSUME NEW d \in Daemons, Start(d) PROVE TypeInv'
  <2>1. TypeOK'
    BY <1>1 DEF Start, TypeOK
  <2>2. HoldsInv'
    BY <1>1 DEF Start, TypeOK, HoldsInv
  <2> QED BY <2>1, <2>2
<1>2. ASSUME NEW d \in Daemons, Stat(d) PROVE TypeInv'
  <2>1. TypeOK'
    BY <1>2 DEF Stat, Removable, TypeOK
  <2>2. HoldsInv'
    BY <1>2 DEF Stat, Removable, TypeOK, HoldsInv
  <2> QED BY <2>1, <2>2
<1>3. ASSUME NEW d \in Daemons, Probe(d) PROVE TypeInv'
  <2>1. TypeOK'
    BY <1>3 DEF Probe, SomebodyAnswers, TypeOK
  <2>2. HoldsInv'
    BY <1>3 DEF Probe, SomebodyAnswers, TypeOK, HoldsInv
  <2> QED BY <2>1, <2>2
<1>4. ASSUME NEW d \in Daemons, Unlink(d) PROVE TypeInv'
  <2>1. TypeOK'
    BY <1>4 DEF Unlink, TypeOK
  <2>2. HoldsInv'
    BY <1>4 DEF Unlink, TypeOK, HoldsInv
  <2> QED BY <2>1, <2>2
<1>5. ASSUME NEW d \in Daemons, Refused(d) PROVE TypeInv'
  <2>1. TypeOK'
    BY <1>5 DEF Refused, Gone, TypeOK
  <2>2. HoldsInv'
    BY <1>5 DEF Refused, Gone, TypeOK, HoldsInv
  <2> QED BY <2>1, <2>2
<1>6. ASSUME NEW d \in Daemons, StartFails(d) PROVE TypeInv'
  <2>1. TypeOK'
    BY <1>6 DEF StartFails, Gone, TypeOK
  <2>2. HoldsInv'
    BY <1>6 DEF StartFails, Gone, TypeOK, HoldsInv
  <2> QED BY <2>1, <2>2
<1>7. ASSUME NEW d \in Daemons, Bind(d) PROVE TypeInv'
  <2>1. TypeOK'
    BY <1>7 DEF Bind, Unused, TypeOK
  <2>2. HoldsInv'
    BY <1>7 DEF Bind, Unused, TypeOK, HoldsInv
  <2> QED BY <2>1, <2>2
<1>8. ASSUME NEW d \in Daemons, Listen(d) PROVE TypeInv'
  <2>1. TypeOK'
    BY <1>8 DEF Listen, TypeOK
  <2>2. HoldsInv'
    BY <1>8 DEF Listen, TypeOK, HoldsInv
  <2> QED BY <2>1, <2>2
<1>9. ASSUME NEW d \in Daemons, ListenFails(d) PROVE TypeInv'
  <2>1. TypeOK'
    BY <1>9 DEF ListenFails, Gone, TypeOK
  <2>2. HoldsInv'
    BY <1>9 DEF ListenFails, Gone, TypeOK, HoldsInv
  <2> QED BY <2>1, <2>2
<1>10. ASSUME NEW d \in Daemons, Record(d) PROVE TypeInv'
  <2>1. TypeOK'
    BY <1>10 DEF Record, TypeOK
  <2>2. HoldsInv'
    BY <1>10 DEF Record, TypeOK, HoldsInv
  <2> QED BY <2>1, <2>2
<1>11. ASSUME NEW d \in Daemons, RecordFails(d) PROVE TypeInv'
  <2>1. TypeOK'
    BY <1>11 DEF RecordFails, Faulted, TypeOK
  <2>2. HoldsInv'
    BY <1>11 DEF RecordFails, Faulted, TypeOK, HoldsInv
  <2> QED BY <2>1, <2>2
<1>12. ASSUME NEW d \in Daemons, Discard(d) PROVE TypeInv'
  <2>1. TypeOK'
    BY <1>12 DEF Discard, Faulted, TypeOK
  <2>2. HoldsInv'
    BY <1>12 DEF Discard, Faulted, TypeOK, HoldsInv
  <2> QED BY <2>1, <2>2
<1>13. ASSUME NEW d \in Daemons, Secure(d) PROVE TypeInv'
  <2>1. TypeOK'
    BY <1>13 DEF Secure, TypeOK
  <2>2. HoldsInv'
    BY <1>13 DEF Secure, TypeOK, HoldsInv
  <2> QED BY <2>1, <2>2
<1>14. ASSUME NEW d \in Daemons, Verify(d) PROVE TypeInv'
  <2>1. TypeOK'
    BY <1>14 DEF Verify, TypeOK
  <2>2. HoldsInv'
    BY <1>14 DEF Verify, TypeOK, HoldsInv
  <2> QED BY <2>1, <2>2
<1>15. ASSUME NEW d \in Daemons, SecureFails(d) PROVE TypeInv'
  <2>1. TypeOK'
    BY <1>15 DEF SecureFails, Faulted, TypeOK
  <2>2. HoldsInv'
    BY <1>15 DEF SecureFails, Faulted, TypeOK, HoldsInv
  <2> QED BY <2>1, <2>2
<1>16. ASSUME NEW d \in Daemons, DropGuard(d) PROVE TypeInv'
  <2>1. TypeOK'
    BY <1>16 DEF DropGuard, Faulted, GuardMatches, TypeOK
  <2>2. HoldsInv'
    BY <1>16 DEF DropGuard, Faulted, GuardMatches, TypeOK, HoldsInv
  <2> QED BY <2>1, <2>2
<1>17. ASSUME NEW d \in Daemons, RemoveOwn(d) PROVE TypeInv'
  <2>1. TypeOK'
    BY <1>17 DEF RemoveOwn, Faulted, TypeOK
  <2>2. HoldsInv'
    BY <1>17 DEF RemoveOwn, Faulted, TypeOK, HoldsInv
  <2> QED BY <2>1, <2>2
<1>18. ASSUME NEW d \in Daemons, Close(d) PROVE TypeInv'
  <2>1. TypeOK'
    BY <1>18 DEF Close, Gone, TypeOK
  <2>2. HoldsInv'
    BY <1>18 DEF Close, Gone, TypeOK, HoldsInv
  <2> QED BY <2>1, <2>2
<1>19. ASSUME NEW d \in Daemons, Stop(d) PROVE TypeInv'
  <2>1. TypeOK'
    BY <1>19 DEF Stop, TypeOK
  <2>2. HoldsInv'
    BY <1>19 DEF Stop, TypeOK, HoldsInv
  <2> QED BY <2>1, <2>2
<1>20. ASSUME NEW d \in Daemons, Crash(d) PROVE TypeInv'
  <2>1. TypeOK'
    BY <1>20 DEF Crash, Gone, TypeOK
  <2>2. HoldsInv'
    BY <1>20 DEF Crash, Gone, TypeOK, HoldsInv
  <2> QED BY <2>1, <2>2
<1>21. CASE Meddle
  <2>1. TypeOK'
    BY <1>21 DEF Meddle, TypeOK
  <2>2. HoldsInv'
    BY <1>21 DEF Meddle, TypeOK, HoldsInv
  <2> QED BY <2>1, <2>2
<1> QED
  BY <1>1, <1>2, <1>3, <1>4, <1>5, <1>6, <1>7, <1>8, <1>9, <1>10, <1>11,
     <1>12, <1>13, <1>14, <1>15, <1>16, <1>17, <1>18, <1>19, <1>20,
     <1>21 DEF Next, Step

LEMMA TypeInvariant == Spec => []TypeInv
<1>1. Init => TypeInv
  BY DEF Init, TypeInv, TypeOK, HoldsInv, Steps, Bound, Guarded, Binding
<1>2. TypeInv /\ UNCHANGED vars => TypeInv'
  BY DEF TypeInv, TypeOK, HoldsInv, vars
<1> QED BY <1>1, <1>2, TypeStep, PTL DEF Spec

\* Every variable keeps its type, however many daemons start at once.
THEOREM TypeCorrect == Spec => []TypeOK
<1>1. TypeInv => TypeOK
  BY DEF TypeInv
<1> QED BY <1>1, TypeInvariant, PTL

-----------------------------------------------------------------------------
LEMMA CleanStep ==
    ASSUME "cleanup" \notin Faults, TypeInv, CleanInv, Next
    PROVE  CleanInv'
<1> USE DEF TypeInv, TypeOK, HoldsInv, CleanInv, Steps, Bound, Guarded,
    Binding, Unbound, IoFault
<1>1. ASSUME NEW d \in Daemons, Start(d) PROVE CleanInv'
  BY <1>1 DEF Start
<1>2. ASSUME NEW d \in Daemons, Stat(d) PROVE CleanInv'
  BY <1>2 DEF Stat, Removable
<1>3. ASSUME NEW d \in Daemons, Probe(d) PROVE CleanInv'
  BY <1>3 DEF Probe, SomebodyAnswers
<1>4. ASSUME NEW d \in Daemons, Unlink(d) PROVE CleanInv'
  BY <1>4 DEF Unlink
<1>5. ASSUME NEW d \in Daemons, Refused(d) PROVE CleanInv'
  BY <1>5 DEF Refused, Gone
<1>6. ASSUME NEW d \in Daemons, StartFails(d) PROVE CleanInv'
  BY <1>6 DEF StartFails, Gone
<1>7. ASSUME NEW d \in Daemons, Bind(d) PROVE CleanInv'
  BY <1>7 DEF Bind, Unused
<1>8. ASSUME NEW d \in Daemons, Listen(d) PROVE CleanInv'
  BY <1>8 DEF Listen
<1>9. ASSUME NEW d \in Daemons, ListenFails(d) PROVE CleanInv'
  BY <1>9 DEF ListenFails, Gone
<1>10. ASSUME NEW d \in Daemons, Record(d) PROVE CleanInv'
  BY <1>10 DEF Record
<1>11. ASSUME NEW d \in Daemons, RecordFails(d) PROVE CleanInv'
  BY <1>11 DEF RecordFails, Faulted
<1>12. ASSUME NEW d \in Daemons, Discard(d) PROVE CleanInv'
  BY <1>12 DEF Discard, Faulted
<1>13. ASSUME NEW d \in Daemons, Secure(d) PROVE CleanInv'
  BY <1>13 DEF Secure
<1>14. ASSUME NEW d \in Daemons, Verify(d) PROVE CleanInv'
  BY <1>14 DEF Verify
<1>15. ASSUME NEW d \in Daemons, SecureFails(d) PROVE CleanInv'
  BY <1>15 DEF SecureFails, Faulted
<1>16. ASSUME NEW d \in Daemons, DropGuard(d) PROVE CleanInv'
  BY <1>16 DEF DropGuard, Faulted, GuardMatches
<1>17. ASSUME NEW d \in Daemons, RemoveOwn(d) PROVE CleanInv'
  BY <1>17 DEF RemoveOwn, Faulted
<1>18. ASSUME NEW d \in Daemons, Close(d) PROVE CleanInv'
  BY <1>18 DEF Close, Gone
<1>19. ASSUME NEW d \in Daemons, Stop(d) PROVE CleanInv'
  BY <1>19 DEF Stop
<1>20. ASSUME NEW d \in Daemons, Crash(d) PROVE CleanInv'
  BY <1>20 DEF Crash, Gone
<1>21. CASE Meddle
  BY <1>21 DEF Meddle
<1> QED
  BY <1>1, <1>2, <1>3, <1>4, <1>5, <1>6, <1>7, <1>8, <1>9, <1>10, <1>11,
     <1>12, <1>13, <1>14, <1>15, <1>16, <1>17, <1>18, <1>19, <1>20,
     <1>21 DEF Next, Step

LEMMA CleanInvariant == ASSUME "cleanup" \notin Faults PROVE Spec => []CleanInv
<1>1. Init => CleanInv
  BY DEF Init, CleanInv, Guarded
<1>2. CleanInv /\ UNCHANGED vars => CleanInv'
  BY DEF CleanInv, vars
<1> QED BY <1>1, <1>2, CleanStep, TypeInvariant, PTL DEF Spec

\* Unless the removal itself fails a daemon that ends in an orderly way, also
\* one whose start failed with its socket at the path, leaves no socket of its own at the path, however many start, stop and die
\* around it (SocketGuard::drop before the listener is closed).
THEOREM CleanExits == ASSUME "cleanup" \notin Faults PROVE Spec => CleanExit
<1> DEFINE Clean ==
      \A d \in Daemons : pc[d] = "close" /\ pc'[d] = "down" => path' # sock[d]
<1>1. TypeInv /\ CleanInv /\ [Next]_vars => [Clean]_vars
  <2> SUFFICES ASSUME TypeInv, CleanInv, Next, NEW d \in Daemons,
                      pc[d] = "close", pc'[d] = "down"
               PROVE  path' # sock[d]
    OBVIOUS
  <2> USE DEF TypeInv, TypeOK, HoldsInv, CleanInv, Steps, Bound, Guarded,
      Binding, Unbound
  <2>1. CASE path' = path
    BY <2>1
  <2>2. CASE path' # path
    <3>1. PICK e \in Daemons : Unlink(e) \/ Bind(e) \/ Discard(e)
                              \/ RemoveOwn(e) \/ Meddle
      BY <2>2 DEF Next, Step, Start, Stat, Probe, Refused, StartFails, Listen,
         ListenFails, Record, RecordFails, Secure, Verify, SecureFails,
         DropGuard, Close, Stop, Crash
    <3> QED BY <3>1 DEF Unlink, Bind, Unused, Discard, RemoveOwn, Meddle
  <2> QED BY <2>1, <2>2
<1>2. [][Clean]_vars => CleanExit
  BY DEF CleanExit
<1> HIDE DEF Clean
<1> QED BY <1>1, <1>2, TypeInvariant, CleanInvariant, PTL DEF Spec

-----------------------------------------------------------------------------
LEMMA PathStep ==
    ASSUME Supervised, TypeInv, PathInv, Next
    PROVE  PathInv'
<1> USE DEF TypeInv, TypeOK, HoldsInv, PathInv, Listed, Steps, Starting,
    Bound, Guarded, Binding, Unbound
<1>1. ASSUME NEW d \in Daemons, Start(d) PROVE PathInv'
  BY <1>1 DEF Start
<1>2. ASSUME NEW d \in Daemons, Stat(d) PROVE PathInv'
  BY <1>2 DEF Stat, Removable
<1>3. ASSUME NEW d \in Daemons, Probe(d) PROVE PathInv'
  BY <1>3 DEF Probe, SomebodyAnswers
<1>4. ASSUME NEW d \in Daemons, Unlink(d) PROVE PathInv'
  BY <1>4 DEF Unlink
<1>5. ASSUME NEW d \in Daemons, Refused(d) PROVE PathInv'
  BY <1>5 DEF Refused, Gone
<1>6. ASSUME NEW d \in Daemons, StartFails(d) PROVE PathInv'
  BY <1>6 DEF StartFails, Gone
<1>7. ASSUME NEW d \in Daemons, Bind(d) PROVE PathInv'
  BY <1>7 DEF Bind, Unused
<1>8. ASSUME NEW d \in Daemons, Listen(d) PROVE PathInv'
  BY <1>8 DEF Listen
<1>9. ASSUME NEW d \in Daemons, ListenFails(d) PROVE PathInv'
  BY <1>9 DEF ListenFails, Gone
<1>10. ASSUME NEW d \in Daemons, Record(d) PROVE PathInv'
  BY <1>10 DEF Record
<1>11. ASSUME NEW d \in Daemons, RecordFails(d) PROVE PathInv'
  BY <1>11 DEF RecordFails, Faulted
<1>12. ASSUME NEW d \in Daemons, Discard(d) PROVE PathInv'
  BY <1>12 DEF Discard, Faulted
<1>13. ASSUME NEW d \in Daemons, Secure(d) PROVE PathInv'
  BY <1>13 DEF Secure
<1>14. ASSUME NEW d \in Daemons, Verify(d) PROVE PathInv'
  BY <1>14 DEF Verify
<1>15. ASSUME NEW d \in Daemons, SecureFails(d) PROVE PathInv'
  BY <1>15 DEF SecureFails, Faulted
<1>16. ASSUME NEW d \in Daemons, DropGuard(d) PROVE PathInv'
  BY <1>16 DEF DropGuard, Faulted, GuardMatches
<1>17. ASSUME NEW d \in Daemons, RemoveOwn(d) PROVE PathInv'
  BY <1>17 DEF RemoveOwn, Faulted
<1>18. ASSUME NEW d \in Daemons, Close(d) PROVE PathInv'
  BY <1>18 DEF Close, Gone
<1>19. ASSUME NEW d \in Daemons, Stop(d) PROVE PathInv'
  BY <1>19 DEF Stop
<1>20. ASSUME NEW d \in Daemons, Crash(d) PROVE PathInv'
  BY <1>20 DEF Crash, Gone
<1>21. CASE Meddle
  BY <1>21 DEF Meddle
<1> QED
  BY <1>1, <1>2, <1>3, <1>4, <1>5, <1>6, <1>7, <1>8, <1>9, <1>10, <1>11,
     <1>12, <1>13, <1>14, <1>15, <1>16, <1>17, <1>18, <1>19, <1>20,
     <1>21 DEF Next, Step

LEMMA PathInvariant == ASSUME Supervised PROVE Spec => []PathInv
<1>1. Init => PathInv
  BY DEF Init, PathInv, Listed, Starting, Guarded, Binding, Unbound
<1>2. PathInv /\ UNCHANGED vars => PathInv'
  BY DEF PathInv, vars
<1> QED BY <1>1, <1>2, PathStep, TypeInvariant, PTL DEF Spec

\* With one start at a time every serving daemon is reachable through the
\* path, unless a person moved its socket away: starts, refused starts,
\* shutdowns and crashes of the others never hide it.
THEOREM ServersReachable == ASSUME Supervised PROVE Spec => []Reachable
<1>1. PathInv => Reachable
  BY DEF PathInv, Listed, Reachable
<1> QED BY <1>1, PathInvariant, PTL

\* With one start at a time remove_stale_socket removes stale sockets only,
\* and the guard no socket but its own.
THEOREM LiveSocketsKept == ASSUME Supervised PROVE Spec => LiveSocketKept
<1> DEFINE Kept ==
      \A d \in Daemons :
         sock[d] # None /\ path = sock[d] /\ path' # path =>
             d \in displaced' \/ pc[d] # pc'[d]
<1>1. TypeInv /\ PathInv /\ [Next]_vars => [Kept]_vars
  <2> SUFFICES ASSUME TypeInv, PathInv, Next, NEW d \in Daemons,
                      sock[d] # None, path = sock[d], path' # path
               PROVE  d \in displaced' \/ pc[d] # pc'[d]
    OBVIOUS
  <2> USE DEF TypeInv, TypeOK, HoldsInv, PathInv, Listed, Starting, Bound,
      Guarded, Binding, Unbound
  <2>1. PICK e \in Daemons : Unlink(e) \/ Bind(e) \/ Discard(e)
                            \/ RemoveOwn(e) \/ Meddle
    BY DEF Next, Step, Start, Stat, Probe, Refused, StartFails, Listen,
       ListenFails, Record, RecordFails, Secure, Verify, SecureFails,
       DropGuard, Close, Stop, Crash
  <2>2. CASE Unlink(e) BY <2>2 DEF Unlink
  <2>3. CASE Bind(e) BY <2>3 DEF Bind
  <2>4. CASE Discard(e) BY <2>4 DEF Discard
  <2>5. CASE RemoveOwn(e) BY <2>5 DEF RemoveOwn
  <2>6. CASE Meddle BY <2>6 DEF Meddle
  <2> QED BY <2>1, <2>2, <2>3, <2>4, <2>5, <2>6
<1>2. [][Kept]_vars => LiveSocketKept
  BY DEF LiveSocketKept
<1> HIDE DEF Kept
<1> QED BY <1>1, <1>2, TypeInvariant, PathInvariant, PTL DEF Spec

\* With one start at a time no daemon removes a file that is not a socket of
\* this user: what remove_stale_socket saw is still there when it acts.
THEOREM ForeignFilesKept == ASSUME Supervised PROVE Spec => ForeignFileKept
<1> DEFINE Kept == (path \in Foreign /\ path' # path) => UNCHANGED process
<1>1. TypeInv /\ PathInv /\ [Next]_vars => [Kept]_vars
  <2> SUFFICES ASSUME TypeInv, PathInv, Next, path \in Foreign, path' # path
               PROVE  Meddle
    BY DEF Meddle
  <2> USE DEF TypeInv, TypeOK, HoldsInv, PathInv, Listed, Bound, Guarded, Binding
  <2>1. CASE \E d \in Daemons : Unlink(d) BY <2>1 DEF Unlink
  <2>2. CASE \E d \in Daemons : Bind(d) BY <2>2 DEF Bind
  <2>3. CASE \E d \in Daemons : Discard(d) BY <2>3 DEF Discard
  <2>4. CASE \E d \in Daemons : RemoveOwn(d) BY <2>4 DEF RemoveOwn
  <2> QED
    BY <2>1, <2>2, <2>3, <2>4 DEF Next, Step, Start, Stat, Probe, Refused,
       StartFails, Listen, ListenFails, Record, RecordFails, Secure, Verify,
       SecureFails, DropGuard, Close, Stop, Crash
<1>2. [][Kept]_vars => ForeignFileKept
  BY DEF ForeignFileKept
<1> HIDE DEF Kept
<1> QED BY <1>1, <1>2, TypeInvariant, PathInvariant, PTL DEF Spec

-----------------------------------------------------------------------------
(* The safety half of StaleRecovered, without Supervised *)

\* The next step of a start, by the calls of bind_listener.
NextStep(step) ==
    CASE step = "stat"   -> {"probe", "bind"}
      [] step = "probe"  -> {"unlink"}
      [] step = "unlink" -> {"bind"}
      [] step = "bind"   -> {"listen"}
      [] step = "listen" -> {"record"}
      [] step = "record" -> {"secure"}
      [] step = "secure" -> {"verify"}
      [] step = "verify" -> {"serve"}

\* A start that meets no other daemon and no fault is never refused and never
\* fails: each of its steps is the next one on the way to serving.
LoneStartGoesOn ==
    [][\A d \in alone \cap alone' :
         pc[d] \in Starting /\ pc'[d] # pc[d] => pc'[d] \in NextStep(pc[d])]_vars

\* What such a start finds at the path: no other file, nobody who answers, and from
\* bind on its own socket, which is still there when it serves and gone when it ends.
LoneInv ==
    \A d \in alone :
        /\ \A e \in Daemons \ {d} : pc[e] = "down"
        /\ pc[d] = "stat" => path \notin Foreign
        /\ pc[d] \in {"probe", "unlink"} => path \in Sockets
        /\ pc[d] \in {"bind", "close"} => path = None
        /\ pc[d] \in Bound \ {"close"} => path = sock[d]
        /\ pc[d] \in Guarded => guard[d] = sock[d]
        /\ pc[d] # "discard"

LEMMA LoneStep ==
    ASSUME TypeInv, LoneInv, Next
    PROVE  /\ LoneInv'
           /\ \A d \in alone \cap alone' :
                pc[d] \in Starting /\ pc'[d] # pc[d] => pc'[d] \in NextStep(pc[d])
<1> DEFINE Onward == \A d \in alone \cap alone' :
                       pc[d] \in Starting /\ pc'[d] # pc[d] => pc'[d] \in NextStep(pc[d])
           Both   == LoneInv' /\ Onward
<1> USE DEF TypeInv, TypeOK, HoldsInv, LoneInv, NextStep, Steps, Starting, Bound, Guarded,
    Binding, Unbound
<1>1. ASSUME NEW d \in Daemons, Start(d) PROVE Both
  BY <1>1 DEF Start
<1>2. ASSUME NEW d \in Daemons, Stat(d) PROVE Both
  BY <1>2 DEF Stat, Removable
<1>3. ASSUME NEW d \in Daemons, Probe(d) PROVE Both
  BY <1>3 DEF Probe, SomebodyAnswers
<1>4. ASSUME NEW d \in Daemons, Unlink(d) PROVE Both
  BY <1>4 DEF Unlink
<1>5. ASSUME NEW d \in Daemons, Refused(d) PROVE Both
  BY <1>5 DEF Refused, Gone, Removable, SomebodyAnswers
<1>6. ASSUME NEW d \in Daemons, StartFails(d) PROVE Both
  BY <1>6 DEF StartFails, Gone
<1>7. ASSUME NEW d \in Daemons, Bind(d) PROVE Both
  BY <1>7 DEF Bind, Unused
<1>8. ASSUME NEW d \in Daemons, Listen(d) PROVE Both
  BY <1>8 DEF Listen
<1>9. ASSUME NEW d \in Daemons, ListenFails(d) PROVE Both
  BY <1>9 DEF ListenFails, Gone
<1>10. ASSUME NEW d \in Daemons, Record(d) PROVE Both
  BY <1>10 DEF Record
<1>11. ASSUME NEW d \in Daemons, RecordFails(d) PROVE Both
  BY <1>11 DEF RecordFails, Faulted
<1>12. ASSUME NEW d \in Daemons, Discard(d) PROVE Both
  BY <1>12 DEF Discard, Faulted
<1>13. ASSUME NEW d \in Daemons, Secure(d) PROVE Both
  BY <1>13 DEF Secure
<1>14. ASSUME NEW d \in Daemons, Verify(d) PROVE Both
  BY <1>14 DEF Verify
<1>15. ASSUME NEW d \in Daemons, SecureFails(d) PROVE Both
  BY <1>15 DEF SecureFails, Faulted
<1>16. ASSUME NEW d \in Daemons, DropGuard(d) PROVE Both
  BY <1>16 DEF DropGuard, Faulted, GuardMatches
<1>17. ASSUME NEW d \in Daemons, RemoveOwn(d) PROVE Both
  BY <1>17 DEF RemoveOwn, Faulted
<1>18. ASSUME NEW d \in Daemons, Close(d) PROVE Both
  BY <1>18 DEF Close, Gone
<1>19. ASSUME NEW d \in Daemons, Stop(d) PROVE Both
  BY <1>19 DEF Stop
<1>20. ASSUME NEW d \in Daemons, Crash(d) PROVE Both
  BY <1>20 DEF Crash, Gone
<1>21. CASE Meddle
  BY <1>21 DEF Meddle
<1> QED
  BY <1>1, <1>2, <1>3, <1>4, <1>5, <1>6, <1>7, <1>8, <1>9, <1>10, <1>11,
     <1>12, <1>13, <1>14, <1>15, <1>16, <1>17, <1>18, <1>19, <1>20,
     <1>21 DEF Next, Step

LEMMA LoneInvariant == Spec => []LoneInv
<1>1. Init => LoneInv
  BY DEF Init, LoneInv
<1>2. LoneInv /\ UNCHANGED vars => LoneInv'
  BY DEF LoneInv, vars
<1> QED BY <1>1, <1>2, LoneStep, TypeInvariant, PTL DEF Spec

\* Whatever a crash left at the path, a start that nobody disturbs goes through
\* remove_stale_socket and bind_listener to the end; StaleRecovered rests on it.
THEOREM LoneStartsGoOn == Spec => LoneStartGoesOn
<1> DEFINE Onward == \A d \in alone \cap alone' :
                       pc[d] \in Starting /\ pc'[d] # pc[d] => pc'[d] \in NextStep(pc[d])
<1>1. TypeInv /\ LoneInv /\ [Next]_vars => [Onward]_vars
  BY LoneStep
<1>2. [][Onward]_vars => LoneStartGoesOn
  BY DEF LoneStartGoesOn
<1> HIDE DEF Onward
<1> QED BY <1>1, <1>2, TypeInvariant, LoneInvariant, PTL DEF Spec

=============================================================================
