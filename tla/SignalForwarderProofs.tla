----------------------- MODULE SignalForwarderProofs -----------------------
(***************************************************************************)
(* Theorems about SignalForwarder, for any set of signals.                 *)
(***************************************************************************)
EXTENDS SignalForwarder, TLAPS

\* How far the child and the forwarding thread are, by what run_program does.
PhaseInv ==
    /\ pc = "launch" => child = "none"
    /\ pc \in {"register", "start", "wait"} => child \in {"running", "zombie"}
    /\ pc \in {"stop", "wake", "join"} => child = "gone"
    /\ pc \in {"launch", "register", "start", "kill", "reap"} => thread = "none"
    /\ pc \in {"seal", "done"} => thread \in {"none", "ended"}
    /\ pc = "start" => installed = Signals

IInv == TypeOK /\ PhaseInv /\ SealedAfterExit

LEMMA IInvInit == Init => IInv
BY NoneAssumption DEF Init, IInv, TypeOK, PhaseInv, SealedAfterExit

\* A step keeps the types of the state.
LEMMA TypeStep == ASSUME IInv, [Next]_vars PROVE TypeOK'
<1> USE DEF IInv, runner, delivery, forwarder
<1>1. CASE RunnerStep
  <2>1. CASE Launch \/ Registered \/ RegisterFails \/ Kill \/ Seal
    BY <2>1 DEF TypeOK, Launch, Registered, RegisterFails, Kill, Seal
  <2>2. CASE Register
    BY <2>2 DEF TypeOK, Register, Wanted, PhaseInv
  <2>3. CASE Reap \/ Wait
    BY <2>3 DEF TypeOK, Reap, Wait, AfterWait
  <2>4. CASE StartThread
    BY <2>4 DEF TypeOK, StartThread, PhaseInv
  <2>5. CASE Close \/ Wake \/ Join
    BY <2>5 DEF TypeOK, Close, Wake, Join, Woken
  <2> QED BY <1>1, <2>1, <2>2, <2>3, <2>4, <2>5 DEF RunnerStep
<1>2. CASE ThreadStep
  <2>1. CASE Check \/ Block
    BY <1>2, <2>1 DEF TypeOK, Check, Block
  <2>2. CASE Take
    BY <1>2, <2>2, NoneAssumption DEF TypeOK, Take
  <2>3. CASE EndRound \/ Forward
    BY <1>2, <2>3 DEF TypeOK, EndRound, Forward, AfterRound
  <2> QED BY <1>2, <2>1, <2>2, <2>3 DEF ThreadStep
<1>3. CASE Environment
  <2>1. CASE Exit \/ Die \/ Reuse
    BY <2>1 DEF TypeOK, Exit, Die, End, Reuse
  <2>2. ASSUME NEW s \in Signals, Caught(s) \/ Killed(s) PROVE TypeOK'
    BY ZenonT(40), <2>2 DEF TypeOK, Caught, Killed
  <2> QED BY <1>3, <2>1, <2>2 DEF Environment
<1>4. CASE UNCHANGED vars
  BY <1>4 DEF TypeOK, vars
<1> QED BY <1>1, <1>2, <1>3, <1>4 DEF Next

\* A step keeps the child and the thread where run_program expects them.
LEMMA PhaseStep == ASSUME IInv, [Next]_vars PROVE PhaseInv' /\ SealedAfterExit'
<1> USE DEF IInv, runner, delivery, forwarder, PhaseInv, SealedAfterExit
<1>1. CASE RunnerStep
  <2>1. CASE Launch \/ Register \/ RegisterFails \/ Kill \/ Seal
    BY <2>1 DEF TypeOK, Launch, Register, RegisterFails, Kill, Seal
  <2>2. CASE Registered \/ StartThread
    BY <2>2 DEF TypeOK, Registered, Wanted, StartThread
  <2>3. CASE Reap \/ Wait
    BY <2>3 DEF TypeOK, Reap, Wait, Exited, AfterWait
  <2>4. CASE Close \/ Wake \/ Join
    BY <2>4 DEF TypeOK, Close, Wake, Join, ThreadEnded
  <2> QED BY <1>1, <2>1, <2>2, <2>3, <2>4 DEF RunnerStep
<1>2. CASE ThreadStep
  BY <1>2 DEF TypeOK, ThreadStep, Check, Block, Take, EndRound, Forward, AfterRound
<1>3. CASE Environment
  <2>1. CASE Exit \/ Die \/ Reuse
    BY <2>1 DEF TypeOK, Exit, Die, End, Reuse
  <2>2. ASSUME NEW s \in Signals, Caught(s) \/ Killed(s)
        PROVE  PhaseInv' /\ SealedAfterExit'
    BY <2>2 DEF TypeOK, Caught, Killed
  <2> QED BY <1>3, <2>1, <2>2 DEF Environment
<1>4. CASE UNCHANGED vars
  BY <1>4 DEF vars
<1> QED BY <1>1, <1>2, <1>3, <1>4 DEF Next

THEOREM Invariant == Spec => []IInv
<1>1. IInv /\ [Next]_vars => IInv'
  BY TypeStep, PhaseStep DEF IInv
<1> QED BY <1>1, IInvInit, PTL DEF Spec

\* The thread runs only with all handlers in place (SignalForwarder::start).
THEOREM TypeCorrect == Spec => []TypeOK
<1>1. IInv => TypeOK
  BY DEF IInv
<1> QED BY <1>1, Invariant, PTL

\* The session is not sealed while Codex may write to it (run_program).
THEOREM SealedAfter == Spec => []SealedAfterExit
<1>1. IInv => SealedAfterExit
  BY DEF IInv
<1> QED BY <1>1, Invariant, PTL

\* The window in which the signal of a caller can reach a process that has taken
\* over the child's id is the one between wait and the end of stop.
THEOREM StrangersSpared == Spec => StrangerSpared
<1>1. ASSUME IInv, [Next]_vars PROVE struck' # struck => pc \in {"stop", "wake", "join"}
  <2> USE DEF runner, delivery, forwarder
  <2>1. CASE RunnerStep
    BY <2>1 DEF RunnerStep, Launch, Register, Registered, RegisterFails, Kill, Reap,
       StartThread, Wait, Close, Wake, Join, Seal
  <2>2. CASE ThreadStep
    <3>1. CASE Forward
      <4>1. thread = "send" /\ (struck' # struck => child = "gone") /\ pc # "dead"
        BY <1>1, <2>2, <3>1 DEF Forward, ThreadStep, IInv, TypeOK
      <4> QED BY <1>1, <4>1 DEF IInv, TypeOK, PhaseInv
    <3>2. CASE Check \/ Block \/ Take \/ EndRound
      BY <3>2 DEF Check, Block, Take, EndRound
    <3> QED BY <2>2, <3>1, <3>2 DEF ThreadStep
  <2>3. CASE Environment
    BY <2>3 DEF Environment, Exit, Die, End, Reuse, Caught, Killed
  <2>4. CASE UNCHANGED vars
    BY <2>4 DEF vars
  <2> QED BY <1>1, <2>1, <2>2, <2>3, <2>4 DEF Next
<1>2. IInv /\ [Next]_vars => [struck' # struck => pc \in {"stop", "wake", "join"}]_vars
  BY <1>1
<1> QED BY <1>2, Invariant, PTL DEF Spec, StrangerSpared

-----------------------------------------------------------------------------
(* The safety half of Forwarded and Seals *)

\* A signal that came in is flagged or being sent on, and a thread that sleeps has
\* a byte in its pipe as soon as there is a flag to look at or stop has closed the
\* handle: no wake-up is lost between the flags, the pipe and the end of a round.
NothingOverlooked ==
    /\ owed \subseteq pending \cup {taken}
    /\ thread = "block" => (pending # {} \/ pc = "join" => wake)

\* A flag is looked at in this round, or the pipe announces another one.
RoundInv ==
    /\ NothingOverlooked
    /\ \A s \in pending : wake \/ s \in todo
    /\ thread = "block" => todo = {}
    /\ pc \in {"wake", "join"} => closed

LEMMA RoundStep == ASSUME IInv, RoundInv, [Next]_vars PROVE RoundInv'
<1> USE DEF RoundInv, NothingOverlooked, runner, delivery, forwarder
<1>0. TypeOK /\ PhaseInv
  BY DEF IInv
<1>1. CASE RunnerStep
  <2>1. CASE Launch \/ Register \/ Registered \/ RegisterFails \/ Kill \/ Reap \/ Seal
    BY <2>1 DEF Launch, Register, Registered, RegisterFails, Kill, Reap, Seal
  <2>2. CASE StartThread \/ Wait \/ Join
    BY <2>2 DEF StartThread, Wait, Join
  <2>3. CASE Close \/ Wake
    BY <2>3 DEF Close, Wake, Woken
  <2> QED BY <1>1, <2>1, <2>2, <2>3 DEF RunnerStep
<1>2. CASE ThreadStep
  <2>1. CASE Check
    BY <1>0, <2>1 DEF Check
  <2>2. CASE Block
    BY <1>0, <2>2 DEF Block, TypeOK
  <2>3. CASE Take
    BY <1>0, <2>3, NoneAssumption DEF Take, TypeOK
  <2>4. CASE EndRound
    BY <1>0, <2>4 DEF EndRound, AfterRound, TypeOK
  <2>5. CASE Forward
    BY <1>0, <2>5 DEF Forward, TypeOK
  <2> QED BY <1>2, <2>1, <2>2, <2>3, <2>4, <2>5 DEF ThreadStep
<1>3. CASE Environment
  <2>1. CASE Exit \/ Die \/ Reuse
    BY <2>1 DEF Exit, Die, End, Reuse
  <2>2. ASSUME NEW s \in Signals, Caught(s) \/ Killed(s) PROVE RoundInv'
    BY <2>2 DEF Caught, Killed
  <2> QED BY <1>3, <2>1, <2>2 DEF Environment
<1>4. CASE UNCHANGED vars
  BY <1>4 DEF vars
<1> QED BY <1>1, <1>2, <1>3, <1>4 DEF Next

\* For any set of signals, none is forgotten and the thread never sleeps through one,
\* nor through the end of the session.  Forwarded and Seals rest on it.
THEOREM SignalsOnTheirWay == Spec => []NothingOverlooked
<1>1. Init => RoundInv
  BY DEF Init, RoundInv, NothingOverlooked
<1>2. RoundInv => NothingOverlooked
  BY DEF RoundInv
<1> QED BY <1>1, <1>2, RoundStep, Invariant, PTL DEF Spec
=============================================================================
