--------------------------- MODULE DaemonService ---------------------------
(***************************************************************************)
(* The service loop of codex-vaultd (src/src/daemon.rs), which serves one  *)
(* connection after the other, the framing of src/src/daemon_protocol.rs,  *)
(* and the clients: query_daemon_status, and anything else that connects   *)
(* to the socket, sends what it likes as slowly as it likes, and leaves.   *)
(*                                                                         *)
(* A frame is a header, which announces a length, and as many bytes.  Time *)
(* passes in units, and only while the service waits for bytes: its own    *)
(* steps and those of query_daemon_status take none.                       *)
(***************************************************************************)
EXTENDS Integers, Sequences

CONSTANTS
    Queries,      \* the clients that call query_daemon_status
    Others,       \* the clients that do not
    OtherPlans,   \* who they are and what they may send
    HeaderBytes,  \* 4
    MaxFrame,     \* MAX_FRAME_BYTES
    Timeout,      \* CONNECTION_TIMEOUT, in units of time
    Backlog,      \* connections the kernel keeps for accept
    None

Clients == Queries \cup Others

\* The peer's UID, the announced length, and the text that follows.
Plan == [allowed : BOOLEAN, length : 0 .. MaxFrame + 1, body : {"status", "version", "junk"}]

\* query_daemon_status sends a status request of this version.
QueryPlan == {p \in Plan : p.body = "status" /\ p.length \in 1 .. MaxFrame}

ASSUME ClientAssumption == Queries \cap Others = {} /\ None \notin Clients
ASSUME PlanAssumption   == OtherPlans \subseteq Plan
ASSUME SizeAssumption   == /\ HeaderBytes \in Nat \ {0} /\ MaxFrame \in Nat \ {0}
                           /\ Timeout \in Nat \ {0} /\ Backlog \in Nat \ {0}

VARIABLES
    server,    \* what the service does
    once,      \* serve_daemon_once runs it
    stopping,  \* the flag SIGINT and SIGTERM set
    queue,     \* connections not accepted yet
    current,   \* the client whose connection is open
    got,       \* bytes of its frame that were read
    wait,      \* for how long the running read has waited
    held,      \* for how long the connection has been open
    stage,     \* client -> what it does
    plan,      \* client -> who it is and what it sends
    sent,      \* client -> bytes it has sent
    waited,    \* client -> for how long its read has waited
    answer,    \* client -> the response in its socket
    closed,    \* client -> the service has closed the connection
    behind,    \* client -> it found somebody ahead of it
    outcome    \* client -> what query_daemon_status returned

service == <<server, once, stopping, queue, current, got, wait, held>>
clients == <<stage, plan, sent, waited, answer, closed, behind, outcome>>
vars    == <<service, clients>>

Responses == {"none", "status", "unsupported", "rejected"}

TypeOK ==
    /\ server   \in {"accept", "reject", "head", "body", "end", "down"}
    /\ once \in BOOLEAN /\ stopping \in BOOLEAN
    /\ queue    \in Seq(Clients)
    /\ current  \in Clients \cup {None}
    /\ current = None <=> server \in {"accept", "end", "down"}
    /\ got      \in 0 .. HeaderBytes + MaxFrame
    /\ wait     \in 0 .. Timeout
    /\ held     \in Nat
    /\ stage    \in [Clients -> {"idle", "sending", "reading", "done"}]
    /\ plan     \in [Clients -> Plan]
    /\ \A c \in Queries : plan[c] \in QueryPlan
    /\ sent     \in [Clients -> Nat]
    /\ waited   \in [Clients -> 0 .. Timeout]
    /\ answer   \in [Clients -> Responses]
    /\ closed   \in [Clients -> BOOLEAN]
    /\ behind   \in [Clients -> BOOLEAN]
    /\ outcome  \in [Clients -> Responses \cup {"refused", "unsent", "ended", "timeout"}]

Init ==
    /\ server = "accept" /\ once \in BOOLEAN /\ stopping = FALSE
    /\ queue = << >> /\ current = None /\ got = 0 /\ wait = 0 /\ held = 0
    /\ stage   = [c \in Clients |-> "idle"]
    /\ plan    = [c \in Clients |-> [allowed |-> TRUE, length |-> 1, body |-> "status"]]
    /\ sent    = [c \in Clients |-> 0]
    /\ waited  = [c \in Clients |-> 0]
    /\ answer  = [c \in Clients |-> "none"]
    /\ closed  = [c \in Clients |-> TRUE]
    /\ behind  = [c \in Clients |-> FALSE]
    /\ outcome = [c \in Clients |-> "none"]

-----------------------------------------------------------------------------
(* The clients *)

\* The last connection of c is over on both sides.
Away(c) == stage[c] \in {"idle", "done"} /\ closed[c]

\* A connection waits in the backlog; a full one makes connect wait in its turn.
Connect(c) ==
    /\ Away(c) /\ server # "down" /\ Len(queue) < Backlog
    /\ queue'   = Append(queue, c)
    /\ stage'   = [stage EXCEPT ![c] = "sending"]
    /\ \E p \in (IF c \in Queries THEN QueryPlan ELSE OtherPlans) :
          plan' = [plan EXCEPT ![c] = p]
    /\ sent'    = [sent EXCEPT ![c] = 0]
    /\ answer'  = [answer EXCEPT ![c] = "none"]
    /\ closed'  = [closed EXCEPT ![c] = FALSE]
    /\ behind'  = [behind EXCEPT ![c] = current # None \/ queue # << >>]
    /\ outcome' = [outcome EXCEPT ![c] = "none"]
    /\ UNCHANGED <<server, once, stopping, current, got, wait, held, waited>>

\* query_daemon_status returns r.
Return(c, r) ==
    /\ stage'   = [stage EXCEPT ![c] = "done"]
    /\ outcome' = [outcome EXCEPT ![c] = r]
    /\ waited'  = [waited EXCEPT ![c] = 0]
    /\ UNCHANGED <<service, plan, sent, answer, closed, behind>>

ConnectRefused(c) == Away(c) /\ server = "down" /\ Return(c, "refused")

FrameBytes(c) == HeaderBytes + plan[c].length

\* write_message writes the header, then the payload; a caller of its own may
\* send any piece.
Pieces(c) ==
    IF c \in Others THEN 1 .. FrameBytes(c) - sent[c]
    ELSE {IF sent[c] = 0 THEN HeaderBytes ELSE FrameBytes(c) - sent[c]}

Send(c) ==
    /\ stage[c] = "sending" /\ sent[c] < FrameBytes(c) /\ ~closed[c]
    /\ \E n \in Pieces(c) : sent' = [sent EXCEPT ![c] = @ + n]
    /\ stage' = [stage EXCEPT ![c] = IF c \in Queries /\ sent'[c] = FrameBytes(c)
                                     THEN "reading" ELSE @]
    /\ UNCHANGED <<service, plan, waited, answer, closed, behind, outcome>>

\* Nobody is left to write to.
SendFails(c) == c \in Queries /\ stage[c] = "sending" /\ closed[c] /\ Return(c, "unsent")

\* read_message on the client's side: the response, the end of the connection,
\* or nothing in time.
TakeAnswer(c)   == stage[c] = "reading" /\ answer[c] # "none" /\ Return(c, answer[c])
MeetEnd(c)      == /\ stage[c] = "reading" /\ answer[c] = "none" /\ closed[c]
                   /\ Return(c, "ended")
GiveUp(c)       == /\ stage[c] = "reading" /\ answer[c] = "none" /\ ~closed[c]
                   /\ waited[c] = Timeout /\ Return(c, "timeout")

\* Another client goes away whenever it likes.
Leave(c) == c \in Others /\ stage[c] = "sending" /\ Return(c, "none")

QueryStep(c) ==
    Send(c) \/ SendFails(c) \/ TakeAnswer(c) \/ MeetEnd(c) \/ GiveUp(c)

-----------------------------------------------------------------------------
(* The service *)

\* The loop looks at the flag in front of every accept.
GoesOnWithQueue == server = "accept" /\ (~stopping \/ queue # << >>)
GoesOn          == server = "accept" /\ ~stopping

\* accept, and the peer's UID as the kernel knows it.
Accept ==
    /\ GoesOn /\ queue # << >>
    /\ current' = Head(queue) /\ queue' = Tail(queue)
    /\ server' = IF plan[Head(queue)].allowed THEN "head" ELSE "reject"
    /\ UNCHANGED <<once, stopping, got, wait, held, clients>>

\* The stream is dropped, with response r written to it before.
Close(r) ==
    /\ answer'  = [answer EXCEPT ![current] = r]
    /\ closed'  = [closed EXCEPT ![current] = TRUE]
    /\ current' = None
    /\ server'  = IF once THEN "end" ELSE "accept"
    /\ got' = 0 /\ wait' = 0 /\ held' = 0
    /\ UNCHANGED <<once, stopping, queue, stage, plan, sent, waited, behind, outcome>>

\* A peer with another UID is turned away, its request unread.
RejectPeer == server = "reject" /\ Close("rejected")

\* How far the running read_exact of read_message goes.
HeaderOnly == HeaderBytes
Wanted     == IF server = "head" THEN HeaderBytes ELSE FrameBytes(current)

Reading  == server \in {"head", "body"} /\ got < Wanted
NoInput  == sent[current] = got
WouldBlock    == TRUE
InputEnds     == stage[current] = "done"
NeverTimesOut == FALSE
TimesOut      == wait = Timeout

\* A signal sets the flag of serve_daemon.  It interrupts the running read, which
\* read_exact begins anew.  A second signal is left out.
Signal ==
    /\ ~once /\ ~stopping /\ stopping' = TRUE
    /\ wait' = 0
    /\ UNCHANGED <<server, once, queue, current, got, held, clients>>

\* One read returns what is there.
Receive ==
    /\ Reading /\ ~NoInput
    /\ got'  = IF sent[current] < Wanted THEN sent[current] ELSE Wanted
    /\ wait' = 0
    /\ UNCHANGED <<server, once, stopping, queue, current, held, clients>>

EndOfInput  == Reading /\ NoInput /\ InputEnds /\ Close("none")
ReadTimeout == Reading /\ NoInput /\ ~InputEnds /\ TimesOut /\ Close("none")

\* The announced length is checked before the payload is read.
AnyLength(n)   == TRUE
LengthFits(n)  == n \in 1 .. MaxFrame

HeaderRead == server = "head" /\ got = Wanted
BadLength  == HeaderRead /\ ~LengthFits(plan[current].length) /\ Close("none")
GoodLength ==
    /\ HeaderRead /\ LengthFits(plan[current].length)
    /\ server' = "body"
    /\ UNCHANGED <<once, stopping, queue, current, got, wait, held, clients>>

\* The payload is parsed, and a request answered; what is no request is not.
Response(p) == CASE p.body = "status"  -> "status"
                 [] p.body = "version" -> "unsupported"
                 [] p.body = "junk"    -> "none"

Dispatch == server = "body" /\ got = Wanted /\ Close(Response(plan[current]))

\* The loop is left, by the flag, after the one connection, or for an error of
\* accept.  The listener closes, and with it every connection it still holds.
Down ==
    /\ server' = "down" /\ queue' = << >>
    /\ closed' = [c \in Clients |-> TRUE]
    /\ UNCHANGED <<once, stopping, current, got, wait, held,
                   stage, plan, sent, waited, answer, behind, outcome>>

End         == \/ server = "accept" /\ stopping /\ Down
               \/ server = "end" /\ Down
AcceptFails == GoesOn /\ Down

ServiceStep ==
    \/ Accept \/ RejectPeer \/ Receive \/ EndOfInput \/ ReadTimeout
    \/ BadLength \/ GoodLength \/ Dispatch

-----------------------------------------------------------------------------
(* Time *)

\* query_daemon_status is in a read that nothing ends yet.
InRead(c) == stage[c] = "reading" /\ answer[c] = "none" /\ ~closed[c]

Tick ==
    /\ Reading /\ NoInput /\ ~InputEnds /\ wait < Timeout
    /\ \A c \in Queries : /\ stage[c] # "sending"
                          /\ stage[c] = "reading" => InRead(c) /\ waited[c] < Timeout
    /\ wait' = wait + 1 /\ held' = held + 1
    /\ waited' = [c \in Clients |-> IF InRead(c) THEN waited[c] + 1 ELSE waited[c]]
    /\ UNCHANGED <<server, once, stopping, queue, current, got,
                   stage, plan, sent, answer, closed, behind, outcome>>

Next ==
    \/ \E c \in Clients : Connect(c) \/ ConnectRefused(c) \/ QueryStep(c) \/ Leave(c)
    \/ Signal \/ ServiceStep \/ End \/ AcceptFails \/ Tick

Spec == Init /\ [][Next]_vars

\* The service and its clock do not stop, nor does a client that has asked.
Fairness ==
    /\ WF_vars(ServiceStep) /\ WF_vars(End) /\ WF_vars(Tick)
    /\ \A c \in Queries : WF_vars(QueryStep(c))

FairSpec == Spec /\ Fairness

-----------------------------------------------------------------------------
\* However a frame arrives, a request is dispatched only when it has arrived
\* whole, within the limit, from the allowed peer; the response is the one to
\* this request, and a rejection goes to nobody but a peer that is not allowed.
RepliesDeserved ==
    \A c \in Clients :
        /\ answer[c] \in {"status", "unsupported"} =>
            /\ plan[c].allowed /\ plan[c].length \in 1 .. MaxFrame
            /\ sent[c] = FrameBytes(c) /\ answer[c] = Response(plan[c])
        /\ answer[c] = "rejected" => ~plan[c].allowed

\* A client that finds nobody ahead of it gets its status, whoever comes after
\* it, unless the daemon ends: only the connections ahead can make it give up.
FirstIsServed ==
    \A c \in Queries :
        stage[c] = "done" /\ plan[c].allowed /\ ~behind[c] =>
            outcome[c] = "status" \/ server = "down"

\* However slowly a client sends, its connection keeps the others waiting for a
\* bounded time: one timeout for each byte of a frame, and one for a signal.
HoldBounded ==
    held <= Timeout * (HeaderBytes + MaxFrame) + (IF stopping THEN Timeout ELSE 0)

\* A signal ends the daemon, although clients go on to connect and to send one
\* byte at a time.
Stops == stopping ~> server = "down"

\* Every connection ends: it is answered or dropped, whatever its client does
\* and whoever is ahead of it.
ConnectionEnds == \A c \in Clients : stage[c] = "sending" ~> closed[c]

\* A query from a peer that is not allowed ends in a protocol error, as
\* tests/daemon.rs:91 asserts of query_daemon_status.
RejectionIsProtocol ==
    \A c \in Queries :
        stage[c] = "done" /\ ~plan[c].allowed /\ server # "down" =>
            outcome[c] \in {"rejected", "ended", "timeout"}
=============================================================================
