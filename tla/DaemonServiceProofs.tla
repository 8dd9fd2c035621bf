------------------------ MODULE DaemonServiceProofs ------------------------
(***************************************************************************)
(* Theorems about DaemonService, for any clients, sizes and timeouts.      *)
(***************************************************************************)
EXTENDS DaemonService, SequenceTheorems, TLAPS

\* An open connection is either served or waits in the backlog, once.
LineInv ==
    /\ current # None => ~closed[current]
    /\ \A i \in 1 .. Len(queue) : ~closed[queue[i]] /\ queue[i] # current
    /\ \A i, j \in 1 .. Len(queue) : queue[i] = queue[j] => i = j

\* The converse of the line: an open connection is in somebody's hands, and the
\* backlog keeps to its length.
Waits(c) == \E i \in 1 .. Len(queue) : queue[i] = c

NobodyForgotten ==
    /\ Len(queue) <= Backlog
    /\ \A c \in Clients : ~closed[c] => server # "down" /\ (current = c \/ Waits(c))

\* What query_daemon_status returns is what the daemon made of its request.
OutcomesDeserved ==
    \A c \in Queries : stage[c] = "done" =>
        /\ outcome[c] = "status" => plan[c].allowed /\ sent[c] = FrameBytes(c)
        /\ outcome[c] = "rejected" => ~plan[c].allowed
        /\ outcome[c] = "timeout" => sent[c] = FrameBytes(c)
        /\ outcome[c] = "refused" => server = "down"
        /\ outcome[c] \notin {"none", "unsupported"}

\* What the clients have sent, and how far a query is.
SentInv ==
    \A c \in Clients :
        /\ sent[c] <= FrameBytes(c)
        /\ ~closed[c] => answer[c] = "none"
        /\ IF stage[c] = "reading" THEN c \in Queries ELSE waited[c] = 0
        /\ c \in Queries /\ stage[c] = "sending" => sent[c] \in {0, HeaderBytes}
        /\ c \in Queries /\ stage[c] = "reading" => sent[c] = FrameBytes(c)

\* What the service has read, and what it has checked by then.
ServedInv ==
    /\ server = "reject" => ~plan[current].allowed
    /\ server \in {"head", "body"} =>
        /\ plan[current].allowed
        /\ got <= sent[current] /\ got <= Wanted
        /\ got = Wanted => wait = 0
    /\ server = "body" => plan[current].length \in 1 .. MaxFrame
    /\ server \notin {"head", "body"} => got = 0 /\ wait = 0 /\ held = 0

\* The time n reads may take.
Span(n) == Timeout * n

\* The connection has been open for no longer than its reads have waited.
HeldInv == held <= Span(got) + wait + (IF stopping THEN Timeout ELSE 0)

\* A query that found nobody ahead of it stays the first in line, without
\* waiting, until it has its answer.
FirstInLine(c) ==
    IF closed[c]
    THEN stage[c] = "reading" /\ answer[c] = "status"
    ELSE /\ waited[c] = 0
         /\ \/ current = c /\ wait = 0
            \/ current = None /\ queue # << >> /\ queue[1] = c

FirstInv ==
    \A c \in Queries :
        /\ plan[c].allowed /\ ~behind[c] /\ server # "down"
        /\ stage[c] \in {"sending", "reading"}
        => FirstInLine(c)

IInv ==
    /\ TypeOK /\ LineInv /\ SentInv /\ ServedInv /\ HeldInv
    /\ FirstInv /\ RepliesDeserved /\ FirstIsServed

\* Why a connection is closed with r, and why a client returns r.
Earned(r) ==
    \/ server = "reject" /\ r = "rejected"
    \/ server = "body" /\ got = Wanted /\ r = Response(plan[current])
    \/ server = "head" /\ ~LengthFits(plan[current].length) /\ r = "none"
    \/ Reading /\ NoInput /\ (InputEnds \/ TimesOut) /\ r = "none"

Cause(c, r) ==
    \/ c \in Others
    \/ r = "refused" /\ server = "down"
    \/ r = "unsent"  /\ stage[c] = "sending" /\ closed[c]
    \/ r = answer[c] /\ stage[c] = "reading" /\ r # "none"
    \/ r = "ended"   /\ stage[c] = "reading" /\ answer[c] = "none" /\ closed[c]
    \/ r = "timeout" /\ stage[c] = "reading" /\ ~closed[c] /\ waited[c] = Timeout

Outcomes == Responses \cup {"refused", "unsent", "ended", "timeout"}

-----------------------------------------------------------------------------
LEMMA SpanNext ==
    /\ Span(0) = 0
    /\ \A n \in Nat : Span(n) \in Nat /\ Span(n + 1) = Span(n) + Timeout
    /\ \A m, n \in Nat : m <= n => Span(m) <= Span(n)
<1>1. Timeout \in Nat
  BY SizeAssumption
<1>2. \A n \in Nat : Span(n) \in Nat /\ Span(n + 1) = Span(n) + Timeout
  BY <1>1 DEF Span
<1>3. ASSUME NEW m \in Nat, NEW n \in Nat, m <= n PROVE Span(m) <= Span(n)
  <2>1. PICK k \in Nat : n = m + k
    <3>1. n - m \in Nat /\ n = m + (n - m)
      BY <1>3
    <3> QED BY <3>1
  <2>2. Span(n) = Span(m) + Timeout * k /\ Timeout * k \in Nat /\ Span(m) \in Nat
    BY <1>1, <2>1 DEF Span
  <2> QED BY <2>2
<1> QED BY <1>1, <1>2, <1>3 DEF Span

\* The numbers in play.
LEMMA Sizes ==
    ASSUME TypeOK
    PROVE  /\ \A c \in Clients : /\ plan[c] \in Plan /\ plan[c].length \in Nat
                                 /\ FrameBytes(c) \in Nat /\ HeaderBytes <= FrameBytes(c)
                                 /\ sent[c] \in Nat
           /\ \A c \in Queries : /\ c \in Clients /\ plan[c].length \in 1 .. MaxFrame
                                 /\ plan[c].body = "status"
                                 /\ HeaderBytes < FrameBytes(c)
           /\ HeaderBytes \in Nat /\ HeaderBytes > 0 /\ MaxFrame \in Nat /\ MaxFrame > 0
           /\ Timeout \in Nat /\ Timeout > 0
           /\ got \in Nat /\ wait \in Nat /\ held \in Nat
<1>1. /\ HeaderBytes \in Nat /\ HeaderBytes > 0 /\ MaxFrame \in Nat /\ MaxFrame > 0
      /\ Timeout \in Nat /\ Timeout > 0
  BY SizeAssumption
<1>2. ASSUME NEW c \in Clients
      PROVE  /\ plan[c] \in Plan /\ plan[c].length \in Nat /\ FrameBytes(c) \in Nat
             /\ HeaderBytes <= FrameBytes(c) /\ sent[c] \in Nat
  <2>1. plan[c] \in Plan /\ sent[c] \in Nat
    BY DEF TypeOK
  <2>2. plan[c].length \in Nat
    BY <1>1, <2>1 DEF Plan
  <2> QED BY <1>1, <2>1, <2>2 DEF FrameBytes
<1>3. ASSUME NEW c \in Queries
      PROVE  /\ c \in Clients /\ plan[c].length \in 1 .. MaxFrame /\ plan[c].body = "status"
             /\ HeaderBytes < FrameBytes(c)
  <2>1. plan[c] \in QueryPlan /\ c \in Clients
    BY DEF TypeOK, Clients
  <2>2. plan[c].length \in 1 .. MaxFrame /\ plan[c].body = "status"
    BY <2>1 DEF QueryPlan
  <2> QED BY <1>1, <2>1, <2>2 DEF FrameBytes
<1>4. got \in Nat /\ wait \in Nat /\ held \in Nat
  BY <1>1 DEF TypeOK
<1> QED BY <1>1, <1>2, <1>3, <1>4

\* The client that is served.
LEMMA Current ==
    ASSUME TypeOK, server \in {"reject", "head", "body"}
    PROVE  current \in Clients /\ current # None
BY DEF TypeOK

\* Every step is one of these.
LEMMA Kinds ==
    ASSUME TypeOK, [Next]_vars
    PROVE  \/ \E c \in Clients : Connect(c)
           \/ \E c \in Clients, r \in Outcomes : Return(c, r) /\ Cause(c, r)
           \/ \E c \in Clients : Send(c)
           \/ Signal \/ Accept \/ Receive \/ GoodLength \/ Tick
           \/ server \in {"reject", "head", "body"} /\ \E r \in Responses : Close(r) /\ Earned(r)
           \/ server \in {"accept", "end"} /\ Down
           \/ UNCHANGED vars
<1>1. ASSUME NEW c \in Clients,
             ConnectRefused(c) \/ SendFails(c) \/ TakeAnswer(c) \/ MeetEnd(c)
               \/ GiveUp(c) \/ Leave(c)
      PROVE  \E r \in Outcomes : Return(c, r) /\ Cause(c, r)
  <2>1. answer[c] \in Outcomes /\ {"refused", "unsent", "ended", "timeout", "none"} \subseteq Outcomes
    BY DEF TypeOK, Outcomes, Responses
  <2> QED BY <1>1, <2>1 DEF ConnectRefused, SendFails, TakeAnswer, MeetEnd, GiveUp, Leave,
          Cause
<1>2. ASSUME RejectPeer \/ EndOfInput \/ ReadTimeout \/ BadLength \/ Dispatch
      PROVE  server \in {"reject", "head", "body"} /\ \E r \in Responses : Close(r) /\ Earned(r)
  <2>1. ASSUME Dispatch PROVE Response(plan[current]) \in Responses
    <3>1. plan[current].body \in {"status", "version", "junk"}
      BY <2>1, Current, Sizes DEF Dispatch, Plan
    <3> QED BY <3>1 DEF Response, Responses
  <2>2. "rejected" \in Responses /\ "none" \in Responses
    BY DEF Responses
  <2> QED BY <1>2, <2>1, <2>2 DEF RejectPeer, EndOfInput, ReadTimeout, BadLength, Dispatch,
          Reading, HeaderRead, Earned
<1>3. ASSUME End \/ AcceptFails PROVE server \in {"accept", "end"} /\ Down
  BY <1>3 DEF End, AcceptFails, GoesOn
<1> QED BY <1>1, <1>2, <1>3 DEF Next, QueryStep, ServiceStep

-----------------------------------------------------------------------------
\* Types.
LEMMA TypeStep ==
    ASSUME TypeOK, ServedInv, SentInv, [Next]_vars
    PROVE  TypeOK'
<1>1. ASSUME NEW c \in Clients, Connect(c) PROVE TypeOK'
  <2>1. plan' \in [Clients -> Plan] /\ \A q \in Queries : plan'[q] \in QueryPlan
    <3>1. PICK p \in (IF c \in Queries THEN QueryPlan ELSE OtherPlans) :
            plan' = [plan EXCEPT ![c] = p]
      BY <1>1 DEF Connect
    <3>2. p \in Plan /\ (c \in Queries => p \in QueryPlan)
      BY PlanAssumption DEF QueryPlan
    <3> QED BY <3>1, <3>2 DEF TypeOK, Clients
  <2>2. queue' \in Seq(Clients)
    BY <1>1, AppendProperties DEF TypeOK, Connect
  <2> QED BY <1>1, <2>1, <2>2 DEF TypeOK, Connect, Responses
<1>2. ASSUME NEW c \in Clients, NEW r \in Outcomes, Return(c, r), Cause(c, r) PROVE TypeOK'
  BY <1>2, Sizes DEF TypeOK, Signal, GoodLength, Return, Outcomes, vars, service, clients
<1>3. ASSUME NEW c \in Clients, Send(c) PROVE TypeOK'
  <2>1. PICK n \in Pieces(c) : sent' = [sent EXCEPT ![c] = @ + n]
    BY <1>3 DEF Send
  <2>2. n \in Nat
    BY <1>3, <2>1, Sizes DEF Pieces, Send
  <2>3. sent' \in [Clients -> Nat]
    BY <2>1, <2>2 DEF TypeOK
  <2>4. stage' \in [Clients -> {"idle", "sending", "reading", "done"}]
    BY <1>3 DEF TypeOK, Send
  <2> QED BY <1>3, <2>3, <2>4 DEF TypeOK, Send, service
<1>4. ASSUME Signal PROVE TypeOK'
  BY <1>4, Sizes DEF TypeOK, Signal, GoodLength, Return, Outcomes, vars, service, clients
<1>5. ASSUME Accept PROVE TypeOK'
  <2>1. Head(queue) \in Clients /\ Tail(queue) \in Seq(Clients)
    BY <1>5, HeadTailProperties DEF TypeOK, Accept
  <2>2. Head(queue) # None
    BY <2>1, ClientAssumption
  <2> QED BY <1>5, <2>1, <2>2 DEF TypeOK, Accept, clients
<1>6. ASSUME Receive PROVE TypeOK'
  <2>1. current \in Clients
    BY <1>6, Current DEF Receive, Reading
  <2>2. got' \in 0 .. HeaderBytes + MaxFrame
    <3>1. Wanted \in Nat /\ Wanted <= HeaderBytes + MaxFrame
      <4>1. CASE server = "head"
        BY <4>1, Sizes DEF Wanted
      <4>2. CASE server # "head"
        <5>1. plan[current].length \in 1 .. MaxFrame
          BY <1>6, <4>2 DEF Receive, Reading, ServedInv
        <5> QED BY <2>1, <4>2, <5>1, Sizes DEF Wanted, FrameBytes
      <4> QED BY <4>1, <4>2
    <3> QED BY <1>6, <2>1, <3>1, Sizes DEF Receive
  <2>3. wait' \in 0 .. Timeout
    BY <1>6, Sizes DEF Receive
  <2>4. UNCHANGED <<server, once, stopping, queue, current, held, clients>>
    BY <1>6 DEF Receive
  <2> QED BY <2>2, <2>3, <2>4 DEF TypeOK, clients
<1>7. ASSUME GoodLength PROVE TypeOK'
  <2>1. server = "head" /\ current # None
    BY <1>7, Current DEF GoodLength, HeaderRead
  <2>2. server' = "body" /\ UNCHANGED <<once, stopping, queue, current, got, wait, held, clients>>
    BY <1>7 DEF GoodLength
  <2> QED BY <2>1, <2>2 DEF TypeOK, clients
<1>8. ASSUME Tick PROVE TypeOK'
  <2>1. wait' \in 0 .. Timeout /\ held' \in Nat
    BY <1>8, Sizes DEF Tick
  <2>2. waited' \in [Clients -> 0 .. Timeout]
    <3>1. ASSUME NEW c \in Clients PROVE waited'[c] \in 0 .. Timeout
      <4>1. CASE InRead(c)
        <5>1. c \in Queries
          BY <4>1 DEF InRead, SentInv
        <5> QED BY <1>8, <4>1, <5>1, Sizes DEF Tick, InRead, TypeOK
      <4>2. CASE ~InRead(c)
        BY <1>8, <4>2 DEF Tick, TypeOK
      <4> QED BY <4>1, <4>2
    <3> QED BY <1>8, <3>1 DEF Tick
  <2> QED BY <1>8, <2>1, <2>2 DEF TypeOK, Tick
<1>9. ASSUME server \in {"reject", "head", "body"}, NEW r \in Responses, Close(r), Earned(r) PROVE TypeOK'
  <2>1. current \in Clients
    BY <1>9, Current
  <2> QED BY <1>9, <2>1, Sizes DEF TypeOK, Close
<1>10. ASSUME server \in {"accept", "end"}, Down PROVE TypeOK'
  <2>1. << >> \in Seq(Clients)
    OBVIOUS
  <2> QED BY <1>10, <2>1 DEF TypeOK, Down
<1>11. ASSUME UNCHANGED vars PROVE TypeOK'
  BY <1>11, Sizes DEF TypeOK, Signal, GoodLength, Return, Outcomes, vars, service, clients
<1> QED BY <1>1, <1>2, <1>3, <1>4, <1>5, <1>6, <1>7, <1>8, <1>9, <1>10, <1>11, Kinds

\* The line.
LEMMA LineStep ==
    ASSUME TypeOK, LineInv, [Next]_vars
    PROVE  LineInv'
<1>1. ASSUME NEW c \in Clients, Connect(c) PROVE LineInv'
  <2>1. /\ Len(queue') = Len(queue) + 1 /\ Len(queue) \in Nat
        /\ \A i \in 1 .. Len(queue) : queue'[i] = queue[i]
        /\ queue'[Len(queue) + 1] = c
    BY <1>1, AppendProperties DEF TypeOK, Connect
  <2>2. closed[c] /\ ~closed'[c] /\ current' = current
        /\ \A d \in Clients : closed'[d] => closed[d]
    BY <1>1 DEF TypeOK, Connect, Away
  <2>3. \A i \in 1 .. Len(queue) : queue[i] \in Clients /\ queue[i] # c
    BY <2>2, ElementOfSeq DEF LineInv, TypeOK
  <2>4. \A i \in 1 .. Len(queue') : i \in 1 .. Len(queue) \/ i = Len(queue) + 1
    BY <2>1
  <2>5. current # None => ~closed'[current] /\ current # c
    BY <2>2 DEF LineInv, TypeOK
  <2>6. \A i \in 1 .. Len(queue') : ~closed'[queue'[i]] /\ queue'[i] # current'
    <3>1. current # c
      BY <2>2, <2>5, ClientAssumption
    <3> QED BY <2>1, <2>2, <2>3, <2>4, <3>1 DEF LineInv
  <2>7. \A i, j \in 1 .. Len(queue') : queue'[i] = queue'[j] => i = j
    BY <2>1, <2>3, <2>4 DEF LineInv
  <2> QED BY <2>2, <2>5, <2>6, <2>7 DEF LineInv
<1>2. ASSUME NEW c \in Clients, NEW r \in Outcomes, Return(c, r), Cause(c, r) PROVE LineInv'
  BY <1>2 DEF LineInv, Return, Send, Signal, Receive, GoodLength, Tick, vars, service, clients
<1>3. ASSUME NEW c \in Clients, Send(c) PROVE LineInv'
  BY <1>3 DEF LineInv, Return, Send, Signal, Receive, GoodLength, Tick, vars, service, clients
<1>4. ASSUME Signal PROVE LineInv'
  BY <1>4 DEF LineInv, Return, Send, Signal, Receive, GoodLength, Tick, vars, service, clients
<1>5. ASSUME Accept PROVE LineInv'
  <2>1. /\ Len(queue') = Len(queue) - 1 /\ Len(queue) \in Nat /\ Len(queue) > 0
        /\ \A i \in 1 .. Len(queue') : queue'[i] = queue[i + 1]
        /\ current' = queue[1] /\ UNCHANGED closed
    BY <1>5, HeadTailProperties, EmptySeq DEF TypeOK, Accept, clients
  <2>2. \A i \in 1 .. Len(queue') : i + 1 \in 1 .. Len(queue) /\ i + 1 # 1
    BY <2>1
  <2>3. 1 \in 1 .. Len(queue)
    BY <2>1
  <2>4. \A i \in 1 .. Len(queue') : queue'[i] # current'
    BY <2>1, <2>2, <2>3 DEF LineInv
  <2>5. \A i, j \in 1 .. Len(queue') : queue'[i] = queue'[j] => i = j
    <3> SUFFICES ASSUME NEW i \in 1 .. Len(queue'), NEW j \in 1 .. Len(queue'),
                        queue'[i] = queue'[j]
                 PROVE  i = j
      OBVIOUS
    <3>1. i + 1 = j + 1
      BY <2>1, <2>2 DEF LineInv
    <3> QED BY <2>1, <3>1
  <2> QED BY <2>1, <2>2, <2>3, <2>4, <2>5 DEF LineInv
<1>6. ASSUME Receive PROVE LineInv'
  BY <1>6 DEF LineInv, Return, Send, Signal, Receive, GoodLength, Tick, vars, service, clients
<1>7. ASSUME GoodLength PROVE LineInv'
  BY <1>7 DEF LineInv, Return, Send, Signal, Receive, GoodLength, Tick, vars, service, clients
<1>8. ASSUME Tick PROVE LineInv'
  BY <1>8 DEF LineInv, Return, Send, Signal, Receive, GoodLength, Tick, vars, service, clients
<1>9. ASSUME server \in {"reject", "head", "body"}, NEW r \in Responses, Close(r), Earned(r) PROVE LineInv'
  <2>1. current \in Clients /\ current # None
    BY <1>9, Current
  <2>2. \A i \in 1 .. Len(queue) : queue[i] \in Clients /\ queue[i] # current /\ queue[i] # None
    BY ElementOfSeq, ClientAssumption DEF TypeOK, LineInv
  <2>3. /\ current' = None /\ queue' = queue
        /\ \A c \in Clients : c # current => closed'[c] = closed[c]
    BY <1>9 DEF Close, TypeOK
  <2> QED BY <2>1, <2>2, <2>3 DEF LineInv
<1>10. ASSUME server \in {"accept", "end"}, Down PROVE LineInv'
  <2>1. current = None /\ current' = None /\ queue' = << >>
    BY <1>10 DEF TypeOK, Down
  <2>2. Len(queue') = 0 /\ 1 .. 0 = {}
    BY <2>1
  <2> QED BY <2>1, <2>2 DEF LineInv
<1>11. ASSUME UNCHANGED vars PROVE LineInv'
  BY <1>11 DEF LineInv, Return, Send, Signal, Receive, GoodLength, Tick, vars, service, clients
<1> QED BY <1>1, <1>2, <1>3, <1>4, <1>5, <1>6, <1>7, <1>8, <1>9, <1>10, <1>11, Kinds

\* What has been sent.
LEMMA SentStep ==
    ASSUME TypeOK, TypeOK', SentInv, [Next]_vars
    PROVE  SentInv'
<1>1. ASSUME NEW c \in Clients, Connect(c) PROVE SentInv'
  <2>1. /\ sent' = [sent EXCEPT ![c] = 0] /\ answer' = [answer EXCEPT ![c] = "none"]
        /\ stage' = [stage EXCEPT ![c] = "sending"] /\ closed' = [closed EXCEPT ![c] = FALSE]
        /\ \A d \in Clients : d # c => plan'[d] = plan[d]
    BY <1>1 DEF Connect, TypeOK
  <2>2. plan'[c].length \in Nat /\ HeaderBytes \in Nat
    <3>1. plan'[c] \in Plan
      BY DEF TypeOK
    <3> QED BY <3>1, SizeAssumption DEF Plan
  <2>3. ASSUME NEW d \in Clients, d # c
        PROVE  /\ sent'[d] = sent[d] /\ answer'[d] = answer[d] /\ stage'[d] = stage[d]
               /\ closed'[d] = closed[d] /\ plan'[d] = plan[d]
    BY <2>1, <2>3 DEF TypeOK
  <2>4. /\ sent'[c] = 0 /\ answer'[c] = "none" /\ stage'[c] = "sending"
        /\ 0 <= HeaderBytes + plan'[c].length /\ waited' = waited /\ waited[c] = 0
    BY <1>1, <2>1, <2>2 DEF TypeOK, SentInv, Connect, Away
  <2> QED BY <2>3, <2>4 DEF SentInv, FrameBytes
<1>2. ASSUME NEW c \in Clients, NEW r \in Outcomes, Return(c, r), Cause(c, r) PROVE SentInv'
  BY <1>2 DEF SentInv, FrameBytes, Return, TypeOK
<1>3. ASSUME NEW c \in Clients, Send(c) PROVE SentInv'
  <2>1. PICK n \in Pieces(c) : sent' = [sent EXCEPT ![c] = @ + n]
    BY <1>3 DEF Send
  <2>2. sent'[c] = sent[c] + n /\ UNCHANGED <<plan, answer, closed, waited>>
    BY <1>3, <2>1 DEF Send, TypeOK
  <2>3. sent'[c] <= FrameBytes(c)
    BY <1>3, <2>1, <2>2, Sizes DEF Pieces, Send
  <2>4. CASE c \notin Queries
    BY <1>3, <2>1, <2>2, <2>3, <2>4 DEF SentInv, FrameBytes, Send, TypeOK
  <2>5. CASE c \in Queries
    <3>1. c \notin Others /\ n = IF sent[c] = 0 THEN HeaderBytes ELSE FrameBytes(c) - sent[c]
      BY <2>1, <2>5, ClientAssumption DEF Pieces
    <3>2. /\ sent'[c] = HeaderBytes \/ sent'[c] = FrameBytes(c)
      BY <2>2, <2>5, <3>1, Sizes
    <3>3. /\ stage'[c] = "sending" => sent'[c] = HeaderBytes
          /\ stage'[c] = "reading" => sent'[c] = FrameBytes(c)
      BY <1>3, <2>5, <3>2 DEF Send, TypeOK
    <3>4. \A d \in Clients : d # c => stage'[d] = stage[d] /\ sent'[d] = sent[d]
      BY <1>3, <2>1 DEF Send, TypeOK
    <3>5. stage'[c] \in {"sending", "reading"}
      BY <1>3 DEF Send, TypeOK
    <3> QED BY <1>3, <2>2, <2>3, <2>5, <3>3, <3>4, <3>5 DEF SentInv, FrameBytes, Send
  <2> QED BY <2>4, <2>5
<1>4. ASSUME Signal PROVE SentInv'
  BY <1>4 DEF SentInv, FrameBytes, Signal, Accept, Receive, GoodLength, Tick, vars, service, clients
<1>5. ASSUME Accept PROVE SentInv'
  BY <1>5 DEF SentInv, FrameBytes, Signal, Accept, Receive, GoodLength, Tick, vars, service, clients
<1>6. ASSUME Receive PROVE SentInv'
  BY <1>6 DEF SentInv, FrameBytes, Signal, Accept, Receive, GoodLength, Tick, vars, service, clients
<1>7. ASSUME GoodLength PROVE SentInv'
  BY <1>7 DEF SentInv, FrameBytes, Signal, Accept, Receive, GoodLength, Tick, vars, service, clients
<1>8. ASSUME Tick PROVE SentInv'
  <2>1. UNCHANGED <<stage, plan, sent, answer, closed>>
        /\ \A c \in Clients : stage[c] # "reading" => waited'[c] = waited[c]
    BY <1>8 DEF Tick, InRead
  <2> QED BY <2>1 DEF SentInv, FrameBytes
<1>9. ASSUME server \in {"reject", "head", "body"}, NEW r \in Responses, Close(r), Earned(r) PROVE SentInv'
  <2>1. current \in Clients
    BY <1>9, Current
  <2> QED BY <1>9, <2>1 DEF SentInv, FrameBytes, Close, TypeOK
<1>10. ASSUME server \in {"accept", "end"}, Down PROVE SentInv'
  BY <1>10 DEF SentInv, FrameBytes, Down
<1>11. ASSUME UNCHANGED vars PROVE SentInv'
  BY <1>11 DEF SentInv, FrameBytes, Signal, Accept, Receive, GoodLength, Tick, vars, service, clients
<1> QED BY <1>1, <1>2, <1>3, <1>4, <1>5, <1>6, <1>7, <1>8, <1>9, <1>10, <1>11, Kinds

\* What the service has read and checked.
LEMMA ServedStep ==
    ASSUME TypeOK, TypeOK', LineInv, SentInv, ServedInv, [Next]_vars
    PROVE  ServedInv'
<1>1. ASSUME NEW c \in Clients, Connect(c) PROVE ServedInv'
  <2>1. UNCHANGED <<server, current, got, wait, held>>
    BY <1>1 DEF Connect
  <2>2. current # None => plan'[current] = plan[current] /\ sent'[current] = sent[current]
    BY <1>1 DEF Connect, Away, LineInv, TypeOK
  <2>3. server \in {"reject", "head", "body"} => current # None
    BY Current
  <2> QED BY <2>1, <2>2, <2>3 DEF ServedInv, Wanted, FrameBytes
<1>2. ASSUME NEW c \in Clients, NEW r \in Outcomes, Return(c, r), Cause(c, r) PROVE ServedInv'
  BY <1>2 DEF ServedInv, Wanted, FrameBytes, Return, vars, service, clients
<1>3. ASSUME NEW c \in Clients, Send(c) PROVE ServedInv'
  <2>1. PICK n \in Pieces(c) : sent' = [sent EXCEPT ![c] = @ + n]
    BY <1>3 DEF Send
  <2>2. n \in Nat
    BY <1>3, <2>1, Sizes DEF Pieces, Send
  <2>3. \A d \in Clients : sent'[d] >= sent[d]
    <3> SUFFICES ASSUME NEW d \in Clients PROVE sent'[d] >= sent[d]
      OBVIOUS
    <3>1. sent'[d] = sent[d] \/ sent'[d] = sent[d] + n
      BY <2>1 DEF TypeOK
    <3>2. sent[d] \in Nat
      BY Sizes
    <3> QED BY <2>2, <3>1, <3>2
  <2>4. server \in {"head", "body"} => got <= sent'[current]
    <3> SUFFICES ASSUME server \in {"head", "body"} PROVE got <= sent'[current]
      OBVIOUS
    <3>1. current \in Clients
      BY Current
    <3>2. got <= sent[current] /\ got \in Nat /\ sent[current] \in Nat /\ sent'[current] \in Nat
      BY <3>1, Sizes DEF ServedInv, TypeOK
    <3> QED BY <2>3, <3>1, <3>2
  <2> QED BY <1>3, <2>4 DEF ServedInv, Wanted, FrameBytes, Send, service
<1>4. ASSUME Signal PROVE ServedInv'
  BY <1>4 DEF ServedInv, Wanted, FrameBytes, Signal, clients
<1>5. ASSUME Accept PROVE ServedInv'
  <2>1. current' = Head(queue) /\ Head(queue) \in Clients
    BY <1>5, HeadTailProperties DEF TypeOK, Accept
  <2>2. got = 0 /\ wait = 0 /\ held = 0
    BY <1>5 DEF ServedInv, Accept, GoesOn
  <2>3. UNCHANGED <<got, wait, held, plan, sent>> /\ server' \in {"head", "reject"}
        /\ (server' = "head" <=> plan[current'].allowed)
    BY <1>5, <2>1 DEF Accept, clients, TypeOK, Plan
  <2>4. 0 <= sent[current'] /\ 0 <= HeaderBytes
    BY <2>1, Sizes
  <2> QED BY <2>2, <2>3, <2>4 DEF ServedInv, Wanted
<1>6. ASSUME Receive PROVE ServedInv'
  <2>1. current \in Clients /\ sent[current] \in Nat /\ Wanted \in Nat
    BY <1>6, Current, Sizes DEF Receive, Reading, Wanted
  <2>2. got' <= sent[current] /\ got' <= Wanted /\ wait' = 0
    BY <1>6, <2>1 DEF Receive
  <2>3. UNCHANGED <<server, current, held, plan, sent>> /\ Wanted' = Wanted
    BY <1>6 DEF Receive, clients, Wanted, FrameBytes
  <2> QED BY <1>6, <2>2, <2>3 DEF ServedInv, Receive, Reading
<1>7. ASSUME GoodLength PROVE ServedInv'
  <2>1. server = "head" /\ server' = "body" /\ UNCHANGED <<current, got, wait, plan, sent>>
    BY <1>7 DEF GoodLength, HeaderRead, clients
  <2>2. plan[current].length \in 1 .. MaxFrame /\ got = HeaderBytes /\ got <= sent[current]
    BY <1>7, <2>1 DEF GoodLength, HeaderRead, LengthFits, Wanted, ServedInv
  <2>3. HeaderBytes < FrameBytes(current)
    BY <2>2, Sizes DEF FrameBytes
  <2>4. Wanted' = FrameBytes(current) /\ got' = HeaderBytes
    BY <2>1, <2>2 DEF Wanted, FrameBytes
  <2>5. FrameBytes(current) \in Nat /\ HeaderBytes \in Nat
    BY <2>1, Current, Sizes
  <2> QED BY <2>1, <2>2, <2>3, <2>4, <2>5 DEF ServedInv
<1>8. ASSUME Tick PROVE ServedInv'
  <2>1. /\ UNCHANGED <<server, current, got, plan, sent>> /\ got < Wanted
        /\ server \in {"head", "body"}
    BY <1>8 DEF Tick, Reading
  <2>2. Wanted' = Wanted /\ Wanted \in Nat /\ got \in Nat
    BY <2>1, Current, Sizes DEF Wanted, FrameBytes
  <2> QED BY <2>1, <2>2 DEF ServedInv
<1>9. ASSUME server \in {"reject", "head", "body"}, NEW r \in Responses, Close(r), Earned(r) PROVE ServedInv'
  BY <1>9 DEF ServedInv, Close
<1>10. ASSUME server \in {"accept", "end"}, Down PROVE ServedInv'
  BY <1>10 DEF ServedInv, Down
<1>11. ASSUME UNCHANGED vars PROVE ServedInv'
  BY <1>11 DEF ServedInv, Wanted, FrameBytes, Return, vars, service, clients
<1> QED BY <1>1, <1>2, <1>3, <1>4, <1>5, <1>6, <1>7, <1>8, <1>9, <1>10, <1>11, Kinds

\* Time spent on a connection is covered by its reads.
LEMMA HeldStep ==
    ASSUME TypeOK, TypeOK', ServedInv, HeldInv, [Next]_vars
    PROVE  HeldInv'
<1>1. ASSUME NEW c \in Clients, Connect(c) PROVE HeldInv'
  BY <1>1 DEF HeldInv, Span, Connect, Return, Send, Accept, GoodLength, vars, service, clients
<1>2. ASSUME NEW c \in Clients, NEW r \in Outcomes, Return(c, r), Cause(c, r) PROVE HeldInv'
  BY <1>2 DEF HeldInv, Span, Connect, Return, Send, Accept, GoodLength, vars, service, clients
<1>3. ASSUME NEW c \in Clients, Send(c) PROVE HeldInv'
  BY <1>3 DEF HeldInv, Span, Connect, Return, Send, Accept, GoodLength, vars, service, clients
<1>4. ASSUME Signal PROVE HeldInv'
  <2>1. /\ held' = held /\ got' = got /\ wait' = 0 /\ stopping' = TRUE /\ stopping = FALSE
        /\ Span(got) \in Nat /\ wait \in 0 .. Timeout /\ held \in Nat /\ Timeout \in Nat
    BY <1>4, Sizes, SpanNext DEF Signal, TypeOK
  <2>2. held <= Span(got) + wait + 0
    BY <2>1 DEF HeldInv
  <2>3. held' <= Span(got') + wait' + Timeout
    BY <2>1, <2>2
  <2> QED BY <2>1, <2>3 DEF HeldInv
<1>5. ASSUME Accept PROVE HeldInv'
  BY <1>5 DEF HeldInv, Span, Connect, Return, Send, Accept, GoodLength, vars, service, clients
<1>6. ASSUME Receive PROVE HeldInv'
  <2> DEFINE extra == IF stopping THEN Timeout ELSE 0
  <2>1. current \in Clients /\ Wanted \in Nat /\ sent[current] \in Nat /\ got <= sent[current]
    BY <1>6, Current, Sizes DEF Receive, Reading, Wanted, ServedInv
  <2>2. got' \in Nat /\ got + 1 <= got' /\ wait' = 0 /\ held' = held /\ extra' = extra
    BY <1>6, <2>1, Sizes DEF Receive, Reading, NoInput
  <2>3. Span(got + 1) <= Span(got') /\ Span(got + 1) = Span(got) + Timeout
    BY <2>2, Sizes, SpanNext
  <2>4. /\ Span(got) \in Nat /\ Span(got') \in Nat /\ wait \in 0 .. Timeout /\ held \in Nat
        /\ Timeout \in Nat /\ extra \in Nat
    BY <2>2, Sizes, SpanNext DEF TypeOK
  <2>5. held <= Span(got) + wait + extra
    BY DEF HeldInv
  <2> HIDE DEF extra
  <2>6. held' <= Span(got') + wait' + extra'
    BY <2>2, <2>3, <2>4, <2>5
  <2> QED BY <2>6 DEF HeldInv, extra
<1>7. ASSUME GoodLength PROVE HeldInv'
  BY <1>7 DEF HeldInv, Span, Connect, Return, Send, Accept, GoodLength, vars, service, clients
<1>8. ASSUME Tick PROVE HeldInv'
  <2> DEFINE extra == IF stopping THEN Timeout ELSE 0
  <2>1. held' = held + 1 /\ wait' = wait + 1 /\ got' = got /\ extra' = extra
    BY <1>8 DEF Tick
  <2>2. Span(got) \in Nat /\ wait \in Nat /\ held \in Nat /\ extra \in Nat
    BY Sizes, SpanNext DEF TypeOK
  <2>3. held <= Span(got) + wait + extra
    BY DEF HeldInv
  <2> HIDE DEF extra
  <2>4. held' <= Span(got') + wait' + extra'
    BY <2>1, <2>2, <2>3
  <2> QED BY <2>4 DEF HeldInv, extra
<1>9. ASSUME server \in {"reject", "head", "body"}, NEW r \in Responses, Close(r), Earned(r) PROVE HeldInv'
  <2>1. held' = 0 /\ got' = 0 /\ wait' = 0 /\ Timeout \in Nat
    BY <1>9, Sizes DEF Close
  <2>2. Span(0) = 0
    BY SpanNext
  <2> QED BY <2>1, <2>2 DEF HeldInv
<1>10. ASSUME server \in {"accept", "end"}, Down PROVE HeldInv'
  BY <1>10 DEF HeldInv, Span, Down
<1>11. ASSUME UNCHANGED vars PROVE HeldInv'
  BY <1>11 DEF HeldInv, Span, Connect, Return, Send, Accept, GoodLength, vars, service, clients
<1> QED BY <1>1, <1>2, <1>3, <1>4, <1>5, <1>6, <1>7, <1>8, <1>9, <1>10, <1>11, Kinds

\* Only whole requests of the allowed peer are answered.
LEMMA RepliesStep ==
    ASSUME TypeOK, SentInv, ServedInv, RepliesDeserved, [Next]_vars
    PROVE  RepliesDeserved'
<1>1. ASSUME NEW c \in Clients, Connect(c) PROVE RepliesDeserved'
  <2>1. answer'[c] = "none"
    BY <1>1 DEF Connect, TypeOK
  <2>2. ASSUME NEW d \in Clients, d # c
        PROVE  answer'[d] = answer[d] /\ plan'[d] = plan[d] /\ sent'[d] = sent[d]
    BY <1>1, <2>2 DEF Connect, TypeOK
  <2> QED BY <2>1, <2>2 DEF RepliesDeserved, FrameBytes, Response
<1>2. ASSUME NEW c \in Clients, NEW r \in Outcomes, Return(c, r), Cause(c, r) PROVE RepliesDeserved'
  BY <1>2 DEF RepliesDeserved, FrameBytes, Response, Return, Signal, Accept, Receive, GoodLength,
     Tick, vars, service, clients
<1>3. ASSUME NEW c \in Clients, Send(c) PROVE RepliesDeserved'
  <2>1. answer[c] = "none" /\ UNCHANGED <<answer, plan>>
    BY <1>3 DEF Send, SentInv
  <2>2. ASSUME NEW d \in Clients, d # c PROVE sent'[d] = sent[d]
    BY <1>3, <2>2 DEF Send, TypeOK
  <2> QED BY <2>1, <2>2 DEF RepliesDeserved, FrameBytes, Response
<1>4. ASSUME Signal PROVE RepliesDeserved'
  BY <1>4 DEF RepliesDeserved, FrameBytes, Response, Return, Signal, Accept, Receive, GoodLength,
     Tick, vars, service, clients
<1>5. ASSUME Accept PROVE RepliesDeserved'
  BY <1>5 DEF RepliesDeserved, FrameBytes, Response, Return, Signal, Accept, Receive, GoodLength,
     Tick, vars, service, clients
<1>6. ASSUME Receive PROVE RepliesDeserved'
  BY <1>6 DEF RepliesDeserved, FrameBytes, Response, Return, Signal, Accept, Receive, GoodLength,
     Tick, vars, service, clients
<1>7. ASSUME GoodLength PROVE RepliesDeserved'
  BY <1>7 DEF RepliesDeserved, FrameBytes, Response, Return, Signal, Accept, Receive, GoodLength,
     Tick, vars, service, clients
<1>8. ASSUME Tick PROVE RepliesDeserved'
  BY <1>8 DEF RepliesDeserved, FrameBytes, Response, Return, Signal, Accept, Receive, GoodLength,
     Tick, vars, service, clients
<1>9. ASSUME server \in {"reject", "head", "body"}, NEW r \in Responses, Close(r), Earned(r) PROVE RepliesDeserved'
  <2>1. current \in Clients /\ UNCHANGED <<plan, sent>> /\ answer'[current] = r
        /\ \A d \in Clients : d # current => answer'[d] = answer[d]
    BY <1>9, Current DEF Close, TypeOK
  <2>2. CASE r = "none"
    BY <2>1, <2>2 DEF RepliesDeserved, FrameBytes, Response
  <2>3. CASE server = "reject" /\ r = "rejected"
    BY <2>1, <2>3 DEF RepliesDeserved, FrameBytes, Response, ServedInv
  <2>4. CASE server = "body" /\ got = Wanted /\ r = Response(plan[current])
    <3>1. sent[current] = FrameBytes(current)
      BY <2>1, <2>4, Sizes DEF ServedInv, SentInv, Wanted
    <3>2. plan[current].allowed /\ plan[current].length \in 1 .. MaxFrame
      BY <2>4 DEF ServedInv
    <3>3. r # "rejected"
      <4>1. plan[current].body \in {"status", "version", "junk"}
        BY <2>1, Sizes DEF Plan
      <4> QED BY <2>4, <4>1 DEF Response
    <3> QED BY <2>1, <2>4, <3>1, <3>2, <3>3 DEF RepliesDeserved, FrameBytes, Response
  <2> QED BY <1>9, <2>2, <2>3, <2>4 DEF Earned
<1>10. ASSUME server \in {"accept", "end"}, Down PROVE RepliesDeserved'
  BY <1>10 DEF RepliesDeserved, FrameBytes, Response, Down
<1>11. ASSUME UNCHANGED vars PROVE RepliesDeserved'
  BY <1>11 DEF RepliesDeserved, FrameBytes, Response, Return, Signal, Accept, Receive, GoodLength,
     Tick, vars, service, clients
<1> QED BY <1>1, <1>2, <1>3, <1>4, <1>5, <1>6, <1>7, <1>8, <1>9, <1>10, <1>11, Kinds

\* The first in line stays so until it is answered.
LEMMA FirstStep ==
    ASSUME TypeOK, TypeOK', LineInv, SentInv, ServedInv, FirstInv, [Next]_vars
    PROVE  FirstInv'
<1>1. ASSUME NEW c \in Clients, Connect(c) PROVE FirstInv'
  <2>1. /\ stage'[c] = "sending" /\ ~closed'[c] /\ waited' = waited /\ current' = current
        /\ wait' = wait /\ server' = server
        /\ behind'[c] = (current # None \/ queue # << >>)
    BY <1>1 DEF Connect, TypeOK
  <2>2. ASSUME NEW d \in Clients, d # c
        PROVE  /\ stage'[d] = stage[d] /\ closed'[d] = closed[d] /\ answer'[d] = answer[d]
               /\ plan'[d] = plan[d] /\ behind'[d] = behind[d]
    BY <1>1, <2>2 DEF Connect, TypeOK
  <2>3. /\ Len(queue') = Len(queue) + 1 /\ queue' # << >>
        /\ queue # << >> => queue'[1] = queue[1]
        /\ queue = << >> => queue'[1] = c
    BY <1>1, AppendProperties, EmptySeq DEF TypeOK, Connect
  <2>4. ~behind'[c] => FirstInLine(c)'
    <3> SUFFICES ASSUME ~behind'[c] PROVE FirstInLine(c)'
      OBVIOUS
    <3>1. current = None /\ queue = << >>
      BY <2>1
    <3>2. waited[c] = 0
      BY <1>1 DEF SentInv, Connect, Away
    <3>3. current' = None /\ queue' # << >> /\ queue'[1] = c /\ waited'[c] = 0
      BY <2>1, <2>3, <3>1, <3>2
    <3> QED BY <2>1, <3>3 DEF FirstInLine
  <2>5. ASSUME NEW d \in Clients, d # c, FirstInLine(d) PROVE FirstInLine(d)'
    BY <2>1, <2>2, <2>3, <2>5 DEF FirstInLine
  <2> QED BY <2>1, <2>2, <2>4, <2>5, Sizes DEF FirstInv
<1>2. ASSUME NEW c \in Clients, NEW r \in Outcomes, Return(c, r), Cause(c, r) PROVE FirstInv'
  <2>1. /\ stage'[c] = "done" /\ UNCHANGED <<service, plan, answer, closed, behind>>
        /\ \A d \in Clients : d # c => stage'[d] = stage[d] /\ waited'[d] = waited[d]
    BY <1>2 DEF Return, TypeOK
  <2> QED BY <2>1, Sizes DEF FirstInv, FirstInLine, service
<1>3. ASSUME NEW c \in Clients, Send(c) PROVE FirstInv'
  <2>1. UNCHANGED <<service, plan, answer, closed, behind, waited>>
    BY <1>3 DEF Send
  <2>2. stage[c] = "sending" /\ ~closed[c]
        /\ \A d \in Clients : d # c => stage'[d] = stage[d]
    BY <1>3 DEF Send, TypeOK
  <2> QED BY <2>1, <2>2, Sizes DEF FirstInv, FirstInLine, service
<1>4. ASSUME Signal PROVE FirstInv'
  BY <1>4 DEF FirstInv, FirstInLine, Signal, clients
<1>5. ASSUME Accept PROVE FirstInv'
  <2>1. current = None /\ current' = queue[1] /\ UNCHANGED <<clients, wait>> /\ wait = 0
        /\ server # "down" /\ current \notin Queries
    BY <1>5, ClientAssumption DEF Accept, GoesOn, TypeOK, ServedInv, Clients
  <2> QED BY <2>1, Sizes DEF FirstInv, FirstInLine, clients
<1>6. ASSUME Receive PROVE FirstInv'
  BY <1>6 DEF FirstInv, FirstInLine, Receive, Reading, clients
<1>7. ASSUME GoodLength PROVE FirstInv'
  BY <1>7 DEF FirstInv, FirstInLine, GoodLength, HeaderRead, clients
<1>8. ASSUME Tick PROVE FirstInv'
  <2>1. /\ server \in {"head", "body"} /\ got < Wanted /\ sent[current] = got
        /\ stage[current] # "done"
        /\ \A c \in Queries : stage[c] # "sending"
        /\ UNCHANGED <<server, queue, current, got, stage, plan, answer, closed, behind>>
    BY <1>8 DEF Tick, Reading, NoInput, InputEnds
  <2>2. current \in Clients /\ current # None
    BY <2>1, Current
  <2>3. ASSUME NEW c \in Queries, c = current, stage[c] = "reading" PROVE FALSE
    BY <2>1, <2>2, <2>3, Sizes DEF SentInv, Wanted
  <2> SUFFICES ASSUME NEW c \in Queries,
                      (plan[c].allowed /\ ~behind[c] /\ server # "down"
                        /\ stage[c] \in {"sending", "reading"})'
               PROVE  FirstInLine(c)'
    BY DEF FirstInv
  <2>4. FirstInLine(c) /\ stage[c] = "reading"
    BY <2>1 DEF FirstInv
  <2>5. closed[c]
    BY <2>2, <2>3, <2>4 DEF FirstInLine
  <2> QED BY <2>1, <2>4, <2>5 DEF FirstInLine
<1>9. ASSUME server \in {"reject", "head", "body"}, NEW r \in Responses, Close(r), Earned(r) PROVE FirstInv'
  <2>1. /\ current \in Clients /\ current # None
        /\ answer'[current] = r /\ closed'[current]
        /\ UNCHANGED <<queue, stage, plan, sent, waited, behind>>
        /\ \A d \in Clients : d # current => answer'[d] = answer[d] /\ closed'[d] = closed[d]
        /\ ~closed[current] /\ server # "down"
    BY <1>9, Current DEF Close, TypeOK, LineInv
  <2> SUFFICES ASSUME NEW c \in Queries,
                      (plan[c].allowed /\ ~behind[c] /\ server # "down"
                        /\ stage[c] \in {"sending", "reading"})'
               PROVE  FirstInLine(c)'
    BY DEF FirstInv
  <2>2. FirstInLine(c) /\ c \in Clients /\ plan[c].allowed /\ stage[c] \in {"sending", "reading"}
    BY <2>1, Sizes DEF FirstInv
  <2>3. CASE c # current
    <3>1. closed[c]
      BY <2>1, <2>2, <2>3 DEF FirstInLine
    <3> QED BY <2>1, <2>2, <2>3, <3>1 DEF FirstInLine
  <2>4. CASE c = current
    <3>1. wait = 0 /\ Timeout > 0 /\ ~InputEnds /\ ~TimesOut
      BY <2>1, <2>2, <2>4, Sizes DEF FirstInLine, InputEnds, TimesOut
    <3>2. plan[c].length \in 1 .. MaxFrame /\ plan[c].body = "status"
      BY Sizes
    <3>3. server = "body" /\ got = Wanted /\ r = "status"
      BY <1>9, <2>2, <2>4, <3>1, <3>2 DEF Earned, LengthFits, ServedInv, Response
    <3>4. sent[c] = FrameBytes(c) /\ HeaderBytes < FrameBytes(c)
      BY <2>1, <2>2, <2>4, <3>3, Sizes DEF ServedInv, SentInv, Wanted
    <3>5. stage[c] = "reading"
      BY <2>2, <3>4, Sizes DEF SentInv
    <3> QED BY <2>1, <2>4, <3>3, <3>5 DEF FirstInLine
  <2> QED BY <2>3, <2>4
<1>10. ASSUME server \in {"accept", "end"}, Down PROVE FirstInv'
  BY <1>10 DEF FirstInv, Down
<1>11. ASSUME UNCHANGED vars PROVE FirstInv'
  BY <1>11 DEF FirstInv, FirstInLine, vars, service, clients
<1> QED BY <1>1, <1>2, <1>3, <1>4, <1>5, <1>6, <1>7, <1>8, <1>9, <1>10, <1>11, Kinds

\* Who finds nobody ahead gets its status.
LEMMA FirstServedStep ==
    ASSUME TypeOK, TypeOK', SentInv, ServedInv, FirstInv, FirstIsServed, [Next]_vars
    PROVE  FirstIsServed'
<1>1. ASSUME NEW c \in Clients, Connect(c) PROVE FirstIsServed'
  <2>1. stage'[c] = "sending" /\ server' = server
    BY <1>1 DEF Connect, TypeOK
  <2>2. ASSUME NEW d \in Clients, d # c
        PROVE  /\ stage'[d] = stage[d] /\ outcome'[d] = outcome[d]
               /\ plan'[d] = plan[d] /\ behind'[d] = behind[d]
    BY <1>1, <2>2 DEF Connect, TypeOK
  <2> QED BY <2>1, <2>2, Sizes DEF FirstIsServed
<1>2. ASSUME NEW c \in Clients, NEW r \in Outcomes, Return(c, r), Cause(c, r) PROVE FirstIsServed'
  <2>1. /\ stage'[c] = "done" /\ outcome'[c] = r /\ UNCHANGED <<server, plan, behind>>
        /\ \A d \in Clients : d # c => stage'[d] = stage[d] /\ outcome'[d] = outcome[d]
    BY <1>2 DEF Return, TypeOK, service
  <2>2. ASSUME c \in Queries, plan[c].allowed, ~behind[c], server # "down" PROVE r = "status"
    <3>1. c \notin Others /\ Timeout > 0
      BY <2>2, ClientAssumption, Sizes
    <3>2. stage[c] \in {"sending", "reading"} => FirstInLine(c)
      BY <2>2 DEF FirstInv
    <3>3. ~closed[c] => answer[c] = "none"
      BY DEF SentInv
    <3>4. waited[c] = Timeout => waited[c] # 0
      BY <3>1
    <3>5. CASE stage[c] = "sending" /\ closed[c]
      BY <3>2, <3>5 DEF FirstInLine
    <3>6. CASE stage[c] = "reading"
      BY <1>2, <2>2, <3>1, <3>2, <3>3, <3>4, <3>6 DEF Cause, FirstInLine
    <3> QED BY <1>2, <2>2, <3>1, <3>5, <3>6 DEF Cause
  <2> QED BY <2>1, <2>2, Sizes DEF FirstIsServed
<1>3. ASSUME NEW c \in Clients, Send(c) PROVE FirstIsServed'
  <2>1. stage'[c] # "done" /\ UNCHANGED <<server, plan, behind, outcome>>
        /\ \A d \in Clients : d # c => stage'[d] = stage[d]
    BY <1>3 DEF Send, TypeOK, service
  <2> QED BY <2>1, Sizes DEF FirstIsServed
<1>4. ASSUME Signal PROVE FirstIsServed'
  BY <1>4 DEF FirstIsServed, Signal, Accept, GoesOn, Receive, Reading, GoodLength, HeaderRead, Tick,
     vars, service, clients
<1>5. ASSUME Accept PROVE FirstIsServed'
  BY <1>5 DEF FirstIsServed, Signal, Accept, GoesOn, Receive, Reading, GoodLength, HeaderRead, Tick,
     vars, service, clients
<1>6. ASSUME Receive PROVE FirstIsServed'
  BY <1>6 DEF FirstIsServed, Signal, Accept, GoesOn, Receive, Reading, GoodLength, HeaderRead, Tick,
     vars, service, clients
<1>7. ASSUME GoodLength PROVE FirstIsServed'
  BY <1>7 DEF FirstIsServed, Signal, Accept, GoesOn, Receive, Reading, GoodLength, HeaderRead, Tick,
     vars, service, clients
<1>8. ASSUME Tick PROVE FirstIsServed'
  BY <1>8 DEF FirstIsServed, Signal, Accept, GoesOn, Receive, Reading, GoodLength, HeaderRead, Tick,
     vars, service, clients
<1>9. ASSUME server \in {"reject", "head", "body"}, NEW r \in Responses, Close(r), Earned(r) PROVE FirstIsServed'
  BY <1>9 DEF FirstIsServed, Close
<1>10. ASSUME server \in {"accept", "end"}, Down PROVE FirstIsServed'
  BY <1>10 DEF FirstIsServed, Down
<1>11. ASSUME UNCHANGED vars PROVE FirstIsServed'
  BY <1>11 DEF FirstIsServed, Signal, Accept, GoesOn, Receive, Reading, GoodLength, HeaderRead, Tick,
     vars, service, clients
<1> QED BY <1>1, <1>2, <1>3, <1>4, <1>5, <1>6, <1>7, <1>8, <1>9, <1>10, <1>11, Kinds

\* Nobody is left out of the line.
LEMMA ForgottenStep ==
    ASSUME TypeOK, NobodyForgotten, [Next]_vars
    PROVE  NobodyForgotten'
<1> USE DEF NobodyForgotten
<1>0. Len(queue) \in Nat /\ Backlog \in Nat
  BY SizeAssumption DEF TypeOK
<1>1. ASSUME NEW c \in Clients, Connect(c) PROVE NobodyForgotten'
  <2>1. /\ Len(queue') = Len(queue) + 1 /\ queue'[Len(queue) + 1] = c
        /\ \A i \in 1 .. Len(queue) : queue'[i] = queue[i]
    BY <1>1, AppendProperties DEF TypeOK, Connect
  <2>2. /\ Len(queue) < Backlog /\ server # "down" /\ UNCHANGED <<server, current>>
        /\ \A d \in Clients : d # c => closed'[d] = closed[d]
    BY <1>1 DEF TypeOK, Connect
  <2>3. Waits(c)'
    BY <1>0, <2>1 DEF Waits
  <2>4. ASSUME NEW d \in Clients, Waits(d) PROVE Waits(d)'
    BY <1>0, <2>1, <2>4 DEF Waits
  <2> QED BY <1>0, <2>1, <2>2, <2>3, <2>4
<1>2. ASSUME NEW c \in Clients, NEW r \in Outcomes, Return(c, r), Cause(c, r) PROVE NobodyForgotten'
  BY <1>2 DEF Waits, Return, service
<1>3. ASSUME NEW c \in Clients, Send(c) PROVE NobodyForgotten'
  BY <1>3 DEF Waits, Send, service
<1>4. ASSUME Signal PROVE NobodyForgotten'
  BY <1>4 DEF Waits, Signal, clients
<1>5. ASSUME Accept PROVE NobodyForgotten'
  <2>1. /\ Len(queue') = Len(queue) - 1 /\ Len(queue) > 0
        /\ \A i \in 1 .. Len(queue') : queue'[i] = queue[i + 1]
        /\ current' = queue[1] /\ UNCHANGED closed
        /\ current = None /\ server' # "down"
    BY <1>5, HeadTailProperties, EmptySeq DEF TypeOK, Accept, GoesOn, clients
  <2>2. ASSUME NEW c \in Clients, Waits(c) PROVE current' = c \/ Waits(c)'
    <3>1. PICK i \in 1 .. Len(queue) : queue[i] = c
      BY <2>2 DEF Waits
    <3>2. CASE i = 1
      BY <2>1, <3>1, <3>2
    <3>3. CASE i # 1
      <4>1. i - 1 \in 1 .. Len(queue') /\ (i - 1) + 1 = i
        BY <1>0, <2>1, <3>1, <3>3
      <4> QED BY <2>1, <3>1, <4>1 DEF Waits
    <3> QED BY <3>2, <3>3
  <2>3. \A c \in Clients : c # current
    BY <2>1, ClientAssumption
  <2> QED BY <1>0, <2>1, <2>2, <2>3
<1>6. ASSUME Receive PROVE NobodyForgotten'
  BY <1>6 DEF Waits, Receive, clients
<1>7. ASSUME GoodLength PROVE NobodyForgotten'
  BY <1>7 DEF Waits, GoodLength, clients
<1>8. ASSUME Tick PROVE NobodyForgotten'
  BY <1>8 DEF Waits, Tick
<1>9. ASSUME server \in {"reject", "head", "body"}, NEW r \in Responses, Close(r), Earned(r) PROVE NobodyForgotten'
  <2>1. /\ current \in Clients /\ closed'[current] /\ queue' = queue /\ server' # "down"
        /\ \A c \in Clients : c # current => closed'[c] = closed[c]
    BY <1>9, Current DEF TypeOK, Close
  <2> QED BY <2>1 DEF Waits
<1>10. ASSUME server \in {"accept", "end"}, Down PROVE NobodyForgotten'
  <2>1. Len(queue') = 0 /\ \A c \in Clients : closed'[c]
    BY <1>10 DEF Down
  <2> QED BY <1>0, <2>1
<1>11. ASSUME UNCHANGED vars PROVE NobodyForgotten'
  BY <1>11 DEF Waits, vars, service, clients
<1> QED BY <1>1, <1>2, <1>3, <1>4, <1>5, <1>6, <1>7, <1>8, <1>9, <1>10, <1>11, Kinds

\* A query gets the outcome it deserves.
LEMMA OutcomesStep ==
    ASSUME TypeOK, SentInv, RepliesDeserved, OutcomesDeserved, [Next]_vars
    PROVE  OutcomesDeserved'
<1>1. ASSUME NEW c \in Clients, Connect(c) PROVE OutcomesDeserved'
  <2>1. stage'[c] = "sending" /\ server' = server
    BY <1>1 DEF Connect, TypeOK
  <2>2. ASSUME NEW d \in Clients, d # c
        PROVE  /\ stage'[d] = stage[d] /\ outcome'[d] = outcome[d]
               /\ plan'[d] = plan[d] /\ sent'[d] = sent[d]
    BY <1>1, <2>2 DEF Connect, TypeOK
  <2> QED BY <2>1, <2>2, Sizes DEF OutcomesDeserved, FrameBytes
<1>2. ASSUME NEW c \in Clients, NEW r \in Outcomes, Return(c, r), Cause(c, r) PROVE OutcomesDeserved'
  <2>1. /\ outcome'[c] = r /\ UNCHANGED <<server, plan, sent>>
        /\ \A d \in Clients : d # c => stage'[d] = stage[d] /\ outcome'[d] = outcome[d]
    BY <1>2 DEF Return, TypeOK, service
  <2>2. ASSUME c \in Queries
        PROVE  /\ r = "status" => plan[c].allowed /\ sent[c] = FrameBytes(c)
               /\ r = "rejected" => ~plan[c].allowed
               /\ r = "timeout" => sent[c] = FrameBytes(c)
               /\ r = "refused" => server = "down"
               /\ r \notin {"none", "unsupported"}
    <3>1. c \notin Others /\ answer[c] \in Responses
      BY <2>2, ClientAssumption DEF TypeOK
    <3>2. stage[c] = "reading" => sent[c] = FrameBytes(c)
      BY <2>2 DEF SentInv
    <3>3. /\ answer[c] = "status" => plan[c].allowed
          /\ answer[c] = "rejected" => ~plan[c].allowed
      BY DEF RepliesDeserved
    <3>4. answer[c] # "unsupported"
      <4>1. plan[c].body = "status"
        BY <2>2, Sizes
      <4>2. Response(plan[c]) = "status"
        BY <4>1 DEF Response
      <4> QED BY <4>2 DEF RepliesDeserved
    <3> QED BY <1>2, <3>1, <3>2, <3>3, <3>4 DEF Cause, Responses
  <2> QED BY <2>1, <2>2, Sizes DEF OutcomesDeserved, FrameBytes
<1>3. ASSUME NEW c \in Clients, Send(c) PROVE OutcomesDeserved'
  <2>1. stage'[c] # "done" /\ UNCHANGED <<server, plan, outcome>>
        /\ \A d \in Clients : d # c => stage'[d] = stage[d] /\ sent'[d] = sent[d]
    BY <1>3 DEF Send, TypeOK, service
  <2> QED BY <2>1, Sizes DEF OutcomesDeserved, FrameBytes
<1>4. ASSUME Signal \/ Accept \/ Receive \/ GoodLength \/ Tick \/ UNCHANGED vars
      PROVE  OutcomesDeserved'
  <2>1. UNCHANGED <<stage, plan, sent, outcome>> /\ (server = "down" => server' = "down")
    BY <1>4 DEF Signal, Accept, GoesOn, Receive, Reading, GoodLength, HeaderRead, Tick,
       vars, service, clients
  <2> QED BY <2>1 DEF OutcomesDeserved, FrameBytes
<1>5. ASSUME server \in {"reject", "head", "body"}, NEW r \in Responses, Close(r) PROVE OutcomesDeserved'
  BY <1>5 DEF OutcomesDeserved, FrameBytes, Close
<1>6. ASSUME Down PROVE OutcomesDeserved'
  BY <1>6 DEF OutcomesDeserved, FrameBytes, Down
<1> QED BY <1>1, <1>2, <1>3, <1>4, <1>5, <1>6, Kinds

-----------------------------------------------------------------------------
LEMMA IInvInit == Init => IInv
<1> SUFFICES ASSUME Init PROVE IInv
  OBVIOUS
<1>1. TypeOK
  <2>1. << >> \in Seq(Clients)
    OBVIOUS
  <2>2. [allowed |-> TRUE, length |-> 1, body |-> "status"] \in QueryPlan
    BY SizeAssumption DEF QueryPlan, Plan
  <2>3. plan \in [Clients -> Plan] /\ \A c \in Queries : plan[c] \in QueryPlan
    <3>1. [allowed |-> TRUE, length |-> 1, body |-> "status"] \in Plan
      BY <2>2 DEF QueryPlan
    <3> QED BY <2>2, <3>1 DEF Init, Clients
  <2>4. /\ got \in 0 .. HeaderBytes + MaxFrame /\ wait \in 0 .. Timeout /\ held \in Nat
        /\ waited \in [Clients -> 0 .. Timeout] /\ sent \in [Clients -> Nat]
    BY SizeAssumption DEF Init
  <2>5. /\ stage \in [Clients -> {"idle", "sending", "reading", "done"}]
        /\ answer \in [Clients -> Responses] /\ closed \in [Clients -> BOOLEAN]
        /\ behind \in [Clients -> BOOLEAN]
        /\ outcome \in [Clients -> Responses \cup {"refused", "unsent", "ended", "timeout"}]
    BY DEF Init, Responses
  <2> QED BY <2>1, <2>3, <2>4, <2>5 DEF Init, TypeOK
<1>2. LineInv
  <2>1. Len(queue) = 0 /\ 1 .. 0 = {} /\ current = None
    BY DEF Init
  <2> QED BY <2>1 DEF LineInv
<1>3. SentInv
  <2> SUFFICES ASSUME NEW c \in Clients
               PROVE  /\ sent[c] = 0 /\ 0 <= FrameBytes(c) /\ closed[c] /\ stage[c] = "idle"
                      /\ waited[c] = 0
    BY DEF SentInv
  <2>1. 0 <= FrameBytes(c)
    BY <1>1, Sizes
  <2> QED BY <2>1 DEF Init
<1>4. ServedInv /\ RepliesDeserved /\ FirstInv /\ FirstIsServed
  BY ClientAssumption DEF Init, ServedInv, RepliesDeserved, FirstInv, FirstIsServed, Clients
<1>5. HeldInv
  BY SpanNext DEF Init, HeldInv
<1> QED BY <1>1, <1>2, <1>3, <1>4, <1>5 DEF IInv

LEMMA IInvNext == IInv /\ [Next]_vars => IInv'
<1> SUFFICES ASSUME IInv, [Next]_vars PROVE IInv'
  OBVIOUS
<1>1. TypeOK /\ TypeOK'
  BY TypeStep DEF IInv
<1> QED BY <1>1, LineStep, SentStep, ServedStep, HeldStep, FirstStep, RepliesStep,
        FirstServedStep DEF IInv

THEOREM Invariant == Spec => []IInv
BY IInvInit, IInvNext, PTL DEF Spec

\* The buffer for a payload is never larger than the limit, and the rest of the
\* state has its type (read_message).
THEOREM TypeCorrect == Spec => []TypeOK
<1>1. IInv => TypeOK
  BY DEF IInv
<1> QED BY <1>1, Invariant, PTL

\* Only a whole request of the allowed peer is dispatched, and it gets the
\* response it asked for (handle_connection, read_message).
THEOREM OnlyWholeRequests == Spec => []RepliesDeserved
<1>1. IInv => RepliesDeserved
  BY DEF IInv
<1> QED BY <1>1, Invariant, PTL

\* A query that finds nobody ahead of it gets its status, unless the daemon ends
\* (serve_daemon, query_daemon_status).
THEOREM FirstServed == Spec => []FirstIsServed
<1>1. IInv => FirstIsServed
  BY DEF IInv
<1> QED BY <1>1, Invariant, PTL

\* One connection holds the service for a bounded time (handle_connection).
THEOREM BoundedHold == Spec => []HoldBounded
<1>1. ASSUME IInv PROVE HoldBounded
  <2> DEFINE extra == IF stopping THEN Timeout ELSE 0
  <2>1. TypeOK /\ held <= Span(got) + wait + extra
    BY <1>1 DEF IInv, HeldInv
  <2>2. /\ got \in Nat /\ wait \in 0 .. Timeout /\ held \in Nat /\ Timeout \in Nat
        /\ extra \in Nat /\ HeaderBytes + MaxFrame \in Nat /\ got <= HeaderBytes + MaxFrame
    BY <2>1, Sizes DEF TypeOK
  <2>3. wait # 0 => got + 1 <= HeaderBytes + MaxFrame
    <3> SUFFICES ASSUME wait # 0 PROVE got < HeaderBytes + MaxFrame
      BY <2>2
    <3>1. server \in {"head", "body"} /\ got < Wanted /\ Wanted \in Nat
      <4>1. server \in {"head", "body"} /\ got <= Wanted /\ got # Wanted
        BY <1>1 DEF IInv, ServedInv
      <4>2. current \in Clients
        BY <2>1, <4>1, Current
      <4>3. Wanted \in Nat
        BY <2>1, <4>2, Sizes DEF Wanted
      <4> QED BY <2>2, <4>1, <4>3
    <3>2. Wanted <= HeaderBytes + MaxFrame
      <4>1. CASE server = "head"
        BY <2>1, <4>1, Sizes DEF Wanted
      <4>2. CASE server = "body"
        <5>1. plan[current].length \in 1 .. MaxFrame
          BY <1>1, <4>2 DEF IInv, ServedInv
        <5> QED BY <2>1, <4>2, <5>1, Sizes DEF Wanted, FrameBytes
      <4> QED BY <3>1, <4>1, <4>2
    <3> QED BY <2>2, <3>1, <3>2
  <2>4. /\ Span(got) \in Nat /\ Span(HeaderBytes + MaxFrame) \in Nat
        /\ Span(got) <= Span(HeaderBytes + MaxFrame)
        /\ wait # 0 => Span(got) + Timeout <= Span(HeaderBytes + MaxFrame)
    <3>1. Span(got) <= Span(HeaderBytes + MaxFrame)
      BY <2>2, SpanNext
    <3>2. wait # 0 => Span(got + 1) <= Span(HeaderBytes + MaxFrame)
      BY <2>2, <2>3, SpanNext
    <3> QED BY <2>2, <3>1, <3>2, SpanNext
  <2> HIDE DEF extra
  <2>5. held <= Span(HeaderBytes + MaxFrame) + extra
    BY <2>1, <2>2, <2>4
  <2> QED BY <2>5 DEF HoldBounded, Span, extra
<1> QED BY <1>1, Invariant, PTL

\* No open connection is lost sight of: until it is closed, the service holds it
\* or will accept it, and none outlives the listener (serve_daemon).
THEOREM NobodyIsForgotten == Spec => []NobodyForgotten
<1>1. Init => NobodyForgotten
  <2>1. Init => Len(queue) = 0 /\ \A c \in Clients : closed[c]
    BY DEF Init
  <2> QED BY <2>1, SizeAssumption DEF NobodyForgotten
<1>2. TypeOK /\ NobodyForgotten /\ [Next]_vars => NobodyForgotten'
  BY ForgottenStep
<1> QED BY <1>1, <1>2, TypeCorrect, PTL DEF Spec

\* A query is told the status only as the allowed user, after it has sent its
\* whole request; it is never told that its own version is unsupported, and gets
\* no answer without a reason (query_daemon_status, handle_connection).
THEOREM QueriesGetWhatTheyDeserve == Spec => []OutcomesDeserved
<1>1. Init => OutcomesDeserved
  BY DEF Init, OutcomesDeserved, Clients
<1>2. TypeOK /\ SentInv /\ RepliesDeserved /\ OutcomesDeserved /\ [Next]_vars
        => OutcomesDeserved'
  BY OutcomesStep
<1>3. IInv => TypeOK /\ SentInv /\ RepliesDeserved
  BY DEF IInv
<1> QED BY <1>1, <1>2, <1>3, Invariant, PTL DEF Spec
=============================================================================
