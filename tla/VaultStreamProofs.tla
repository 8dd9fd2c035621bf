------------------------- MODULE VaultStreamProofs -------------------------
(***************************************************************************)
(* Theorems about VaultStream, for any number of saves, any sizes of       *)
(* chunks and writes and any width of the sequence number.                 *)
(***************************************************************************)
EXTENDS VaultStream, SequenceTheorems, TLAPS

\* Where frame n begins when all frames before it are full.
Start(n) == n * ChunkSize

\* The writer's counters fit together.
CountsInv ==
    \A s \in Streams :
        /\ pending[s] < ChunkSize
        /\ input[s] + pending[s] <= handed[s]
        /\ phase[s] # "write" => input[s] = 0
        /\ phase[s] \in {"finish", "finished"} => after[s] = "finish"
        /\ phase[s] = "dropped" => after[s] # "open"

TypeInv == TypeOK /\ CountsInv

\* A write has failed: what is still handed over never fills a frame.
Lost(s) ==
    \/ phase[s] = "failed" /\ pending[s] = 0
    \/ phase[s] = "write" /\ after[s] = "dropped" /\ pending[s] + input[s] < ChunkSize
    \/ phase[s] = "dropped"

\* Nothing is handed over any more.
Ended(s) == after[s] = "finish" /\ phase[s] \in {"finish", "finished", "dropped"}

\* The frames written so far are full, up to a short one that finish wrote.
Aligned(s) ==
    \/ Lost(s) \/ phase[s] = "finished"
    \/ handed[s] = Start(sequence[s]) + pending[s] + input[s]
    \/ phase[s] = "finish" /\ pending[s] = 0 /\ handed[s] <= Start(sequence[s])

\* What a sealed frame holds, by its number.
DataFrame(f) ==
    /\ Len(f.body) \in 1 .. ChunkSize
    /\ f.body = Run(f.of, Start(f.sequence), Len(f.body))
    /\ Start(f.sequence) + Len(f.body) <= handed[f.of]
    /\ Len(f.body) < ChunkSize =>
        Ended(f.of) /\ handed[f.of] = Start(f.sequence) + Len(f.body)

FinalFrame(f) ==
    /\ f.body = << >>
    /\ Ended(f.of) /\ phase[f.of] # "finish" /\ pending[f.of] = 0
    /\ handed[f.of] <= Start(f.sequence)

Framed(f) == IF f.type = "data" THEN DataFrame(f) ELSE FinalFrame(f)

\* The number of a writer that may still seal a frame is unused.
Numbered(f) ==
    /\ NonceFits(f.of, f.sequence)
    /\ f.sequence <= sequence[f.of]
    /\ f.sequence = sequence[f.of] => Lost(f.of)

UniqueInv ==
    \A f, g \in sealed : f.of = g.of /\ f.sequence = g.sequence => f = g

\* The frames of a file are numbered from zero, and the last is the final one.
Filed(s) ==
    /\ Len(stored[s]) = sequence[s]
    /\ \A i \in 1 .. Len(stored[s]) :
        /\ stored[s][i] \in sealed
        /\ stored[s][i].of = s /\ stored[s][i].sequence = i - 1
        /\ stored[s][i].type = "final" => i = Len(stored[s])
    /\ phase[s] = "finished" =>
        Len(stored[s]) > 0 /\ stored[s][Len(stored[s])].type = "final"

WriterInv ==
    /\ TypeInv
    /\ \A s \in Streams : Aligned(s) /\ Filed(s)
    /\ \A f \in sealed : Framed(f) /\ Numbered(f)
    /\ UniqueInv

\* The bytes the reader has got out of frames.
Received == Len(out) - offset + Len(plaintext)

\* What has come out of the frames read so far: all of them full, or the last
\* one short and with it the end of the text.
InStep ==
    /\ offset <= Len(plaintext) /\ offset <= Len(out)
    /\ plaintext = Run(file, Len(out) - offset, Len(plaintext))
    /\ Received <= handed[file]
    /\ \/ Received = Start(expected)
       \/ Ended(file) /\ Received = handed[file] /\ Received < Start(expected)

Complete ==
    /\ Ended(file) /\ phase[file] # "finish" /\ pending[file] = 0
    /\ out = Run(file, 0, handed[file]) /\ plaintext = << >>

\* Nothing has been read yet.
Fresh ==
    ~finalized /\ expected = 0 /\ offset = 0 /\ plaintext = << >> /\ out = << >>

\* An undamaged file has more frames until the final one has been read.
Intact == phase[file] = "finished" /\ (~finalized => expected < Len(stored[file]))

ReaderInv ==
    /\ file = None <=> reading = "closed"
    /\ file = None => Fresh
    /\ file # None => /\ Len(out) <= handed[file] /\ out = Run(file, 0, Len(out))
                      /\ finalized \/ InStep
                      /\ damaged \/ Intact
    /\ finalized => Complete
    /\ reading = "accepted" => finalized
    /\ reading = "refused" => damaged

-----------------------------------------------------------------------------
\* The first frame begins at the first byte, the next one a chunk further on.
LEMMA StartNext ==
    /\ Start(0) = 0
    /\ \A n \in Nat : Start(n) \in Nat /\ Start(n + 1) = Start(n) + ChunkSize
  BY SizeAssumption DEF Start

\* A run of n bytes is a sequence of n bytes.
LEMMA RunType ==
    ASSUME NEW s \in Streams, NEW k \in Nat, NEW n \in Nat
    PROVE  /\ Run(s, k, n) \in Seq(Byte) /\ Len(Run(s, k, n)) = n
           /\ \A i \in 1 .. n : Run(s, k, n)[i] = <<s, k + i>>
  BY DEF Run, Byte

\* Part of a run, put behind the run that ends where it starts, continues it.
Joins(s, k, n, o, d) ==
    Run(s, 0, k + o) \o SubSeq(Run(s, k, n), o + 1, o + d) = Run(s, 0, k + o + d)

LEMMA RunJoin ==
    ASSUME NEW s \in Streams, NEW k \in Nat, NEW n \in Nat, NEW o \in Nat, NEW d \in Nat,
           o + d <= n
    PROVE  Joins(s, k, n, o, d)
<1> DEFINE head  == Run(s, 0, k + o)
           piece == SubSeq(Run(s, k, n), o + 1, o + d)
           whole == Run(s, 0, k + o + d)
<1>1. /\ Run(s, k, n) \in Seq(Byte) /\ Len(Run(s, k, n)) = n
      /\ \A i \in 1 .. n : Run(s, k, n)[i] = <<s, k + i>>
  BY RunType
<1>2. head \in Seq(Byte) /\ Len(head) = k + o /\ \A i \in 1 .. k + o : head[i] = <<s, 0 + i>>
  <2> k + o \in Nat /\ 0 \in Nat
    OBVIOUS
  <2> QED BY RunType
<1>3. /\ whole \in Seq(Byte) /\ Len(whole) = k + o + d
      /\ \A i \in 1 .. k + o + d : whole[i] = <<s, 0 + i>>
  <2> k + o + d \in Nat /\ 0 \in Nat
    OBVIOUS
  <2> QED BY RunType
<1>4. piece \in Seq(Byte) /\ Len(piece) = d /\ \A i \in 1 .. d : piece[i] = <<s, k + o + i>>
  <2>1. CASE d = 0
    BY <2>1, <1>1, SubSeqProperties
  <2>2. CASE d > 0
    BY <2>2, <1>1, SubSeqProperties
  <2> QED BY <2>1, <2>2
<1> HIDE DEF head, piece, whole
<1>5. /\ head \o piece \in Seq(Byte) /\ Len(head \o piece) = k + o + d
      /\ \A i \in 1 .. k + o + d :
            (head \o piece)[i] = IF i <= k + o THEN head[i] ELSE piece[i - (k + o)]
  <2>1. /\ head \o piece \in Seq(Byte) /\ Len(head \o piece) = Len(head) + Len(piece)
        /\ \A i \in 1 .. Len(head) + Len(piece) :
            (head \o piece)[i] = IF i <= Len(head) THEN head[i] ELSE piece[i - Len(head)]
    <3>1. head \in Seq(Byte) /\ piece \in Seq(Byte)
      BY <1>2, <1>4
    <3> QED BY <3>1, ConcatProperties
  <2> QED BY <2>1, <1>2, <1>4
<1>6. ASSUME NEW i \in 1 .. k + o + d PROVE (head \o piece)[i] = whole[i]
  <2>1. CASE i <= k + o
    <3>1. i \in 1 .. k + o
      BY <2>1
    <3> QED BY <2>1, <3>1, <1>2, <1>3, <1>5
  <2>2. CASE ~(i <= k + o)
    <3>1. i - (k + o) \in 1 .. d /\ k + o + (i - (k + o)) = 0 + i
      BY <2>2
    <3> QED BY <2>2, <3>1, <1>3, <1>4, <1>5
  <2> QED BY <2>1, <2>2
<1>7. head \o piece = whole
  BY <1>3, <1>5, <1>6, SeqEqual
<1> QED BY <1>7 DEF head, piece, whole, Joins

\* What a frame is sealed over.
LEMMA NewFrameType ==
    ASSUME TypeInv, NEW s \in Streams, NEW type \in {"data", "final"}, NEW n \in Nat
    PROVE  /\ NewFrame(s, type, n) \in Frame
           /\ Len(NewFrame(s, type, n).body) = n
           /\ NewFrame(s, type, n).body = NextBytes(s, n)
           /\ NewFrame(s, type, n).of = s
           /\ NewFrame(s, type, n).type = type
           /\ NewFrame(s, type, n).sequence = sequence[s]
<1>1. handed[s] - input[s] - pending[s] \in Nat
  BY DEF TypeInv, TypeOK, CountsInv
<1>2. NextBytes(s, n) \in Seq(Byte) /\ Len(NextBytes(s, n)) = n
  BY <1>1, RunType DEF NextBytes
<1> QED BY <1>2 DEF NewFrame, Frame, TypeInv, TypeOK

\* A frame of n bytes that write_frame seals for stream s.
Sealing(f, s, type, n) ==
    /\ f \in Frame
    /\ f.of = s /\ f.type = type /\ f.sequence = sequence[s]
    /\ Len(f.body) = n /\ f.body = Run(s, handed[s] - input[s] - pending[s], n)
    /\ NonceFits(s, sequence[s]) /\ sequence[s] < MaxSequence

LEMMA WriteFrameFacts ==
    ASSUME TypeInv, NEW s \in Streams, NEW type \in {"data", "final"}, NEW n \in Nat,
           WriteFrame(s, type, n)
    PROVE  /\ sequence' = [sequence EXCEPT ![s] = sequence[s] + 1]
           /\ \E f : /\ Sealing(f, s, type, n)
                     /\ sealed' = sealed \cup {f}
                     /\ stored' = [stored EXCEPT ![s] = Append(stored[s], f)]
           /\ sequence' \in [Streams -> 0 .. MaxSequence]
           /\ sealed' \subseteq Frame
           /\ stored' \in [Streams -> Seq(Frame)]
<1> DEFINE f == NewFrame(s, type, n)
<1>1. sequence[s] < MaxSequence /\ NonceFits(s, sequence[s])
  BY WidthAssumption DEF WriteFrame, MaySeal, TypeInv, TypeOK
<1>2. sequence' = [sequence EXCEPT ![s] = sequence[s] + 1]
  <2>1. NextSequence(s) = sequence[s] + 1
    BY <1>1, WidthAssumption DEF NextSequence, TypeInv, TypeOK
  <2> QED BY <2>1 DEF WriteFrame
<1>3. sequence' \in [Streams -> 0 .. MaxSequence]
  <2>1. sequence[s] + 1 \in 0 .. MaxSequence
    BY <1>1, WidthAssumption DEF TypeInv, TypeOK
  <2> QED BY <1>2, <2>1 DEF TypeInv, TypeOK
<1>4. Sealing(f, s, type, n)
  BY <1>1, NewFrameType DEF Sealing, NextBytes
<1>5. /\ sealed' = sealed \cup {f}
      /\ stored' = [stored EXCEPT ![s] = Append(stored[s], f)]
  BY DEF WriteFrame
<1> HIDE DEF f
<1>6. Append(stored[s], f) \in Seq(Frame)
  BY <1>4 DEF Sealing, TypeInv, TypeOK
<1>7. sealed' \subseteq Frame /\ stored' \in [Streams -> Seq(Frame)]
  BY <1>4, <1>5, <1>6 DEF Sealing, TypeInv, TypeOK
<1> QED BY <1>2, <1>3, <1>4, <1>5, <1>7

LEMMA WriteFrameFailsFacts ==
    ASSUME TypeInv, NEW s \in Streams, NEW type \in {"data", "final"}, NEW n \in Nat,
           WriteFrameFails(s, type, n)
    PROVE  /\ sequence' = sequence /\ stored' = stored
           /\ \/ sealed' = sealed
              \/ \E f : Sealing(f, s, type, n) /\ sealed' = sealed \cup {f}
           /\ sealed' \subseteq Frame
<1>1. ASSUME MaySeal(s) PROVE Sealing(NewFrame(s, type, n), s, type, n)
  <2>1. NonceFits(s, sequence[s]) /\ sequence[s] < MaxSequence
    BY <1>1, WidthAssumption DEF MaySeal, TypeInv, TypeOK
  <2> QED BY <2>1, NewFrameType DEF Sealing, NextBytes
<1> QED BY <1>1 DEF WriteFrameFails, Sealing, TypeInv, TypeOK

USE SeedAssumption, WidthAssumption, SizeAssumption, NoneAssumption
USE DEF writing, reader

\* The types and the writer's counters.
LEMMA TypeStep ==
    ASSUME TypeInv, [Next]_vars
    PROVE  TypeInv'
<1> USE DEF TypeInv
<1>1. ASSUME NEW s \in Streams, Create(s) PROVE TypeInv'
  <2>1. TypeOK'
    BY <1>1 DEF Create, TypeOK, CountsInv
  <2>2. CountsInv'
    BY <1>1 DEF Create, TypeOK, CountsInv
  <2> QED BY <2>1, <2>2
<1>2. ASSUME NEW s \in Streams, Write(s) PROVE TypeInv'
  <2>1. TypeOK'
    <3>1. PICK n \in Nat : Call(s, n, "open")
      BY <1>2 DEF Write
    <3>2. /\ handed' \in [Streams -> Nat] /\ input' \in [Streams -> Nat]
          /\ phase' = [phase EXCEPT ![s] = "write"]
          /\ after' = [after EXCEPT ![s] = "open"]
      BY <3>1 DEF Call, TypeOK
    <3> QED BY <3>1, <3>2 DEF Call, TypeOK
  <2>2. CountsInv'
    BY <1>2 DEF Write, Call, TypeOK, CountsInv
  <2> QED BY <2>1, <2>2
<1>3. ASSUME NEW s \in Streams, EndArchive(s) PROVE TypeInv'
  <2>1. TypeOK'
    BY SMTT(30), <1>3 DEF EndArchive, Call, TypeOK, CountsInv
  <2>2. CountsInv'
    BY <1>3 DEF EndArchive, Call, TypeOK, CountsInv
  <2> QED BY <2>1, <2>2
<1>4. ASSUME NEW s \in Streams, DropArchive(s) PROVE TypeInv'
  <2>1. TypeOK'
    BY SMTT(30), <1>4 DEF DropArchive, Call, TypeOK, CountsInv
  <2>2. CountsInv'
    BY <1>4 DEF DropArchive, Call, TypeOK, CountsInv
  <2> QED BY <2>1, <2>2
<1>5. ASSUME NEW s \in Streams, SealChunk(s) PROVE TypeInv'
  <2>1. /\ sequence' = [sequence EXCEPT ![s] = sequence[s] + 1]
        /\ \E f : /\ Sealing(f, s, "data", ChunkSize)
                  /\ sealed' = sealed \cup {f}
                  /\ stored' = [stored EXCEPT ![s] = Append(stored[s], f)]
        /\ sequence' \in [Streams -> 0 .. MaxSequence]
        /\ sealed' \subseteq Frame /\ stored' \in [Streams -> Seq(Frame)]
    BY <1>5, WriteFrameFacts DEF SealChunk, TypeInv, TypeOK
  <2>2. pending[s] + input[s] - ChunkSize \in Nat /\ ChunkSize > 0
    BY <1>5 DEF SealChunk, Full, TypeInv, TypeOK
  <2>3. input' \in [Streams -> Nat] /\ pending' \in [Streams -> Nat]
    BY <1>5, <2>2 DEF SealChunk, TypeInv, TypeOK
  <2>4. TypeOK'
    BY <1>5, <2>1, <2>2, <2>3 DEF SealChunk, Full, TypeOK, CountsInv
  <2>5. CountsInv'
    <3> SUFFICES ASSUME NEW t \in Streams PROVE CountsInv!(t)'
      BY DEF CountsInv
    <3>1. /\ t # s => input'[t] = input[t] /\ pending'[t] = pending[t]
          /\ t = s => input'[t] = pending[t] + input[t] - ChunkSize /\ pending'[t] = 0
          /\ phase' = phase /\ after' = after /\ handed' = handed /\ phase[s] = "write"
      BY <1>5 DEF SealChunk, TypeOK
    <3>2. /\ handed[t] \in Nat /\ input[t] \in Nat /\ pending[t] \in Nat /\ ChunkSize \in Nat
          /\ pending[t] < ChunkSize /\ input[t] + pending[t] <= handed[t]
          /\ phase[t] # "write" => input[t] = 0
          /\ phase[t] \in {"finish", "finished"} => after[t] = "finish"
          /\ phase[t] = "dropped" => after[t] # "open"
      BY DEF TypeOK, CountsInv
    <3>3. CASE t = s
      BY <3>1, <3>2, <3>3
    <3>4. CASE t # s
      BY <3>1, <3>2, <3>4
    <3> QED BY <3>3, <3>4
  <2> QED BY <2>4, <2>5
<1>6. ASSUME NEW s \in Streams, SealChunkFails(s) PROVE TypeInv'
  <2>1. /\ sequence' = sequence /\ stored' = stored
        /\ \/ sealed' = sealed
           \/ \E f : Sealing(f, s, "data", ChunkSize) /\ sealed' = sealed \cup {f}
        /\ sealed' \subseteq Frame
    BY <1>6, WriteFrameFailsFacts DEF SealChunkFails, TypeInv, TypeOK
  <2>2. TypeOK'
    BY <1>6, <2>1 DEF SealChunkFails, Full, TypeOK, CountsInv
  <2>3. CountsInv'
    BY SMTT(30), <1>6, <2>1 DEF SealChunkFails, Full, TypeOK, CountsInv
  <2> QED BY <2>2, <2>3
<1>7. ASSUME NEW s \in Streams, KeepRest(s) PROVE TypeInv'
  <2>1. TypeOK'
    BY SMTT(30), <1>7 DEF KeepRest, Full, TypeOK, CountsInv
  <2>2. CountsInv'
    BY SMTT(30), <1>7 DEF KeepRest, Full, TypeOK, CountsInv
  <2> QED BY <2>1, <2>2
<1>8. ASSUME NEW s \in Streams, SealRest(s) PROVE TypeInv'
  <2>1. /\ sequence' = [sequence EXCEPT ![s] = sequence[s] + 1]
        /\ \E f : /\ Sealing(f, s, "data", pending[s])
                  /\ sealed' = sealed \cup {f}
                  /\ stored' = [stored EXCEPT ![s] = Append(stored[s], f)]
        /\ sequence' \in [Streams -> 0 .. MaxSequence]
        /\ sealed' \subseteq Frame /\ stored' \in [Streams -> Seq(Frame)]
    BY <1>8, WriteFrameFacts DEF SealRest, TypeInv, TypeOK
  <2>2. TypeOK'
    BY <1>8, <2>1 DEF SealRest, TypeOK, CountsInv
  <2>3. CountsInv'
    BY <1>8, <2>1 DEF SealRest, TypeOK, CountsInv
  <2> QED BY <2>2, <2>3
<1>9. ASSUME NEW s \in Streams, SealFinal(s) PROVE TypeInv'
  <2>1. /\ sequence' = [sequence EXCEPT ![s] = sequence[s] + 1]
        /\ \E f : /\ Sealing(f, s, "final", 0)
                  /\ sealed' = sealed \cup {f}
                  /\ stored' = [stored EXCEPT ![s] = Append(stored[s], f)]
        /\ sequence' \in [Streams -> 0 .. MaxSequence]
        /\ sealed' \subseteq Frame /\ stored' \in [Streams -> Seq(Frame)]
    BY SMTT(30), <1>9, WriteFrameFacts DEF SealFinal, TypeInv, TypeOK
  <2>2. TypeOK'
    BY SMTT(30), <1>9, <2>1 DEF SealFinal, TypeOK, CountsInv
  <2>3. CountsInv'
    BY <1>9, <2>1 DEF SealFinal, TypeOK, CountsInv
  <2> QED BY <2>2, <2>3
<1>10. ASSUME NEW s \in Streams, FinishFails(s) PROVE TypeInv'
  <2>1. /\ sequence' = sequence /\ stored' = stored
        /\ \/ sealed' = sealed
           \/ \E f : Sealing(f, s, IF pending[s] > 0 THEN "data" ELSE "final", pending[s]) /\ sealed' = sealed \cup {f}
        /\ sealed' \subseteq Frame
    BY <1>10, WriteFrameFailsFacts DEF FinishFails, TypeInv, TypeOK
  <2>2. TypeOK'
    BY <1>10, <2>1 DEF FinishFails, TypeOK, CountsInv
  <2>3. CountsInv'
    BY <1>10, <2>1 DEF FinishFails, TypeOK, CountsInv
  <2> QED BY <2>2, <2>3
<1>11. ASSUME NEW s \in Streams, OpenFile(s) PROVE TypeInv'
  BY <1>11 DEF OpenFile, TypeOK, CountsInv
<1>12. CASE ReadData
  <2>1. \A f \in sealed : f.body \in Seq(Byte)
    BY DEF TypeOK, Frame
  <2>2. expected + 1 \in 0 .. MaxSequence /\ plaintext' \in Seq(Byte)
    BY <1>12, <2>1 DEF ReadData, TypeOK
  <2> QED BY <1>12, <2>2 DEF ReadData, TypeOK, CountsInv
<1>13. CASE ReadFinal
  <2>1. expected + 1 \in 0 .. MaxSequence /\ << >> \in Seq(Byte)
    BY <1>13 DEF ReadFinal, TypeOK
  <2> QED BY <1>13, <2>1 DEF ReadFinal, TypeOK, CountsInv
<1>14. CASE Refuse
  BY <1>14 DEF Refuse, NeedsFrame, Active, TypeOK, CountsInv
<1>15. CASE Deliver
  <2>1. PICK n \in 1 .. Len(plaintext) - offset :
                /\ out' = out \o SubSeq(plaintext, offset + 1, offset + n)
                /\ offset' = offset + n
    BY <1>15 DEF Deliver
  <2>2. SubSeq(plaintext, offset + 1, offset + n) \in Seq(Byte)
    <3>1. \A i \in offset + 1 .. offset + n : plaintext[i] \in Byte
      BY <2>1, ElementOfSeq DEF TypeOK
    <3> QED BY <2>1, <3>1, SubSeqProperties DEF TypeOK
  <2>3. out' \in Seq(Byte) /\ offset' \in Nat
    <3>1. out \in Seq(Byte) /\ offset + n \in Nat
      BY DEF TypeOK
    <3> QED BY <3>1, <2>1, <2>2, ConcatProperties
  <2> QED BY <1>15, <2>3 DEF Deliver, TypeOK, CountsInv
<1>16. CASE EndUnpacking
  BY <1>16 DEF EndUnpacking, TypeOK, CountsInv
<1>17. CASE AbandonUnpacking
  BY <1>17 DEF AbandonUnpacking, TypeOK, CountsInv
<1>18. CASE VerifyFinished
  BY <1>18 DEF VerifyFinished, Drained, TypeOK, CountsInv
<1>19. CASE UNCHANGED vars
  BY <1>19 DEF vars, TypeOK, CountsInv
<1> QED
  BY <1>1, <1>2, <1>3, <1>4, <1>5, <1>6, <1>7, <1>8, <1>9, <1>10, <1>11,
     <1>12, <1>13, <1>14, <1>15, <1>16, <1>17, <1>18, <1>19 DEF Next,
     WriterStep, ReaderStep

\* A step leaves the writer of stream t alone.
Untouched(t) ==
    /\ phase'[t] = phase[t] /\ after'[t] = after[t] /\ handed'[t] = handed[t]
    /\ input'[t] = input[t] /\ pending'[t] = pending[t]
    /\ sequence'[t] = sequence[t] /\ stored'[t] = stored[t]

\* What no step takes back: more is handed over until the end, and nothing then.
Onward(t) ==
    /\ handed[t] <= handed'[t] /\ sequence[t] <= sequence'[t]
    /\ Lost(t) => Lost(t)'
    /\ Ended(t) => Ended(t)' /\ handed'[t] = handed[t]
    /\ Ended(t) /\ phase[t] # "finish" =>
        phase'[t] = phase[t] /\ pending'[t] = pending[t] /\ stored'[t] = stored[t]

\* The numbers of one writer are numbers.
Counted(s) ==
    /\ handed[s] \in Nat /\ input[s] \in Nat /\ pending[s] \in Nat
    /\ sequence[s] \in Nat /\ pending[s] < ChunkSize
    /\ input[s] + pending[s] <= handed[s]
    /\ phase[s] # "write" => input[s] = 0
    /\ phase[s] \in {"finish", "finished"} => after[s] = "finish"

LEMMA CountedAll ==
    ASSUME TypeInv
    PROVE  /\ \A s \in Streams : Counted(s) /\ stored[s] \in Seq(Frame)
           /\ \A f \in sealed : f \in Frame
  BY DEF TypeInv, TypeOK, CountsInv, Counted

LEMMA FrameFields ==
    ASSUME NEW f \in Frame
    PROVE  /\ f.of \in Streams /\ f.sequence \in Nat /\ f.type \in {"data", "final"}
           /\ f.body \in Seq(Byte) /\ Len(f.body) \in Nat
  BY DEF Frame

LEMMA UntouchedIsOnward ==
    ASSUME NEW t \in Streams, Counted(t), Untouched(t)
    PROVE  Onward(t) /\ (Aligned(t) => Aligned(t)')
  BY DEF Untouched, Onward, Counted, Lost, Ended, Aligned

\* Sealed frames keep what they hold and their numbers.
LEMMA FrameKept ==
    ASSUME NEW f \in Frame, Framed(f), Numbered(f), Counted(f.of), Onward(f.of),
           Counted(f.of)'
    PROVE  Framed(f)' /\ Numbered(f)'
<1>1. f.sequence \in Nat /\ Start(f.sequence) \in Nat /\ Len(f.body) \in Nat
  BY FrameFields, StartNext
<1>2. Numbered(f)'
  BY SMTT(30), <1>1 DEF Numbered, Onward, Counted, NonceFits
<1>3. DataFrame(f) => DataFrame(f)'
  BY <1>1 DEF DataFrame, Onward, Counted, Run
<1>4. FinalFrame(f) => FinalFrame(f)'
  BY <1>1 DEF FinalFrame, Onward, Counted
<1> QED BY <1>2, <1>3, <1>4 DEF Framed

\* The frames already in a file, when no frame or one more is written to it.
LEMMA FiledKept ==
    ASSUME NEW t \in Streams, Filed(t), stored'[t] = stored[t], sequence'[t] = sequence[t],
           sealed \subseteq sealed', phase'[t] = "finished" => phase[t] = "finished"
    PROVE  Filed(t)'
  BY DEF Filed

\* The facts about the writers, one step further.
LEMMA WriterInvStep ==
    ASSUME WriterInv, TypeInv', NEW s \in Streams, WriterStep(s)
    PROVE  WriterInv' /\ \A t \in Streams : Onward(t)
<1> DEFINE Others == \A t \in Streams \ {s} : Untouched(t)
           Goal   == /\ Onward(s) /\ Aligned(s)' /\ Filed(s)' /\ Others
                     /\ sealed \subseteq sealed' /\ UniqueInv'
                     /\ \A f \in sealed' \ sealed : Framed(f)' /\ Numbered(f)'
<1>0. /\ TypeInv /\ UniqueInv /\ Aligned(s) /\ Filed(s)
      /\ \A t \in Streams : Counted(t) /\ Counted(t)' /\ stored[t] \in Seq(Frame)
      /\ \A f \in sealed : f \in Frame /\ Framed(f) /\ Numbered(f)
      /\ \A f \in sealed' : f \in Frame
  <2>1. TypeInv /\ UniqueInv /\ Aligned(s) /\ Filed(s)
    BY DEF WriterInv
  <2>2. \A f \in sealed : Framed(f) /\ Numbered(f)
    BY DEF WriterInv
  <2>3. \A t \in Streams : Counted(t) /\ stored[t] \in Seq(Frame)
    BY <2>1, CountedAll
  <2>4. \A t \in Streams : Counted(t)'
    BY TypeInv' DEF TypeInv, TypeOK, CountsInv, Counted
  <2>5. sealed \subseteq Frame /\ sealed' \subseteq Frame
    BY <2>1 DEF TypeInv, TypeOK
  <2> QED BY <2>1, <2>2, <2>3, <2>4, <2>5
<1>00. /\ Counted(s) /\ Counted(s)' /\ Aligned(s)
       /\ Start(sequence[s]) \in Nat /\ ChunkSize \in Nat /\ Trailer \in Nat
       /\ Start(sequence[s] + 1) = Start(sequence[s]) + ChunkSize
  BY <1>0, StartNext DEF Counted
<1>1. ASSUME Create(s) PROVE Goal
  <2>1. sealed' = sealed
    BY <1>1 DEF Create
  <2>2. /\ phase[s] = "none" /\ phase'[s] = "open" /\ after'[s] = after[s]
        /\ handed'[s] = handed[s] /\ input'[s] = input[s]
        /\ pending'[s] = pending[s] /\ sequence'[s] = sequence[s]
        /\ stored'[s] = stored[s]
    BY <1>0, <1>1 DEF Create, TypeInv, TypeOK
  <2>3. Others
    BY <1>0, <1>1 DEF Create, Untouched, TypeInv, TypeOK
  <2>4. Onward(s)
    BY <2>2, <1>00 DEF Onward, Lost, Ended, Counted
  <2>5. Aligned(s)'
    BY <2>2, <1>00 DEF Aligned, Lost, Counted
  <2>6. Filed(s)'
    BY <2>1, <2>2, <1>0, FiledKept
  <2>7. UniqueInv'
    BY <2>1, <1>0 DEF UniqueInv
  <2> QED BY <2>1, <2>3, <2>4, <2>5, <2>6, <2>7
<1>2. ASSUME Write(s) PROVE Goal
  <2>1. sealed' = sealed
    BY <1>2 DEF Write, Call
  <2>2. /\ phase[s] = "open" /\ phase'[s] = "write" /\ after'[s] = "open"
        /\ handed'[s] = handed[s] + input'[s] /\ input'[s] \in Nat
        /\ pending'[s] = pending[s] /\ sequence'[s] = sequence[s]
        /\ stored'[s] = stored[s]
    BY <1>0, <1>2 DEF Write, Call, TypeInv, TypeOK
  <2>3. Others
    BY <1>0, <1>2 DEF Write, Call, Untouched, TypeInv, TypeOK
  <2>4. Onward(s)
    BY <2>2, <1>00 DEF Onward, Lost, Ended, Counted
  <2>5. Aligned(s)'
    BY <2>2, <1>00 DEF Aligned, Lost, Counted
  <2>6. Filed(s)'
    BY <2>1, <2>2, <1>0, FiledKept
  <2>7. UniqueInv'
    BY <2>1, <1>0 DEF UniqueInv
  <2> QED BY <2>1, <2>3, <2>4, <2>5, <2>6, <2>7
<1>3. ASSUME EndArchive(s) PROVE Goal
  <2>1. sealed' = sealed
    BY <1>3 DEF EndArchive, Call
  <2>2. /\ phase[s] = "open" /\ phase'[s] = "write"
        /\ after'[s] = "finish" /\ handed'[s] = handed[s] + input'[s]
        /\ input'[s] \in Nat /\ pending'[s] = pending[s]
        /\ sequence'[s] = sequence[s] /\ stored'[s] = stored[s]
    BY <1>0, <1>3 DEF EndArchive, Call, TypeInv, TypeOK
  <2>3. Others
    BY <1>0, <1>3 DEF EndArchive, Call, Untouched, TypeInv, TypeOK
  <2>4. Onward(s)
    BY <2>2, <1>00 DEF Onward, Lost, Ended, Counted
  <2>5. Aligned(s)'
    BY <2>2, <1>00 DEF Aligned, Lost, Counted
  <2>6. Filed(s)'
    BY <2>1, <2>2, <1>0, FiledKept
  <2>7. UniqueInv'
    BY <2>1, <1>0 DEF UniqueInv
  <2> QED BY <2>1, <2>3, <2>4, <2>5, <2>6, <2>7
<1>4. ASSUME DropArchive(s) PROVE Goal
  <2>1. sealed' = sealed
    BY <1>4 DEF DropArchive, Call
  <2>2. /\ phase[s] \in {"open", "failed"} /\ phase'[s] = "write"
        /\ after'[s] = "dropped" /\ handed'[s] = handed[s] + input'[s]
        /\ input'[s] = Trailer /\ pending'[s] = pending[s]
        /\ sequence'[s] = sequence[s] /\ stored'[s] = stored[s]
    BY <1>0, <1>4 DEF DropArchive, Call, TypeInv, TypeOK
  <2>3. Others
    BY <1>0, <1>4 DEF DropArchive, Call, Untouched, TypeInv, TypeOK
  <2>4. Lost(s) => Lost(s)'
    BY <2>2, <1>00 DEF Lost, Counted
  <2>5. /\ handed[s] <= handed'[s] /\ sequence[s] <= sequence'[s]
        /\ sequence[s] \in Nat /\ sequence'[s] \in Nat
    BY <2>2, <1>00 DEF Counted
  <2>6. Onward(s)
    BY <2>2, <2>4, <2>5 DEF Onward, Ended
  <2>7. Aligned(s)'
    BY <2>2, <2>4, <1>00 DEF Aligned, Counted
  <2>8. Filed(s)'
    BY <2>1, <2>2, <1>0, FiledKept
  <2>9. UniqueInv'
    BY <2>1, <1>0 DEF UniqueInv
  <2> QED BY <2>1, <2>3, <2>6, <2>7, <2>8, <2>9
<1>5. ASSUME SealChunk(s) PROVE Goal
  <2>1. /\ sequence' = [sequence EXCEPT ![s] = sequence[s] + 1]
        /\ \E f : /\ Sealing(f, s, "data", ChunkSize)
                  /\ sealed' = sealed \cup {f}
                  /\ stored' = [stored EXCEPT ![s] = Append(stored[s], f)]
        /\ sequence' \in [Streams -> 0 .. MaxSequence]
        /\ sealed' \subseteq Frame /\ stored' \in [Streams -> Seq(Frame)]
    BY <1>0, <1>5, WriteFrameFacts DEF SealChunk, TypeInv, TypeOK
  <2>2. /\ phase[s] = "write" /\ pending[s] + input[s] >= ChunkSize
        /\ phase'[s] = phase[s] /\ after'[s] = after[s]
        /\ handed'[s] = handed[s]
        /\ input'[s] = pending[s] + input[s] - ChunkSize
        /\ pending'[s] = 0 /\ sequence'[s] = sequence[s] + 1
    BY <2>1, <1>0, <1>5 DEF SealChunk, Full, TypeInv, TypeOK
  <2>3. Others
    BY <2>1, <1>0, <1>5 DEF SealChunk, Full, Untouched, TypeInv, TypeOK
  <2>4. Lost(s) => Lost(s)'
    BY <2>2, <1>00 DEF Lost, Counted
  <2>5. /\ handed[s] <= handed'[s] /\ sequence[s] <= sequence'[s]
        /\ sequence[s] \in Nat /\ sequence'[s] \in Nat
    BY <2>2, <1>00 DEF Counted
  <2>6. Onward(s)
    BY <2>2, <2>4, <2>5 DEF Onward, Ended
  <2>7. Aligned(s)'
    BY <2>2, <2>4, <1>00 DEF Aligned, Counted
  <2>8. ~Lost(s)
    BY <2>2, <1>00 DEF Lost, Counted
  <2>9. \A g \in sealed : ~(g.of = s /\ g.sequence = sequence[s])
    BY <2>8, <1>0 DEF Numbered
  <2>10. PICK f : /\ Sealing(f, s, "data", ChunkSize)
                 /\ sealed' = sealed \cup {f}
                 /\ stored' = [stored EXCEPT ![s] = Append(stored[s], f)]
    BY <2>1
  <2>11. UniqueInv'
    BY <2>10, <2>9, <1>0 DEF UniqueInv, Sealing
  <2>12. Numbered(f)'
    BY <2>10, <2>2, <2>5 DEF Numbered, Sealing, NonceFits
  <2>13. f.body = Run(s, Start(sequence[s]), Len(f.body)) /\ Len(f.body) \in 1 .. ChunkSize
    <3>1. handed[s] - input[s] - pending[s] = Start(sequence[s])
      BY <2>2, <2>8, <1>00 DEF Aligned, Counted
    <3>2. Len(f.body) = ChunkSize
          /\ f.body = Run(s, handed[s] - input[s] - pending[s], ChunkSize)
      BY <2>10 DEF Sealing
    <3>3. ChunkSize \in 1 .. ChunkSize
      BY <1>00 DEF Counted
    <3> QED BY <3>1, <3>2, <3>3
  <2>14. Framed(f)'
    <3>1. f.type = "data" /\ f.of = s /\ f.sequence = sequence[s] /\ Len(f.body) = ChunkSize
      BY <2>10 DEF Sealing
    <3>2. Start(sequence[s]) + ChunkSize <= handed'[s]
      BY <2>2, <2>8, <1>00 DEF Aligned, Counted
    <3> QED BY <3>1, <3>2, <2>13 DEF Framed, DataFrame
  <2>15. /\ stored'[s] = Append(stored[s], f) /\ Len(stored'[s]) = Len(stored[s]) + 1
        /\ \A i \in 1 .. Len(stored[s]) : stored'[s][i] = stored[s][i]
        /\ stored'[s][Len(stored[s]) + 1] = f
    <3>1. stored'[s] = Append(stored[s], f) /\ f \in Frame
      BY <2>10, <1>0 DEF Sealing, TypeInv, TypeOK
    <3> QED BY <3>1, <1>0, AppendProperties
  <2>16. \A i \in 1 .. Len(stored[s]) : stored[s][i].type # "final"
    <3>1. \A g \in sealed : g.of = s => g.type # "final"
      BY <2>2, <1>0 DEF Framed, FinalFrame, Ended
    <3> QED BY <3>1, <1>0 DEF Filed
  <2>17. Filed(s)'
    <3>1. Filed(s) /\ Len(stored[s]) \in Nat
      BY <1>0, <1>00 DEF Filed, Counted
    <3>2. ASSUME NEW i \in 1 .. Len(stored[s]) + 1
          PROVE  /\ stored'[s][i] \in sealed' /\ stored'[s][i].of = s
                 /\ stored'[s][i].sequence = i - 1
                 /\ stored'[s][i].type = "final" => i = Len(stored[s]) + 1
      <4>1. CASE i = Len(stored[s]) + 1
        BY <2>10, <2>15, <3>1, <4>1 DEF Filed, Sealing
      <4>2. CASE i # Len(stored[s]) + 1
        <5>1. i \in 1 .. Len(stored[s])
          BY <3>1, <4>2
        <5> QED BY <2>10, <2>15, <2>16, <3>1, <5>1 DEF Filed
      <4> QED BY <4>1, <4>2
    <3> QED BY <2>10, <2>2, <2>15, <3>1, <3>2 DEF Filed, Sealing
  <2> QED BY <2>10, <2>3, <2>6, <2>7, <2>11, <2>12, <2>14, <2>17
<1>6. ASSUME SealChunkFails(s) PROVE Goal
  <2>1. /\ sequence' = sequence /\ stored' = stored
        /\ \/ sealed' = sealed
           \/ \E f : Sealing(f, s, "data", ChunkSize) /\ sealed' = sealed \cup {f}
        /\ sealed' \subseteq Frame
    BY <1>0, <1>6, WriteFrameFailsFacts DEF SealChunkFails, TypeInv, TypeOK
  <2>2. /\ phase[s] = "write" /\ pending[s] + input[s] >= ChunkSize
        /\ phase'[s] = IF after[s] = "open" THEN "failed" ELSE "dropped"
        /\ after'[s] = after[s] /\ handed'[s] = handed[s] /\ input'[s] = 0
        /\ pending'[s] = 0 /\ sequence'[s] = sequence[s]
        /\ stored'[s] = stored[s]
    BY <2>1, <1>0, <1>6 DEF SealChunkFails, Full, TypeInv, TypeOK
  <2>3. Others
    BY <2>1, <1>0, <1>6 DEF SealChunkFails, Full, Untouched, TypeInv, TypeOK
  <2>4. Onward(s)
    BY <2>2, <1>00 DEF Onward, Lost, Ended, Counted
  <2>5. Aligned(s)'
    BY <2>2, <1>00 DEF Aligned, Lost, Counted
  <2>6. ~Lost(s)
    BY <2>2, <1>00 DEF Lost, Counted
  <2>7. \A g \in sealed : ~(g.of = s /\ g.sequence = sequence[s])
    BY <2>6, <1>0 DEF Numbered
  <2>8. Filed(s)'
    BY <2>1, <2>2, <1>0, FiledKept
  <2>9. CASE sealed' = sealed
    <3>1. UniqueInv'
      BY <2>9, <1>0 DEF UniqueInv
    <3> QED BY <2>3, <2>4, <2>5, <2>8, <2>9, <3>1
  <2>10. ASSUME NEW f, Sealing(f, s, "data", ChunkSize), sealed' = sealed \cup {f}
        PROVE  Goal
    <3>1. UniqueInv'
      BY <2>10, <2>7, <1>0 DEF UniqueInv, Sealing
    <3>2. Numbered(f)'
      BY <2>10, <2>2, <1>00 DEF Numbered, Sealing, NonceFits, Lost, Counted
    <3>3. f.body = Run(s, Start(sequence[s]), Len(f.body)) /\ Len(f.body) \in 1 .. ChunkSize
      <4>1. handed[s] - input[s] - pending[s] = Start(sequence[s])
        BY <2>2, <2>6, <1>00 DEF Aligned, Counted
      <4>2. Len(f.body) = ChunkSize
            /\ f.body = Run(s, handed[s] - input[s] - pending[s], ChunkSize)
        BY <2>10 DEF Sealing
      <4>3. ChunkSize \in 1 .. ChunkSize
        BY <1>00 DEF Counted
      <4> QED BY <4>1, <4>2, <4>3
    <3>4. Framed(f)'
      <4>1. f.type = "data" /\ f.of = s /\ f.sequence = sequence[s] /\ Len(f.body) = ChunkSize
        BY <2>10 DEF Sealing
      <4>2. Start(sequence[s]) + ChunkSize <= handed'[s]
        BY <2>2, <2>6, <1>00 DEF Aligned, Counted
      <4> QED BY <4>1, <4>2, <3>3 DEF Framed, DataFrame
    <3> QED BY <2>10, <2>3, <2>4, <2>5, <2>8, <3>1, <3>2, <3>4
  <2> QED BY <2>1, <2>9, <2>10
<1>7. ASSUME KeepRest(s) PROVE Goal
  <2>1. sealed' = sealed
    BY <1>7 DEF KeepRest, Full
  <2>2. /\ phase[s] = "write" /\ pending[s] + input[s] < ChunkSize
        /\ phase'[s] = after[s] /\ after'[s] = after[s]
        /\ handed'[s] = handed[s] /\ input'[s] = 0
        /\ pending'[s] = pending[s] + input[s]
        /\ sequence'[s] = sequence[s] /\ stored'[s] = stored[s]
    BY <1>0, <1>7 DEF KeepRest, Full, TypeInv, TypeOK
  <2>3. Others
    BY <1>0, <1>7 DEF KeepRest, Full, Untouched, TypeInv, TypeOK
  <2>4. Onward(s)
    BY <2>2, <1>00 DEF Onward, Lost, Ended, Counted
  <2>5. Aligned(s)'
    BY <2>2, <1>00 DEF Aligned, Lost, Counted
  <2>6. Filed(s)'
    BY <2>1, <2>2, <1>0, FiledKept DEF Counted
  <2>7. UniqueInv'
    BY <2>1, <1>0 DEF UniqueInv
  <2> QED BY <2>1, <2>3, <2>4, <2>5, <2>6, <2>7
<1>8. ASSUME SealRest(s) PROVE Goal
  <2>1. /\ sequence' = [sequence EXCEPT ![s] = sequence[s] + 1]
        /\ \E f : /\ Sealing(f, s, "data", pending[s])
                  /\ sealed' = sealed \cup {f}
                  /\ stored' = [stored EXCEPT ![s] = Append(stored[s], f)]
        /\ sequence' \in [Streams -> 0 .. MaxSequence]
        /\ sealed' \subseteq Frame /\ stored' \in [Streams -> Seq(Frame)]
    BY <1>0, <1>8, WriteFrameFacts DEF SealRest, TypeInv, TypeOK
  <2>2. /\ phase[s] = "finish" /\ pending[s] > 0 /\ phase'[s] = phase[s]
        /\ after'[s] = after[s] /\ handed'[s] = handed[s]
        /\ input'[s] = input[s] /\ pending'[s] = 0
        /\ sequence'[s] = sequence[s] + 1
    BY <2>1, <1>0, <1>8 DEF SealRest, TypeInv, TypeOK
  <2>3. Others
    BY <2>1, <1>0, <1>8 DEF SealRest, Untouched, TypeInv, TypeOK
  <2>4. Lost(s) => Lost(s)'
    BY <2>2, <1>00 DEF Lost, Counted
  <2>5. /\ handed[s] <= handed'[s] /\ sequence[s] <= sequence'[s]
        /\ sequence[s] \in Nat /\ sequence'[s] \in Nat
    BY <2>2, <1>00 DEF Counted
  <2>6. Onward(s)
    BY <2>2, <2>4, <2>5 DEF Onward, Ended
  <2>7. Aligned(s)'
    BY <2>2, <2>4, <1>00 DEF Aligned, Counted
  <2>8. ~Lost(s)
    BY <2>2, <1>00 DEF Lost, Counted
  <2>9. \A g \in sealed : ~(g.of = s /\ g.sequence = sequence[s])
    BY <2>8, <1>0 DEF Numbered
  <2>10. PICK f : /\ Sealing(f, s, "data", pending[s])
                 /\ sealed' = sealed \cup {f}
                 /\ stored' = [stored EXCEPT ![s] = Append(stored[s], f)]
    BY <2>1
  <2>11. UniqueInv'
    BY <2>10, <2>9, <1>0 DEF UniqueInv, Sealing
  <2>12. Numbered(f)'
    BY <2>10, <2>2, <2>5 DEF Numbered, Sealing, NonceFits
  <2>13. input[s] = 0 /\ handed[s] - 0 - pending[s] = Start(sequence[s]) /\ pending[s] \in 1 .. ChunkSize
    BY SMTT(30), <2>2, <2>8, <1>00 DEF Aligned, Lost, Counted
  <2>14. f.body = Run(s, Start(sequence[s]), Len(f.body)) /\ Len(f.body) \in 1 .. ChunkSize
    BY <2>10, <2>13, <2>2, <2>8, <1>00 DEF Aligned, Sealing, Counted, Lost
  <2>15. /\ f.of = s /\ f.sequence = sequence[s] /\ f.type = "data"
        /\ after'[s] = "finish" /\ phase'[s] = "finish" /\ handed'[s] = Start(sequence[s]) + Len(f.body)
    BY <2>10, <2>13, <2>2, <1>00 DEF Sealing, Counted
  <2>16. Framed(f)'
    BY <2>15, <2>14, <1>00 DEF Framed, DataFrame, Ended, Run
  <2>17. /\ stored'[s] = Append(stored[s], f) /\ Len(stored'[s]) = Len(stored[s]) + 1
        /\ \A i \in 1 .. Len(stored[s]) : stored'[s][i] = stored[s][i]
        /\ stored'[s][Len(stored[s]) + 1] = f
    <3>1. stored'[s] = Append(stored[s], f) /\ f \in Frame
      BY <2>10, <2>13, <1>0 DEF Sealing, TypeInv, TypeOK
    <3> QED BY <3>1, <1>0, AppendProperties
  <2>18. \A i \in 1 .. Len(stored[s]) : stored[s][i].type # "final"
    <3>1. \A g \in sealed : g.of = s => g.type # "final"
      BY <2>2, <1>0 DEF Framed, FinalFrame, Ended
    <3> QED BY <3>1, <1>0 DEF Filed
  <2>19. Filed(s)'
    <3>1. Filed(s) /\ Len(stored[s]) \in Nat
      BY <1>0, <1>00 DEF Filed, Counted
    <3>2. ASSUME NEW i \in 1 .. Len(stored[s]) + 1
          PROVE  /\ stored'[s][i] \in sealed' /\ stored'[s][i].of = s
                 /\ stored'[s][i].sequence = i - 1
                 /\ stored'[s][i].type = "final" => i = Len(stored[s]) + 1
      <4>1. CASE i = Len(stored[s]) + 1
        BY <2>10, <2>13, <2>17, <3>1, <4>1 DEF Filed, Sealing
      <4>2. CASE i # Len(stored[s]) + 1
        <5>1. i \in 1 .. Len(stored[s])
          BY <3>1, <4>2
        <5> QED BY <2>10, <2>13, <2>17, <2>18, <3>1, <5>1 DEF Filed
      <4> QED BY <4>1, <4>2
    <3> QED BY <2>10, <2>13, <2>2, <2>17, <3>1, <3>2 DEF Filed, Sealing
  <2> QED BY <2>10, <2>13, <2>3, <2>6, <2>7, <2>11, <2>12, <2>16, <2>19
<1>9. ASSUME SealFinal(s) PROVE Goal
  <2>1. /\ sequence' = [sequence EXCEPT ![s] = sequence[s] + 1]
        /\ \E f : /\ Sealing(f, s, "final", 0)
                  /\ sealed' = sealed \cup {f}
                  /\ stored' = [stored EXCEPT ![s] = Append(stored[s], f)]
        /\ sequence' \in [Streams -> 0 .. MaxSequence]
        /\ sealed' \subseteq Frame /\ stored' \in [Streams -> Seq(Frame)]
    BY SMTT(30), <1>0, <1>9, WriteFrameFacts DEF SealFinal, TypeInv, TypeOK
  <2>2. /\ phase[s] = "finish" /\ pending[s] = 0
        /\ phase'[s] \in {"finished", "dropped"} /\ after'[s] = after[s]
        /\ handed'[s] = handed[s] /\ input'[s] = input[s]
        /\ pending'[s] = pending[s] /\ sequence'[s] = sequence[s] + 1
    BY <2>1, <1>0, <1>9 DEF SealFinal, TypeInv, TypeOK
  <2>3. Others
    BY <2>1, <1>0, <1>9 DEF SealFinal, Untouched, TypeInv, TypeOK
  <2>4. Lost(s) => Lost(s)'
    BY <2>2, <1>00 DEF Lost, Counted
  <2>5. /\ handed[s] <= handed'[s] /\ sequence[s] <= sequence'[s]
        /\ sequence[s] \in Nat /\ sequence'[s] \in Nat
    BY <2>2, <1>00 DEF Counted
  <2>6. Onward(s)
    BY <2>2, <2>4, <2>5 DEF Onward, Ended
  <2>7. Aligned(s)'
    BY <2>2 DEF Aligned, Lost
  <2>8. ~Lost(s)
    BY <2>2, <1>00 DEF Lost, Counted
  <2>9. \A g \in sealed : ~(g.of = s /\ g.sequence = sequence[s])
    BY <2>8, <1>0 DEF Numbered
  <2>10. PICK f : /\ Sealing(f, s, "final", 0)
                 /\ sealed' = sealed \cup {f}
                 /\ stored' = [stored EXCEPT ![s] = Append(stored[s], f)]
    BY <2>1
  <2>11. UniqueInv'
    BY <2>10, <2>9, <1>0 DEF UniqueInv, Sealing
  <2>12. Numbered(f)'
    BY <2>10, <2>2, <2>5 DEF Numbered, Sealing, NonceFits
  <2>13. f.body = << >>
    BY <2>10, EmptySeq DEF Sealing, Frame, Run
  <2>14. after[s] = "finish" /\ handed[s] <= Start(sequence[s])
    BY <2>2, <2>8, <1>00 DEF Aligned, Lost, Counted
  <2>15. Framed(f)'
    BY <2>10, <2>2, <2>14, <2>13 DEF Framed, FinalFrame, Ended, Sealing
  <2>16. /\ stored'[s] = Append(stored[s], f) /\ Len(stored'[s]) = Len(stored[s]) + 1
        /\ \A i \in 1 .. Len(stored[s]) : stored'[s][i] = stored[s][i]
        /\ stored'[s][Len(stored[s]) + 1] = f
    <3>1. stored'[s] = Append(stored[s], f) /\ f \in Frame
      BY <2>10, <1>0 DEF Sealing, TypeInv, TypeOK
    <3> QED BY <3>1, <1>0, AppendProperties
  <2>17. \A i \in 1 .. Len(stored[s]) : stored[s][i].type # "final"
    <3>1. \A g \in sealed : g.of = s => g.type # "final"
      BY <2>2, <1>0 DEF Framed, FinalFrame, Ended
    <3> QED BY <3>1, <1>0 DEF Filed
  <2>18. Filed(s)'
    <3>1. Filed(s) /\ Len(stored[s]) \in Nat
      BY <1>0, <1>00 DEF Filed, Counted
    <3>2. ASSUME NEW i \in 1 .. Len(stored[s]) + 1
          PROVE  /\ stored'[s][i] \in sealed' /\ stored'[s][i].of = s
                 /\ stored'[s][i].sequence = i - 1
                 /\ stored'[s][i].type = "final" => i = Len(stored[s]) + 1
      <4>1. CASE i = Len(stored[s]) + 1
        BY <2>10, <2>16, <3>1, <4>1 DEF Filed, Sealing
      <4>2. CASE i # Len(stored[s]) + 1
        <5>1. i \in 1 .. Len(stored[s])
          BY <3>1, <4>2
        <5> QED BY <2>10, <2>16, <2>17, <3>1, <5>1 DEF Filed
      <4> QED BY <4>1, <4>2
    <3> QED BY <2>10, <2>2, <2>16, <3>1, <3>2 DEF Filed, Sealing
  <2> QED BY <2>10, <2>3, <2>6, <2>7, <2>11, <2>12, <2>15, <2>18
<1>10. ASSUME FinishFails(s) PROVE Goal
  <2>1. /\ sequence' = sequence /\ stored' = stored
        /\ \/ sealed' = sealed
           \/ \E f : Sealing(f, s, IF pending[s] > 0 THEN "data" ELSE "final", pending[s]) /\ sealed' = sealed \cup {f}
        /\ sealed' \subseteq Frame
    BY <1>0, <1>10, WriteFrameFailsFacts DEF FinishFails, TypeInv, TypeOK
  <2>2. /\ phase[s] = "finish" /\ phase'[s] = "dropped"
        /\ after'[s] = after[s] /\ handed'[s] = handed[s]
        /\ input'[s] = input[s] /\ pending'[s] = pending[s]
        /\ sequence'[s] = sequence[s] /\ stored'[s] = stored[s]
    BY <2>1, <1>0, <1>10 DEF FinishFails, TypeInv, TypeOK
  <2>3. Others
    BY <2>1, <1>0, <1>10 DEF FinishFails, Untouched, TypeInv, TypeOK
  <2>4. Onward(s)
    BY <2>2, <1>00 DEF Onward, Lost, Ended, Counted
  <2>5. Aligned(s)'
    BY <2>2, <1>00 DEF Aligned, Lost, Counted
  <2>6. ~Lost(s)
    BY <2>2, <1>00 DEF Lost, Counted
  <2>7. \A g \in sealed : ~(g.of = s /\ g.sequence = sequence[s])
    BY <2>6, <1>0 DEF Numbered
  <2>8. Filed(s)'
    BY <2>1, <2>2, <1>0, FiledKept
  <2>9. CASE sealed' = sealed
    <3>1. UniqueInv'
      BY <2>9, <1>0 DEF UniqueInv
    <3> QED BY <2>3, <2>4, <2>5, <2>8, <2>9, <3>1
  <2>10. ASSUME NEW f, Sealing(f, s, IF pending[s] > 0 THEN "data" ELSE "final", pending[s]), sealed' = sealed \cup {f}
        PROVE  Goal
    <3>1. UniqueInv'
      BY <2>10, <2>7, <1>0 DEF UniqueInv, Sealing
    <3>2. Numbered(f)'
      BY <2>10, <2>2, <1>00 DEF Numbered, Sealing, NonceFits, Lost, Counted
    <3>3. CASE pending[s] > 0
      <4>1. f.body = Run(s, Start(sequence[s]), Len(f.body)) /\ Len(f.body) \in 1 .. ChunkSize
        BY <2>10, <2>2, <2>6, <3>3, <1>00 DEF Aligned, Sealing, Counted, Lost
      <4>2. Framed(f)'
        BY <2>10, <2>2, <2>6, <3>3, <4>1, <1>00
        DEF Framed, DataFrame, Ended, Aligned, Lost, Sealing, Counted, Run
      <4> QED BY <2>10, <2>3, <2>4, <2>5, <2>8, <3>1, <3>2, <4>2
    <3>4. CASE ~(pending[s] > 0)
      <4>1. f.body = << >>
        BY SMTT(30), <2>10, <3>4, <1>00, EmptySeq DEF Sealing, Frame, Run, Counted
      <4>2. Framed(f)'
        BY <2>10, <2>2, <2>6, <3>4, <4>1, <1>00
        DEF Framed, FinalFrame, Ended, Aligned, Lost, Sealing, Counted
      <4> QED BY <2>10, <2>3, <2>4, <2>5, <2>8, <3>1, <3>2, <4>2
    <3> QED BY <3>3, <3>4
  <2> QED BY <2>1, <2>9, <2>10
<1>11. Goal
  BY <1>1, <1>2, <1>3, <1>4, <1>5, <1>6, <1>7, <1>8, <1>9, <1>10 DEF
     WriterStep
<1>12. \A t \in Streams : Onward(t) /\ Aligned(t)' /\ Filed(t)'
  <2> SUFFICES ASSUME NEW t \in Streams PROVE Onward(t) /\ Aligned(t)' /\ Filed(t)'
    OBVIOUS
  <2>1. CASE t = s
    BY <1>11, <2>1
  <2>2. CASE t # s
    <3>1. Untouched(t) /\ Counted(t) /\ Aligned(t) /\ Filed(t)
      BY <1>0, <1>11, <2>2 DEF WriterInv
    <3>2. Filed(t)'
      BY <3>1, <1>11, FiledKept DEF Untouched
    <3> QED BY <3>1, <3>2, UntouchedIsOnward
  <2> QED BY <2>1, <2>2
<1>13. \A f \in sealed' : Framed(f)' /\ Numbered(f)'
  <2> SUFFICES ASSUME NEW f \in sealed PROVE Framed(f)' /\ Numbered(f)'
    BY <1>11
  <2>1. f \in Frame /\ f.of \in Streams
    BY <1>0, FrameFields
  <2> QED BY <2>1, <1>0, <1>12, FrameKept
<1> QED BY <1>0, <1>11, <1>12, <1>13 DEF WriterInv

\* The reader's numbers are numbers.
LEMMA ReaderTypes ==
    ASSUME TypeInv
    PROVE  /\ expected \in Nat /\ offset \in Nat /\ Start(expected) \in Nat
           /\ Start(expected + 1) = Start(expected) + ChunkSize
           /\ out \in Seq(Byte) /\ Len(out) \in Nat
           /\ plaintext \in Seq(Byte) /\ Len(plaintext) \in Nat
           /\ file # None => file \in Streams /\ Counted(file)
<1>1. expected \in Nat /\ offset \in Nat /\ out \in Seq(Byte) /\ plaintext \in Seq(Byte)
  BY DEF TypeInv, TypeOK
<1>2. file # None => file \in Streams
  BY DEF TypeInv, TypeOK
<1>3. Len(out) \in Nat /\ Len(plaintext) \in Nat
  BY <1>1, LenProperties
<1> QED BY <1>1, <1>2, <1>3, StartNext, CountedAll

\* The writers go on: what has been read stays true.
LEMMA ReaderKept ==
    ASSUME WriterInv, TypeInv', ReaderInv, UNCHANGED reader, \A t \in Streams : Onward(t)
    PROVE  ReaderInv'
<1>1. CASE file = None
  BY <1>1 DEF ReaderInv, Fresh
<1>2. CASE file # None
  <2>1. /\ file \in Streams /\ Counted(file) /\ Onward(file) /\ Received' = Received
        /\ handed'[file] \in Nat /\ Len(out) \in Nat /\ Received \in Int
    BY SMTT(30), <1>2, ReaderTypes DEF WriterInv, TypeInv, TypeOK, Received
  <2>2. InStep => InStep'
    BY <2>1 DEF InStep, Onward, Counted, Run
  <2>3. Complete => Complete'
    BY <2>1 DEF Complete, Onward, Run
  <2>4. Intact => Intact'
    BY <2>1 DEF Intact, Onward, Ended, Counted
  <2>5. Len(out) <= handed[file] => Len(out') <= handed'[file]
    BY <2>1 DEF Onward, Counted
  <2> QED BY <1>2, <2>2, <2>3, <2>4, <2>5 DEF ReaderInv, Run
<1> QED BY <1>1, <1>2

LEMMA OpenStep ==
    ASSUME WriterInv, ReaderInv, NEW s \in Streams, OpenFile(s)
    PROVE  ReaderInv'
<1>1. Fresh /\ Fresh' /\ file' = s /\ file' # None /\ UNCHANGED writing
  BY NoneAssumption DEF OpenFile, ReaderInv, Fresh
<1>2. << >> = Run(s, 0, 0)
  BY DEF Run
<1>3. Counted(s) /\ Filed(s)
  BY CountedAll DEF WriterInv
<1>4. InStep'
  <2>1. Len(out') = 0 /\ Len(plaintext') = 0 /\ offset' = 0 /\ expected' = 0
    BY <1>1 DEF Fresh
  <2>2. plaintext' = Run(s, 0, 0) /\ handed'[s] \in Nat
    BY <1>1, <1>2, <1>3 DEF Fresh, Counted
  <2>3. Received' = 0 /\ Start(expected') = 0 /\ 0 <= handed'[s]
    BY <1>1, <2>1, <2>2, SizeAssumption DEF Received, Start
  <2>4. plaintext' = Run(file, Len(out) - offset, Len(plaintext))'
    BY <1>1, <2>1, <2>2 DEF Run
  <2> QED BY <1>1, <2>1, <2>3, <2>4, StartNext DEF InStep, Start
<1>5. damaged' \/ Intact'
  BY <1>1, <1>3 DEF OpenFile, Intact, Fresh, Filed, Counted
<1>6. Len(out') <= handed'[s] /\ out' = Run(s, 0, Len(out'))
  BY <1>1, <1>2, <1>3 DEF Fresh, Counted
<1> QED BY <1>1, <1>4, <1>5, <1>6 DEF ReaderInv, OpenFile, Fresh, Run

\* A frame that passes the checks is the one that is due.
LEMMA DueFrame ==
    ASSUME WriterInv, ReaderInv, NeedsFrame
    PROVE  /\ file \in Streams /\ file # None /\ InStep /\ ~finalized
           /\ Received = Len(out)
           /\ \A f \in sealed, h \in Header :
                WellFormed(h) /\ Opens(h, f) =>
                    /\ f.of = file /\ f.sequence = expected /\ h.type = f.type
                    /\ Framed(f)
<1>1. file # None /\ ~finalized
  BY DEF NeedsFrame, Active, ReaderInv
<1>2. InStep /\ Received = Len(out)
  BY <1>1, ReaderTypes DEF ReaderInv, NeedsFrame, InStep, Received, WriterInv
<1>3. \A f \in sealed, h \in Header :
        WellFormed(h) /\ Opens(h, f) =>
            f.of = file /\ f.sequence = expected /\ h.type = f.type /\ Framed(f)
  BY DEF WellFormed, Opens, HeaderOf, WriterInv
<1> QED BY <1>1, <1>2, <1>3, ReaderTypes DEF WriterInv

LEMMA ReadDataStep ==
    ASSUME WriterInv, TypeInv', ReaderInv, ReadData
    PROVE  ReaderInv'
<1>1. NeedsFrame
  BY DEF ReadData
<1>2. PICK f \in sealed, h \in Header :
        /\ Given(h, f) /\ WellFormed(h) /\ Opens(h, f) /\ h.type = "data"
        /\ plaintext' = f.body
  BY DEF ReadData
<1>3. /\ file \in Streams /\ file # None /\ InStep /\ ~finalized /\ Received = Len(out)
      /\ f.of = file /\ f.sequence = expected /\ f.type = "data" /\ DataFrame(f)
  BY <1>1, <1>2, DueFrame DEF Framed
<1>4. /\ expected \in Nat /\ Start(expected) \in Nat /\ Len(out) \in Nat /\ ChunkSize \in Nat
      /\ Start(expected + 1) = Start(expected) + ChunkSize
      /\ handed[file] \in Nat /\ Len(f.body) \in 1 .. ChunkSize
  BY <1>3, ReaderTypes DEF WriterInv, Counted, DataFrame
<1>5. /\ expected' = expected + 1 /\ offset' = 0 /\ plaintext' = f.body
      /\ UNCHANGED <<file, damaged, reading, finalized, out, writing>>
  BY <1>2 DEF ReadData
<1>6. Len(out) = Start(expected)
  BY <1>3, <1>4 DEF InStep, DataFrame
<1>7. InStep'
  <2>1. Received' = Start(expected) + Len(f.body) /\ Received' <= handed[file]
    BY <1>3, <1>4, <1>5, <1>6 DEF Received, DataFrame
  <2>2. plaintext' = Run(file, Len(out') - offset', Len(plaintext'))
    BY <1>3, <1>4, <1>5, <1>6 DEF DataFrame
  <2>3. Len(f.body) = ChunkSize \/ (Ended(file) /\ handed[file] = Received')
    <3>1. CASE Len(f.body) = ChunkSize
      BY <3>1
    <3>2. CASE Len(f.body) # ChunkSize
      <4>1. Len(f.body) < ChunkSize
        BY <1>4, <3>2
      <4> QED BY <1>3, <2>1, <4>1 DEF DataFrame
    <3> QED BY <3>1, <3>2
  <2> QED BY <1>4, <1>5, <2>1, <2>2, <2>3 DEF InStep, Ended, Run
<1>8. Intact => damaged \/ Intact'
  <2> SUFFICES ASSUME Intact, ~damaged PROVE Intact'
    OBVIOUS
  <2>1. Filed(file) /\ f = stored[file][expected + 1] /\ expected < Len(stored[file])
    BY <1>2, <1>3 DEF Given, WriterInv
  <2>2. expected + 1 # Len(stored[file]) /\ Len(stored[file]) \in Nat
    BY <1>3, <2>1, ReaderTypes DEF Intact, Filed, Counted, WriterInv
  <2> QED BY <1>4, <1>5, <2>1, <2>2 DEF Intact
<1> QED BY <1>3, <1>5, <1>7, <1>8 DEF ReaderInv, Run

LEMMA ReadFinalStep ==
    ASSUME WriterInv, TypeInv', ReaderInv, ReadFinal
    PROVE  ReaderInv'
<1>1. NeedsFrame
  BY DEF ReadFinal
<1>2. PICK f \in sealed, h \in Header :
        Given(h, f) /\ WellFormed(h) /\ Opens(h, f) /\ h.type = "final"
  BY DEF ReadFinal
<1>3. /\ file \in Streams /\ file # None /\ InStep /\ ~finalized /\ Received = Len(out)
      /\ f.of = file /\ f.sequence = expected /\ FinalFrame(f)
  BY <1>1, <1>2, DueFrame DEF Framed
<1>4. /\ expected' = expected + 1 /\ plaintext' = << >> /\ finalized' = TRUE
      /\ UNCHANGED <<file, damaged, reading, out, writing>>
  BY DEF ReadFinal
<1>5. Len(out) = handed[file]
  BY <1>3, ReaderTypes DEF InStep, FinalFrame, WriterInv, Counted
<1>6. out = Run(file, 0, Len(out))
  BY <1>3 DEF ReaderInv
<1>7. Complete'
  BY <1>3, <1>4, <1>5, <1>6 DEF Complete, FinalFrame, Ended, Run
<1>8. Intact => Intact'
  BY <1>4 DEF Intact
<1> QED BY <1>3, <1>4, <1>7, <1>8 DEF ReaderInv, Run

\* Nothing but damage makes the reader refuse a frame.
LEMMA RefuseStep ==
    ASSUME WriterInv, ReaderInv, Refuse
    PROVE  ReaderInv'
<1>1. NeedsFrame /\ reading' = "refused"
      /\ UNCHANGED <<file, damaged, expected, plaintext, offset, finalized, out, writing>>
  BY DEF Refuse
<1>2. /\ file \in Streams /\ file # None /\ ~finalized /\ reading # "closed"
      /\ finalized \/ InStep
  BY <1>1, DueFrame DEF NeedsFrame, Active
<1>3. ASSUME ~damaged PROVE FALSE
  <2>1. Intact /\ Filed(file) /\ Counted(file) /\ expected \in Nat
    BY <1>2, <1>3, ReaderTypes DEF ReaderInv, WriterInv
  <2>2. expected < Len(stored[file]) /\ Len(stored[file]) = sequence[file]
    BY <1>2, <2>1 DEF Intact, Filed
  <2>3. expected < MaxSequence /\ sequence[file] \in 0 .. MaxSequence
    BY <1>2, <2>1, <2>2, WidthAssumption DEF WriterInv, TypeInv, TypeOK
  <2>4. PICK f \in sealed, h \in Header :
            /\ Given(h, f)
            /\ ~(WellFormed(h) /\ Opens(h, f) /\ (h.type = "final" => ~MoreFollows))
    BY <1>3, <2>1, <2>2, <2>3 DEF Refuse, Counted
  <2>5. /\ f = stored[file][expected + 1] /\ h = HeaderOf(f)
        /\ expected + 1 \in 1 .. Len(stored[file]) /\ expected + 1 - 1 = expected
    BY <1>3, <2>1, <2>2, <2>4 DEF Given, Counted
  <2>6. /\ f.of = file /\ f.sequence = expected /\ f \in Frame
        /\ f.type = "final" => expected + 1 = Len(stored[file])
    BY <2>1, <2>5, <2>4, CountedAll DEF Filed, WriterInv
  <2>7. Framed(f) /\ NonceFits(file, expected)
    BY <2>4, <2>6 DEF WriterInv, Numbered
  <2>8. f.type = "final" => ~MoreFollows
    BY <2>1, <2>2, <2>6 DEF MoreFollows, Counted
  <2>9. /\ Len(f.body) <= ChunkSize /\ f.type \in {"data", "final"}
        /\ f.type = "final" => Len(f.body) = 0
    BY <2>6, <2>7, FrameFields DEF Framed, DataFrame, FinalFrame
  <2>10. WellFormed(h) /\ Opens(h, f)
    BY <2>5, <2>6, <2>7, <2>9 DEF WellFormed, Opens, HeaderOf
  <2> QED BY <2>4, <2>5, <2>8, <2>10 DEF HeaderOf
<1>4. /\ (Fresh' <=> Fresh) /\ (InStep' <=> InStep)
      /\ (Intact' <=> Intact) /\ (Complete' <=> Complete)
  BY <1>1 DEF Fresh, InStep, Intact, Complete, Received, Ended, Run
<1> QED BY <1>1, <1>2, <1>3, <1>4 DEF ReaderInv, Run

LEMMA DeliverStep ==
    ASSUME WriterInv, TypeInv', ReaderInv, Deliver
    PROVE  ReaderInv'
<1>1. PICK n \in 1 .. Len(plaintext) - offset :
            /\ out' = out \o SubSeq(plaintext, offset + 1, offset + n)
            /\ offset' = offset + n
  BY DEF Deliver
<1>2. /\ UNCHANGED <<file, damaged, reading, expected, plaintext, finalized, writing>>
      /\ offset < Len(plaintext) /\ reading # "closed"
  BY DEF Deliver, Active
<1>3. /\ file \in Streams /\ file # None /\ offset \in Nat /\ Len(out) \in Nat
      /\ Len(plaintext) \in Nat /\ Counted(file)
  BY <1>2, ReaderTypes DEF ReaderInv, WriterInv
<1>4. ~finalized /\ InStep
  BY <1>2, <1>3 DEF ReaderInv, Complete
<1> DEFINE k == Len(out) - offset
<1>5. k \in Nat /\ k + offset = Len(out) /\ n \in Nat /\ offset + n <= Len(plaintext)
  BY <1>1, <1>3, <1>4 DEF InStep
<1>6. out = Run(file, 0, k + offset) /\ plaintext = Run(file, k, Len(plaintext))
  BY <1>3, <1>4, <1>5 DEF InStep, ReaderInv
<1> HIDE DEF k
<1>7. out' = Run(file, 0, k + offset + n)
  <2> DEFINE L == Len(plaintext)
  <2>1. L \in Nat /\ plaintext = Run(file, k, L) /\ offset + n <= L
    BY <1>3, <1>5, <1>6
  <2> HIDE DEF L
  <2>2. Run(file, 0, k + offset) \o SubSeq(Run(file, k, L), offset + 1, offset + n)
            = Run(file, 0, k + offset + n)
    <3>1. file \in Streams /\ k \in Nat /\ L \in Nat /\ offset \in Nat /\ n \in Nat
      BY <1>3, <1>5, <2>1
    <3>2. Joins(file, k, L, offset, n)
      BY <2>1, <3>1, RunJoin
    <3> QED BY <3>2 DEF Joins
  <2> QED BY <1>1, <1>6, <2>1, <2>2
<1>8. Len(out') = k + offset + n
  <2> k + offset + n \in Nat /\ 0 \in Nat
    BY <1>3, <1>5
  <2> QED BY <1>3, <1>7, RunType
<1>9. Received' = Received /\ Len(out') - offset' = k /\ Len(out') <= Received
  BY <1>1, <1>2, <1>3, <1>5, <1>8 DEF Received
<1>10. InStep'
  <2>1. offset' <= Len(plaintext') /\ offset' <= Len(out')
    BY <1>1, <1>2, <1>3, <1>5, <1>8
  <2>2. plaintext' = Run(file, Len(out') - offset', Len(plaintext'))
    BY <1>2, <1>6, <1>9
  <2> QED BY <1>2, <1>4, <1>9, <2>1, <2>2 DEF InStep, Ended, Run
<1>11. Len(out') <= handed[file] /\ out' = Run(file, 0, Len(out'))
  <2>1. Received <= handed[file] /\ handed[file] \in Nat /\ Received \in Int
    BY <1>3, <1>4 DEF InStep, Counted, Received
  <2>2. Len(out') \in Nat
    BY <1>3, <1>5, <1>8
  <2> QED BY <1>7, <1>8, <1>9, <2>1, <2>2
<1>12. Intact' <=> Intact
  BY <1>2 DEF Intact
<1> QED BY <1>2, <1>3, <1>4, <1>10, <1>11, <1>12 DEF ReaderInv, Run

\* The steps of unseal_directory that read nothing.
LEMMA QuietStep ==
    ASSUME WriterInv, ReaderInv, EndUnpacking \/ AbandonUnpacking \/ VerifyFinished
    PROVE  ReaderInv'
<1>1. /\ UNCHANGED <<file, damaged, expected, plaintext, offset, finalized, out, writing>>
      /\ reading # "closed" /\ reading' # "closed" /\ reading' # "refused"
      /\ reading' = "accepted" => finalized
  BY DEF EndUnpacking, AbandonUnpacking, VerifyFinished, Drained
<1>2. /\ (Fresh' <=> Fresh) /\ (InStep' <=> InStep)
      /\ (Intact' <=> Intact) /\ (Complete' <=> Complete)
  BY <1>1 DEF Fresh, InStep, Intact, Complete, Received, Ended, Run
<1> QED BY <1>1, <1>2 DEF ReaderInv, Run

-----------------------------------------------------------------------------
IInv == WriterInv /\ ReaderInv

LEMMA IInvInit == Init => IInv
<1> SUFFICES ASSUME Init PROVE IInv
  OBVIOUS
<1>1. TypeOK /\ CountsInv
  <2>1. << >> \in Seq(Byte) /\ << >> \in Seq(Frame) /\ 0 \in 0 .. MaxSequence
    BY WidthAssumption
  <2>2. TypeOK
    BY <2>1 DEF Init, TypeOK
  <2>3. CountsInv
    <3>1. 0 < ChunkSize
      BY SizeAssumption
    <3>2. \A s \in Streams : /\ pending[s] = 0 /\ input[s] = 0 /\ handed[s] = 0
                              /\ phase[s] = "none"
      BY DEF Init
    <3> SUFFICES ASSUME NEW s \in Streams
                 PROVE  /\ pending[s] < ChunkSize
                        /\ input[s] + pending[s] <= handed[s]
                        /\ input[s] = 0 /\ phase[s] = "none"
      BY DEF CountsInv
    <3>3. input[s] + pending[s] <= handed[s]
      BY <3>2
    <3> QED BY <3>1, <3>2, <3>3
  <2> QED BY <2>2, <2>3
<1>2. \A s \in Streams : Aligned(s) /\ Filed(s)
  <2> SUFFICES ASSUME NEW s \in Streams PROVE Aligned(s) /\ Filed(s)
    OBVIOUS
  <2>1. /\ handed[s] = 0 /\ pending[s] = 0 /\ input[s] = 0 /\ sequence[s] = 0
        /\ stored[s] = << >> /\ phase[s] = "none"
    BY DEF Init
  <2>2. Aligned(s)
    BY <2>1, StartNext DEF Aligned
  <2>3. Filed(s)
    <3>1. Len(stored[s]) = 0 /\ 1 .. 0 = {}
      BY <2>1
    <3> QED BY <2>1, <3>1 DEF Filed
  <2> QED BY <2>2, <2>3
<1>3. ReaderInv
  BY DEF Init, ReaderInv, Fresh
<1> QED BY <1>1, <1>2, <1>3 DEF IInv, WriterInv, TypeInv, UniqueInv, Init

LEMMA IInvNext == IInv /\ [Next]_vars => IInv'
<1> SUFFICES ASSUME IInv, [Next]_vars PROVE IInv'
  OBVIOUS
<1>1. WriterInv /\ ReaderInv /\ TypeInv /\ TypeInv'
  BY TypeStep DEF IInv, WriterInv
<1>2. ASSUME NEW s \in Streams, WriterStep(s) PROVE IInv'
  <2>1. UNCHANGED reader
    BY <1>2 DEF WriterStep, Create, Write, EndArchive, DropArchive, Call, SealChunk,
       SealChunkFails, KeepRest, SealRest, SealFinal, FinishFails
  <2> QED BY <1>1, <1>2, <2>1, WriterInvStep, ReaderKept DEF IInv
<1>3. ASSUME UNCHANGED writing, ReaderInv' PROVE IInv'
  <2>1. WriterInv'
    BY <1>1, <1>3 DEF WriterInv, Aligned, Lost, Filed, Framed, DataFrame, FinalFrame,
       Ended, Numbered, UniqueInv, NonceFits, Run, TypeInv
  <2> QED BY <1>3, <2>1 DEF IInv
<1>4. ASSUME NEW s \in Streams, OpenFile(s) PROVE IInv'
  BY <1>1, <1>3, <1>4, OpenStep DEF OpenFile
<1>5. CASE ReadData
  BY <1>1, <1>3, <1>5, ReadDataStep DEF ReadData
<1>6. CASE ReadFinal
  BY <1>1, <1>3, <1>6, ReadFinalStep DEF ReadFinal
<1>7. CASE Refuse
  BY <1>1, <1>3, <1>7, RefuseStep DEF Refuse
<1>8. CASE Deliver
  BY <1>1, <1>3, <1>8, DeliverStep DEF Deliver
<1>9. CASE EndUnpacking \/ AbandonUnpacking \/ VerifyFinished
  BY <1>1, <1>3, <1>9, QuietStep DEF EndUnpacking, AbandonUnpacking, VerifyFinished
<1>10. CASE UNCHANGED vars
  <2>1. ReaderInv'
    BY <1>1, <1>10 DEF vars, ReaderInv, Fresh, InStep, Intact, Complete, Received, Ended, Run
  <2> QED BY <1>3, <1>10, <2>1 DEF vars
<1> QED BY <1>2, <1>4, <1>5, <1>6, <1>7, <1>8, <1>9, <1>10 DEF Next, ReaderStep

\* The inductive invariant: the writers' counters and frames fit the text, and
\* the reader is in step with them.
THEOREM Invariant == Spec => []IInv
  BY IInvInit, IInvNext, PTL DEF Spec

\* Every variable keeps its type.
THEOREM TypeCorrect == Spec => []TypeOK
<1>1. IInv => TypeOK
  BY DEF IInv, WriterInv, TypeInv
<1> QED BY <1>1, Invariant, PTL

\* write_frame never seals two frames of a stream with one nonce.
THEOREM NoncesUnique == Spec => []NonceOnce
<1>1. IInv => NonceOnce
  <2> SUFFICES ASSUME IInv, NEW f \in sealed, NEW g \in sealed, f.of = g.of,
                      Nonce(f.of, f.sequence) = Nonce(g.of, g.sequence)
               PROVE  f = g
    BY DEF NonceOnce
  <2>1. f \in Frame /\ g \in Frame /\ Numbered(f) /\ Numbered(g) /\ UniqueInv
    BY CountedAll DEF IInv, WriterInv
  <2>2. f.sequence \in Nat /\ g.sequence \in Nat /\ Seed[f.of] \in Int
    BY <2>1, FrameFields
  <2>3. f.sequence = g.sequence
    BY <2>1, <2>2 DEF Numbered, Nonce
  <2> QED BY <2>1, <2>3 DEF UniqueInv
<1> QED BY <1>1, Invariant, PTL

\* Whatever the storage gives back, the reader delivers a prefix of what was saved.
THEOREM PrefixDelivered == Spec => []DeliveredIsPrefix
<1>1. IInv => DeliveredIsPrefix
  BY DEF IInv, ReaderInv, DeliveredIsPrefix
<1> QED BY <1>1, Invariant, PTL

\* verify_finished accepts only the whole text of a save that went through.
THEOREM WholeAccepted == Spec => []AcceptedIsWhole
<1>1. IInv => AcceptedIsWhole
  BY DEF IInv, ReaderInv, Complete, Ended, AcceptedIsWhole
<1> QED BY <1>1, Invariant, PTL

\* A reader refuses no file that seal_directory finished and nobody damaged.
THEOREM SavedReadable == Spec => []SavedIsReadable
<1>1. IInv => SavedIsReadable
  BY DEF IInv, ReaderInv, SavedIsReadable
<1> QED BY <1>1, Invariant, PTL

-----------------------------------------------------------------------------
(***************************************************************************)
(* The refinement.  A writer's calls hand over text, its flush saves it,   *)
(* and the reader's steps that a caller can see are those of               *)
(* AbstractStream; every other step is none of its concern.                *)
(***************************************************************************)
Text  == [s \in Streams |-> Run(s, 0, handed[s])]
Fates == [s \in Streams |-> Fate(s)]

\* Only a call that ends the text knows that the writer finishes after it.
EndInv == \A s \in Streams : phase[s] \in {"none", "open", "failed"} => after[s] = "open"

LEMMA EndInvStep ==
    ASSUME TypeInv, EndInv, [Next]_vars
    PROVE  EndInv'
<1>1. CASE UNCHANGED <<phase, after>>
  BY <1>1 DEF EndInv
<1>2. ASSUME NEW s \in Streams, WriterStep(s)
      PROVE  EndInv'
  <2>1. /\ \A t \in Streams \ {s} : phase'[t] = phase[t] /\ after'[t] = after[t]
        /\ phase'[s] \in {"none", "open", "failed"} => after'[s] = "open"
    <3> USE DEF TypeInv, TypeOK
    <3>1. CASE Create(s)
      BY <3>1 DEF Create, EndInv
    <3>2. CASE Write(s)
      BY <3>2 DEF Write, Call
    <3>3. CASE EndArchive(s)
      BY <3>3 DEF EndArchive, Call
    <3>4. CASE DropArchive(s)
      BY <3>4 DEF DropArchive, Call
    <3>5. CASE SealChunk(s)
      BY <3>5 DEF SealChunk
    <3>6. CASE SealChunkFails(s)
      BY <3>6 DEF SealChunkFails
    <3>7. CASE KeepRest(s)
      BY <3>7 DEF KeepRest
    <3>8. CASE SealRest(s)
      BY <3>8 DEF SealRest, EndInv
    <3>9. CASE SealFinal(s)
      BY <3>9 DEF SealFinal
    <3>10. CASE FinishFails(s)
      BY <3>10 DEF FinishFails
    <3> QED BY <1>2, <3>1, <3>2, <3>3, <3>4, <3>5, <3>6, <3>7, <3>8, <3>9, <3>10
            DEF WriterStep
  <2> QED BY <2>1 DEF EndInv
<1>3. ASSUME ReaderStep \/ \E s \in Streams : OpenFile(s)
      PROVE  UNCHANGED <<phase, after>>
  BY <1>3 DEF ReaderStep, OpenFile, ReadData, ReadFinal, Refuse, Deliver, EndUnpacking,
     AbandonUnpacking, VerifyFinished
<1> QED BY <1>1, <1>2, <1>3 DEF Next, vars

\* The first bytes of a text are the beginning of any longer part of it.
LEMMA RunBegins ==
    ASSUME NEW s \in Streams, NEW k \in Nat, NEW n \in Nat, k <= n
    PROVE  Abstract!Begins(Run(s, 0, k), Run(s, 0, n))
<1> DEFINE short == Run(s, 0, k)
           long  == Run(s, 0, n)
<1>1. /\ short \in Seq(Byte) /\ Len(short) = k /\ \A i \in 1 .. k : short[i] = <<s, 0 + i>>
      /\ long \in Seq(Byte) /\ Len(long) = n /\ \A i \in 1 .. n : long[i] = <<s, 0 + i>>
  BY RunType, 0 \in Nat
<1> HIDE DEF short, long
<1>2. SubSeq(long, 1, k) \in Seq(Byte) /\ Len(SubSeq(long, 1, k)) = k
  <2>1. \A i \in 1 .. k : long[i] \in Byte
    BY <1>1, ElementOfSeq
  <2> QED BY <1>1, <2>1, SubSeqProperties
<1>3. \A i \in 1 .. k : SubSeq(long, 1, k)[i] = short[i]
  <2>1. \A i \in 1 .. k : long[i] \in Byte
    BY <1>1, ElementOfSeq
  <2>2. \A i \in 1 .. k : SubSeq(long, 1, k)[i] = long[i]
    <3>1. CASE k = 0
      BY <3>1
    <3>2. CASE k > 0
      BY <3>2, <2>1, <1>1, SubSeqProperties
    <3> QED BY <3>1, <3>2
  <2> SUFFICES ASSUME NEW i \in 1 .. k PROVE SubSeq(long, 1, k)[i] = short[i]
    OBVIOUS
  <2>3. i \in 1 .. n /\ short[i] = <<s, 0 + i>> /\ long[i] = <<s, 0 + i>>
    BY <1>1
  <2> QED BY <2>2, <2>3
<1>4. short = SubSeq(long, 1, k)
  BY <1>1, <1>2, <1>3, SeqEqual
<1> QED BY <1>1, <1>4 DEF Abstract!Begins, short, long

\* A call of write hands over more of the text.
LEMMA CallHands ==
    ASSUME TypeInv, TypeInv', EndInv, NEW s \in Streams,
           Write(s) \/ EndArchive(s) \/ DropArchive(s)
    PROVE  Abstract!Hand(s)
<1>1. PICK n \in Nat, next \in {"open", "finish", "dropped"} : Call(s, n, next)
  <2>1. Write(s) => \E n \in Nat : Call(s, n, "open")
    BY DEF Write
  <2> QED BY <2>1 DEF EndArchive, DropArchive
<1>2. phase[s] \in {"open", "failed"} /\ after[s] = "open" /\ Fate(s) = "open"
  BY DEF Write, EndArchive, DropArchive, EndInv, Fate
<1>3. /\ phase' = [phase EXCEPT ![s] = "write"] /\ after' = [after EXCEPT ![s] = next]
      /\ handed' = [handed EXCEPT ![s] = handed[s] + n] /\ UNCHANGED reader
  BY <1>1 DEF Call
<1>4. /\ handed[s] \in Nat /\ handed'[s] \in Nat /\ handed[s] <= handed'[s]
      /\ \A t \in Streams \ {s} :
            handed'[t] = handed[t] /\ phase'[t] = phase[t] /\ after'[t] = after[t]
      /\ phase'[s] = "write" /\ after'[s] = next
  BY <1>1, <1>3 DEF TypeInv, TypeOK
<1>5. Text' = [Text EXCEPT ![s] = Text'[s]]
  BY <1>4 DEF Text, Run
<1>6. Text'[s] \in Seq(Byte) /\ Abstract!Begins(Text[s], Text'[s])
  <2>1. Text[s] = Run(s, 0, handed[s]) /\ Text'[s] = Run(s, 0, handed'[s])
    BY DEF Text, Run
  <2>2. Run(s, 0, handed'[s]) \in Seq(Byte)
    BY <1>4, RunType, 0 \in Nat
  <2>3. Abstract!Begins(Run(s, 0, handed[s]), Run(s, 0, handed'[s]))
    BY <1>4, RunBegins
  <2> QED BY <2>1, <2>2, <2>3
<1>7. Fates' \in {Fates, [Fates EXCEPT ![s] = "ended"]}
  <2>1. \A t \in Streams \ {s} : Fate(t)' = Fate(t)
    BY <1>4 DEF Fate
  <2>2. Fate(s)' \in {"open", "ended"}
    BY <1>4 DEF Fate
  <2>3. Fates' = [Fates EXCEPT ![s] = Fate(s)']
    BY <2>1 DEF Fates
  <2>4. Fates[s] = "open"
    BY <1>2 DEF Fates
  <2> QED BY <2>2, <2>3, <2>4 DEF Fates
<1>8. Fates[s] = "open"
  BY <1>2 DEF Fates
<1>9. UNCHANGED <<file, damaged, out, Verdict>>
  BY <1>3 DEF Verdict
<1> QED BY <1>5, <1>6, <1>7, <1>8, <1>9 DEF Abstract!Hand, Abstract!readings, Text, Fates

\* The flush after the final frame saves the text.
LEMMA FlushSaves ==
    ASSUME TypeInv, NEW s \in Streams, SealFinal(s)
    PROVE  Abstract!Save(s) \/ UNCHANGED Abstract!vars
<1>1. PICK end \in {"finished", "dropped"} : phase' = [phase EXCEPT ![s] = end]
  BY DEF SealFinal
<1>2. phase[s] = "finish" /\ after[s] = "finish" /\ UNCHANGED <<after, handed, reader>>
  BY DEF SealFinal, TypeInv, CountsInv
<1>3. Text' = Text /\ UNCHANGED <<file, damaged, out, Verdict>>
  BY <1>2 DEF Text, Run, Verdict
<1>4. /\ phase'[s] = end /\ \A t \in Streams \ {s} : phase'[t] = phase[t]
      /\ after' = after
  BY <1>1, <1>2 DEF TypeInv, TypeOK
<1>5. Fates[s] = "ended" /\ \A t \in Streams \ {s} : Fate(t)' = Fate(t)
  BY <1>2, <1>4 DEF Fates, Fate
<1>6. CASE end = "finished"
  <2>1. Fates' = [Fates EXCEPT ![s] = "saved"]
    BY <1>4, <1>5, <1>6 DEF Fates, Fate
  <2> QED BY <1>3, <1>5, <2>1 DEF Abstract!Save, Abstract!readings, Text, Fates
<1>7. CASE end = "dropped"
  <2>1. Fates' = Fates
    BY <1>2, <1>4, <1>5, <1>7 DEF Fates, Fate
  <2> QED BY <1>3, <2>1 DEF Abstract!vars, Abstract!texts, Abstract!readings, Text, Fates
<1> QED BY <1>6, <1>7

\* Frames are none of the caller's concern.
LEMMA FramesUnseen ==
    ASSUME TypeInv, NEW s \in Streams,
           \/ Create(s) \/ SealChunk(s) \/ SealChunkFails(s) \/ KeepRest(s)
           \/ SealRest(s) \/ FinishFails(s)
    PROVE  UNCHANGED Abstract!vars
<1>1. /\ UNCHANGED <<after, handed, reader>>
      /\ \A t \in Streams : phase'[t] = "finished" <=> phase[t] = "finished"
  <2> USE DEF TypeInv, TypeOK
  <2>1. CASE Create(s)
    BY <2>1 DEF Create
  <2>2. CASE SealChunk(s)
    BY <2>2 DEF SealChunk
  <2>3. CASE SealChunkFails(s)
    BY <2>3 DEF SealChunkFails
  <2>4. CASE KeepRest(s)
    BY <2>4 DEF KeepRest
  <2>5. CASE SealRest(s)
    BY <2>5 DEF SealRest
  <2>6. CASE FinishFails(s)
    BY <2>6 DEF FinishFails
  <2> QED BY <2>1, <2>2, <2>3, <2>4, <2>5, <2>6
<1>2. Text' = Text /\ Fates' = Fates /\ UNCHANGED <<file, damaged, out, Verdict>>
  BY <1>1 DEF Text, Run, Fates, Fate, Verdict
<1> QED BY <1>2 DEF Abstract!vars, Abstract!texts, Abstract!readings, Text, Fates

\* The reader's steps.
LEMMA ReaderRefines ==
    ASSUME IInv, IInv', ReaderStep \/ \E s \in Streams : OpenFile(s)
    PROVE  Abstract!Next \/ UNCHANGED Abstract!vars
<1>1. /\ TypeInv /\ ReaderInv /\ ReaderInv'
      /\ file # None => file \in Streams
  BY ReaderTypes DEF IInv, WriterInv
<1>2. UNCHANGED writing /\ Text' = Text /\ Fates' = Fates
  <2>1. UNCHANGED writing
    BY DEF ReaderStep, OpenFile, ReadData, ReadFinal, Refuse, Deliver, EndUnpacking,
       AbandonUnpacking, VerifyFinished
  <2> QED BY <2>1 DEF Text, Run, Fates, Fate
<1>3. ASSUME NEW s \in Streams, OpenFile(s)
      PROVE  Abstract!Open(s)
  <2>1. file = None /\ file' = s /\ damaged' \in BOOLEAN /\ out' = out
    BY <1>1, <1>3 DEF OpenFile, ReaderInv
  <2>2. ~damaged' => Fates[s] = "saved"
    BY <1>3 DEF OpenFile, Fates, Fate
  <2>3. /\ Verdict' \in {"none", "refused"} /\ (Verdict' = "refused" => damaged')
    BY <1>3 DEF OpenFile, Verdict
  <2> QED BY <1>2, <2>1, <2>2, <2>3 DEF Abstract!Open, Abstract!texts, Text, Fates
<1>4. ASSUME reading \in {"unpack", "verify"}
      PROVE  Abstract!Undecided /\ file \in Streams /\ Verdict = "none"
  BY <1>1, <1>4 DEF ReaderInv, Verdict, Abstract!Undecided
<1>5. CASE ReadData \/ ReadFinal \/ EndUnpacking
  <2>1. UNCHANGED <<file, damaged, out, Verdict>>
    BY <1>5 DEF ReadData, ReadFinal, EndUnpacking, Verdict
  <2> QED BY <1>2, <2>1 DEF Abstract!vars, Abstract!texts, Abstract!readings, Text, Fates
<1>6. CASE Refuse
  <2>1. /\ Verdict' = "refused" /\ damaged' /\ UNCHANGED <<file, damaged, out>>
        /\ reading \in {"unpack", "verify"}
    BY <1>1, <1>6 DEF Refuse, NeedsFrame, Active, Verdict, ReaderInv
  <2>2. Abstract!Refuse
    BY <1>2, <1>4, <2>1 DEF Abstract!Refuse, Abstract!texts, Text, Fates
  <2> QED BY <2>2 DEF Abstract!Next
<1>7. CASE Deliver
  <2>1. /\ reading \in {"unpack", "verify"}
        /\ UNCHANGED <<file, damaged, reading, Verdict>>
    BY <1>7 DEF Deliver, Active, Verdict
  <2>2. /\ file # None /\ out = Run(file, 0, Len(out)) /\ out' = Run(file, 0, Len(out'))
        /\ Len(out') <= handed[file]
    BY <1>1, <1>2, <1>4, <2>1 DEF ReaderInv, Run
  <2>3. Len(out) \in Nat /\ Len(out') \in Nat /\ handed[file] \in Nat /\ out' \in Seq(Byte)
    <3>1. out \in Seq(Byte) /\ out' \in Seq(Byte)
      BY DEF IInv, WriterInv, TypeInv, TypeOK
    <3> QED BY <1>1, <1>4, <2>1, <3>1, LenProperties DEF TypeInv, TypeOK
  <2>4. Len(out) <= Len(out')
    <3>1. PICK n \in 1 .. Len(plaintext) - offset :
            out' = out \o SubSeq(plaintext, offset + 1, offset + n)
      BY <1>7 DEF Deliver
    <3>2. /\ out \in Seq(Byte) /\ plaintext \in Seq(Byte) /\ offset \in Nat
          /\ Len(plaintext) \in Nat
      BY <1>1, LenProperties DEF TypeInv, TypeOK
    <3>3. \A i \in offset + 1 .. offset + n : plaintext[i] \in Byte
      BY <3>1, <3>2, ElementOfSeq
    <3>4. SubSeq(plaintext, offset + 1, offset + n) \in Seq(Byte)
      BY <3>1, <3>2, <3>3, SubSeqProperties
    <3> QED BY <3>1, <3>2, <3>4, ConcatProperties, LenProperties
  <2>5. Abstract!Begins(out, out')
    <3>1. Abstract!Begins(Run(file, 0, Len(out)), Run(file, 0, Len(out')))
      BY <1>4, <2>1, <2>3, <2>4, RunBegins
    <3> QED BY <2>2, <3>1
  <2>6. Abstract!Begins(out', Text[file])
    <3>1. Abstract!Begins(Run(file, 0, Len(out')), Run(file, 0, handed[file]))
      BY <1>4, <2>1, <2>2, <2>3, RunBegins
    <3>2. Text[file] = Run(file, 0, handed[file])
      BY <1>4, <2>1 DEF Text
    <3> QED BY <2>2, <3>1, <3>2
  <2>7. Abstract!Deliver
    BY <1>2, <1>4, <2>1, <2>3, <2>5, <2>6 DEF Abstract!Deliver, Abstract!texts, Text, Fates
  <2> QED BY <2>7 DEF Abstract!Next
<1>8. CASE VerifyFinished
  <2>1. /\ Verdict' = "accepted" /\ finalized /\ reading = "verify"
        /\ UNCHANGED <<file, damaged, out>>
    BY <1>8 DEF VerifyFinished, Drained, Verdict
  <2>2. Fates[file] # "open" /\ out = Text[file]
    BY <1>1, <1>4, <2>1 DEF ReaderInv, Complete, Ended, Fates, Fate, Text
  <2>3. Abstract!Accept
    BY <1>2, <1>4, <2>1, <2>2 DEF Abstract!Accept, Abstract!texts, Text, Fates
  <2> QED BY <2>3 DEF Abstract!Next
<1>9. CASE AbandonUnpacking
  <2>1. /\ Verdict' = "abandoned" /\ reading = "unpack" /\ UNCHANGED <<file, damaged, out>>
    BY <1>9 DEF AbandonUnpacking, Verdict
  <2>2. Abstract!Abandon
    BY <1>2, <1>4, <2>1 DEF Abstract!Abandon, Abstract!texts, Text, Fates
  <2> QED BY <2>2 DEF Abstract!Next
<1> QED BY <1>3, <1>5, <1>6, <1>7, <1>8, <1>9 DEF ReaderStep, Abstract!Next

LEMMA StreamRefinementStep ==
    ASSUME IInv, IInv', EndInv, [Next]_vars
    PROVE  [Abstract!Next]_(Abstract!vars)
<1>1. TypeInv /\ TypeInv'
  BY DEF IInv, WriterInv
<1>2. CASE UNCHANGED vars
  BY <1>2 DEF vars, Abstract!vars, Abstract!texts, Abstract!readings, Run, Fate, Verdict
<1>3. ASSUME NEW s \in Streams, WriterStep(s)
      PROVE  Abstract!Next \/ UNCHANGED Abstract!vars
  <2>1. Abstract!Hand(s) \/ Abstract!Save(s) \/ UNCHANGED Abstract!vars
    BY <1>1, <1>3, CallHands, FlushSaves, FramesUnseen DEF WriterStep
  <2> QED BY <2>1 DEF Abstract!Next
<1> QED BY <1>2, <1>3, ReaderRefines DEF Next

\* The stream implements AbstractStream: whatever writes fail and whatever frames the
\* storage gives back, callers see a text that grows until it ends, bytes of it in
\* order, and one verdict that is deserved.
THEOREM StreamImplements == Spec => ImplementsAbstractStream
<1>1. Init => Abstract!Init
  <2> SUFFICES ASSUME Init PROVE Abstract!Init
    OBVIOUS
  <2>1. Text = [s \in Streams |-> << >>] /\ Fates = [s \in Streams |-> "open"]
    BY DEF Init, Text, Run, Fates, Fate
  <2> QED BY <2>1 DEF Init, Abstract!Init, Text, Fates, Verdict
<1>2. Init => EndInv
  BY DEF Init, EndInv
<1>3. IInv /\ EndInv /\ [Next]_vars => EndInv'
  BY EndInvStep DEF IInv, WriterInv
<1>4. IInv /\ IInv' /\ EndInv /\ [Next]_vars => [Abstract!Next]_(Abstract!vars)
  BY StreamRefinementStep
<1> QED BY <1>1, <1>2, <1>3, <1>4, Invariant, PTL
    DEF Spec, ImplementsAbstractStream, Abstract!Spec
=============================================================================
