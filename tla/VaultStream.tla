---------------------------- MODULE VaultStream ----------------------------
(***************************************************************************)
(* The encrypted stream of src/src/crypto/vault_stream.rs between its two  *)
(* callers in src/src/archive.rs: seal_directory drives a VaultWriter,     *)
(* unseal_directory a VaultReader.                                         *)
(*                                                                         *)
(* A byte of plaintext is <<s, i>>, the i-th byte handed to the writer of  *)
(* stream s.  A frame is what the cipher sealed: it opens only under the   *)
(* file header, the frame header and the nonce it was sealed with.  The    *)
(* storage may give back a damaged file: at each read any frame header     *)
(* with any frame the profile's key ever sealed, the saves of other days   *)
(* included, or bytes no frame comes of.                                   *)
(***************************************************************************)
EXTENDS Integers, Sequences

CONSTANTS
    Streams,      \* the saves made with one data key, each with its own seed
    Seed,         \* stream -> nonce seed, as a number below NonceSpace
    NonceSpace,   \* 2^96
    MaxSequence,  \* u32::MAX
    ChunkSize,    \* CHUNK_SIZE
    Trailer,      \* bytes of the two zero blocks that end a tar archive
    MaxText,      \* bound of a model: bytes the archive writes to one stream
    MaxWrite,     \* bound of a model: bytes in one call of write
    None

ASSUME SeedAssumption   == NonceSpace \in Nat /\ Seed \in [Streams -> 0 .. NonceSpace - 1]
ASSUME WidthAssumption  == MaxSequence \in Nat /\ MaxSequence < NonceSpace
ASSUME SizeAssumption   == /\ ChunkSize \in Nat /\ Trailer \in Nat /\ Trailer < ChunkSize
                           /\ MaxText \in Nat /\ MaxWrite \in Nat
ASSUME NoneAssumption   == None \notin Streams

VARIABLES
    phase,      \* stream -> what its writer does next
    after,      \* stream -> its phase once the running call of write is over
    handed,     \* stream -> bytes handed to write so far
    input,      \* stream -> bytes of the running call not yet taken
    pending,    \* stream -> bytes in the writer's buffer
    sequence,   \* stream -> number of the next frame
    sealed,     \* frames that went through the cipher
    stored,     \* stream -> the frames written out whole
    file,       \* the stream whose file header the reader has read
    damaged,    \* the storage tampered with the file, or fails to read it
    reading,    \* the state of unseal_directory
    expected,   \* the reader's next sequence number
    plaintext,  \* the reader's open frame
    offset,     \* bytes of it already delivered
    finalized,  \* the final frame has been read
    out         \* the bytes the reader has delivered

writing == <<phase, after, handed, input, pending, sequence, sealed, stored>>
reader  == <<file, damaged, reading, expected, plaintext, offset, finalized, out>>
vars    == <<writing, reader>>

Byte  == Streams \X Nat
Frame == [of : Streams, type : {"data", "final"}, sequence : Nat, body : Seq(Byte)]

TypeOK ==
    /\ phase     \in [Streams -> {"none", "open", "write", "failed", "finish", "finished",
                                  "dropped"}]
    /\ after     \in [Streams -> {"open", "finish", "dropped"}]
    /\ handed    \in [Streams -> Nat]
    /\ input     \in [Streams -> Nat]
    /\ pending   \in [Streams -> Nat]
    /\ sequence  \in [Streams -> 0 .. MaxSequence]
    /\ sealed    \subseteq Frame
    /\ stored    \in [Streams -> Seq(Frame)]
    /\ file      \in Streams \cup {None}
    /\ damaged   \in BOOLEAN
    /\ reading   \in {"closed", "unpack", "verify", "accepted", "refused", "abandoned"}
    /\ expected  \in 0 .. MaxSequence
    /\ plaintext \in Seq(Byte)
    /\ offset    \in Nat
    /\ finalized \in BOOLEAN
    /\ out       \in Seq(Byte)

Init ==
    /\ phase    = [s \in Streams |-> "none"]
    /\ after    = [s \in Streams |-> "open"]
    /\ handed   = [s \in Streams |-> 0]
    /\ input    = [s \in Streams |-> 0]
    /\ pending  = [s \in Streams |-> 0]
    /\ sequence = [s \in Streams |-> 0]
    /\ sealed   = {}
    /\ stored   = [s \in Streams |-> << >>]
    /\ file     = None
    /\ damaged  = FALSE
    /\ reading  = "closed"
    /\ expected = 0
    /\ plaintext = << >>
    /\ offset    = 0
    /\ finalized = FALSE
    /\ out       = << >>

-----------------------------------------------------------------------------
(* The writer *)

\* The n bytes of stream s that follow its first k.
Run(s, k, n) == [i \in 1 .. n |-> <<s, k + i>>]

\* nonce_bytes: the seed plus the sequence number; a carry out of it is an error.
NonceFits(s, n) == Seed[s] + n < NonceSpace
Nonce(s, n)     == Seed[s] + n - (IF NonceFits(s, n) THEN 0 ELSE NonceSpace)

\* The next n bytes to be sealed: the buffer comes before the running call.
NextBytes(s, n) == Run(s, handed[s] - input[s] - pending[s], n)

\* write_frame refuses the last number, so that the next one always exists.
MaySealLast(s) == NonceFits(s, sequence[s])
MaySeal(s)     == sequence[s] # MaxSequence /\ NonceFits(s, sequence[s])

\* The number is 32 bits wide.
NextSequence(s) == IF sequence[s] = MaxSequence THEN 0 ELSE sequence[s] + 1

NewFrame(s, type, n) ==
    [of |-> s, type |-> type, sequence |-> sequence[s], body |-> NextBytes(s, n)]

\* write_frame succeeds.
WriteFrame(s, type, n) ==
    /\ MaySeal(s)
    /\ sealed'   = sealed \cup {NewFrame(s, type, n)}
    /\ stored'   = [stored EXCEPT ![s] = Append(@, NewFrame(s, type, n))]
    /\ sequence' = [sequence EXCEPT ![s] = NextSequence(s)]

\* write_frame fails: before the cipher is used, or in write_all after it.
WriteFrameFails(s, type, n) ==
    /\ \/ ~MaySeal(s) /\ UNCHANGED sealed
       \/ MaySeal(s) /\ sealed' = sealed \cup {NewFrame(s, type, n)}
    /\ UNCHANGED <<stored, sequence>>

\* The buffer and the running call together make a whole frame.
AlmostFull(s) == pending[s] + input[s] >= ChunkSize - 1
Full(s)       == pending[s] + input[s] >= ChunkSize

\* VaultWriter::new writes the file header with a fresh seed.
Create(s) ==
    /\ phase[s] = "none"
    /\ phase' = [phase EXCEPT ![s] = "open"]
    /\ UNCHANGED <<after, handed, input, pending, sequence, sealed, stored, reader>>

\* A call of write with n bytes, after which the writer is in phase "next".
Call(s, n, next) ==
    /\ phase'  = [phase EXCEPT ![s] = "write"]
    /\ after'  = [after EXCEPT ![s] = next]
    /\ handed' = [handed EXCEPT ![s] = @ + n]
    /\ input'  = [input EXCEPT ![s] = n]
    /\ UNCHANGED <<pending, sequence, sealed, stored, reader>>

\* The archive writes headers and contents in pieces of any size.
Write(s) ==
    /\ phase[s] = "open"
    /\ \E n \in 1 .. MaxWrite : handed[s] + n <= MaxText /\ Call(s, n, "open")

\* A plausible bug: the archive goes on after a write has failed.
EndArchiveAnyway(s) == phase[s] \in {"open", "failed"} /\ Call(s, Trailer, "finish")

\* into_inner ends the archive with its trailer; finish comes next.
EndArchive(s) == phase[s] = "open" /\ Call(s, Trailer, "finish")

\* A file could not be read, or a write failed: dropping the archive still
\* writes the trailer, and nobody calls finish.
DropArchive(s) == phase[s] \in {"open", "failed"} /\ Call(s, Trailer, "dropped")

\* write: a full buffer, or a full chunk of the input, becomes a frame.  A buffer
\* is taken out of the writer first, and is lost when the frame fails.
SealChunk(s) ==
    /\ phase[s] = "write" /\ Full(s)
    /\ WriteFrame(s, "data", ChunkSize)
    /\ input'   = [input EXCEPT ![s] = pending[s] + @ - ChunkSize]
    /\ pending' = [pending EXCEPT ![s] = 0]
    /\ UNCHANGED <<phase, after, handed, reader>>

SealChunkFails(s) ==
    /\ phase[s] = "write" /\ Full(s)
    /\ WriteFrameFails(s, "data", ChunkSize)
    /\ input'   = [input EXCEPT ![s] = 0]
    /\ pending' = [pending EXCEPT ![s] = 0]
    /\ phase'   = [phase EXCEPT ![s] = IF after[s] = "open" THEN "failed" ELSE "dropped"]
    /\ UNCHANGED <<after, handed, reader>>

\* write: what is left stays in the buffer.
KeepRest(s) ==
    /\ phase[s] = "write" /\ ~Full(s)
    /\ pending' = [pending EXCEPT ![s] = @ + input[s]]
    /\ input'   = [input EXCEPT ![s] = 0]
    /\ phase'   = [phase EXCEPT ![s] = after[s]]
    /\ UNCHANGED <<after, handed, sequence, sealed, stored, reader>>

\* finish: the rest of the buffer as a short frame, ...
SealRest(s) ==
    /\ phase[s] = "finish" /\ pending[s] > 0
    /\ WriteFrame(s, "data", pending[s])
    /\ pending' = [pending EXCEPT ![s] = 0]
    /\ UNCHANGED <<phase, after, handed, input, reader>>

\* ... then the final frame, and a flush that may fail in its turn.
SealFinal(s) ==
    /\ phase[s] = "finish" /\ pending[s] = 0
    /\ WriteFrame(s, "final", 0)
    /\ \E end \in {"finished", "dropped"} : phase' = [phase EXCEPT ![s] = end]
    /\ UNCHANGED <<after, handed, input, pending, reader>>

FinishFails(s) ==
    /\ phase[s] = "finish"
    /\ WriteFrameFails(s, IF pending[s] > 0 THEN "data" ELSE "final", pending[s])
    /\ phase' = [phase EXCEPT ![s] = "dropped"]
    /\ UNCHANGED <<after, handed, input, pending, reader>>

WriterStep(s) ==
    \/ Create(s) \/ Write(s) \/ EndArchive(s) \/ DropArchive(s)
    \/ SealChunk(s) \/ SealChunkFails(s) \/ KeepRest(s)
    \/ SealRest(s) \/ SealFinal(s) \/ FinishFails(s)

-----------------------------------------------------------------------------
(* The reader *)

Header == [type : {"data", "final", "other"}, sequence : 0 .. MaxSequence,
           length : 0 .. ChunkSize + 1]

HeaderOf(f) == [type |-> f.type, sequence |-> f.sequence, length |-> Len(f.body)]

\* The frame header and the ciphertext the storage gives next.  An undamaged
\* file is one that seal_directory renamed into place.
Given(h, f) ==
    \/ damaged /\ f \in sealed
    \/ /\ ~damaged /\ expected < Len(stored[file])
       /\ f = stored[file][expected + 1] /\ h = HeaderOf(f)

MoreFollows == Len(stored[file]) > expected + 1

\* The checks on a frame header, in front of the cipher.
AnyOrder(h) ==
    /\ h.type \in {"data", "final"}
    /\ h.length <= ChunkSize /\ (h.type = "final" => h.length = 0)
WellFormed(h) ==
    /\ h.sequence = expected
    /\ h.type \in {"data", "final"}
    /\ h.length <= ChunkSize /\ (h.type = "final" => h.length = 0)

\* The cipher: same file header, frame header and nonce.
Opens(h, f) ==
    /\ HeaderOf(f) = h /\ f.of = file
    /\ NonceFits(file, h.sequence) /\ Nonce(file, h.sequence) = Nonce(f.of, f.sequence)

Active == reading \in {"unpack", "verify"}

\* read asks for the next frame when the open one is used up.
NeedsFrame == Active /\ offset >= Len(plaintext) /\ ~finalized

\* unseal_directory opens the file; VaultReader::new reads its header.
OpenFile(s) ==
    /\ reading = "closed"
    /\ file' = s
    /\ damaged' \in BOOLEAN /\ (~damaged' => phase[s] = "finished")
    /\ reading' \in (IF damaged' THEN {"unpack", "refused"} ELSE {"unpack"})
    /\ UNCHANGED <<expected, plaintext, offset, finalized, out, writing>>

ReadData ==
    /\ NeedsFrame /\ expected < MaxSequence
    /\ \E f \in sealed, h \in Header :
        /\ Given(h, f) /\ WellFormed(h) /\ Opens(h, f) /\ h.type = "data"
        /\ plaintext' = f.body
    /\ expected' = expected + 1
    /\ offset' = 0
    /\ UNCHANGED <<file, damaged, reading, finalized, out, writing>>

ReadFinal ==
    /\ NeedsFrame /\ expected < MaxSequence
    /\ \E f \in sealed, h \in Header :
        Given(h, f) /\ WellFormed(h) /\ Opens(h, f) /\ h.type = "final"
    /\ damaged \/ ~MoreFollows
    /\ expected' = expected + 1
    /\ plaintext' = << >>
    /\ finalized' = TRUE
    /\ UNCHANGED <<file, damaged, reading, offset, out, writing>>

\* Every check that fails ends in an error: a damaged file may fail any of
\* them, an undamaged one those its next frame does not pass.
Refuse ==
    /\ NeedsFrame
    /\ \/ damaged
       \/ expected >= MaxSequence
       \/ expected >= Len(stored[file])
       \/ \E f \in sealed, h \in Header :
            /\ Given(h, f)
            /\ ~(WellFormed(h) /\ Opens(h, f) /\ (h.type = "final" => ~MoreFollows))
    /\ reading' = "refused"
    /\ UNCHANGED <<file, damaged, expected, plaintext, offset, finalized, out, writing>>

\* read hands out part of the open frame.
Deliver ==
    /\ Active /\ offset < Len(plaintext)
    /\ \E n \in 1 .. Len(plaintext) - offset :
        /\ out' = out \o SubSeq(plaintext, offset + 1, offset + n)
        /\ offset' = offset + n
    /\ UNCHANGED <<file, damaged, reading, expected, plaintext, finalized, writing>>

\* The archive has shown its trailer, or read returned nothing more.
EndUnpacking ==
    /\ reading = "unpack" /\ reading' = "verify"
    /\ UNCHANGED <<file, damaged, expected, plaintext, offset, finalized, out, writing>>

\* An entry escapes the directory or cannot be written.
AbandonUnpacking ==
    /\ reading = "unpack" /\ reading' = "abandoned"
    /\ UNCHANGED <<file, damaged, expected, plaintext, offset, finalized, out, writing>>

\* verify_finished reads on to the end before it says yes.
EndSeen == TRUE
Drained == finalized
VerifyFinished ==
    /\ reading = "verify" /\ Drained /\ reading' = "accepted"
    /\ UNCHANGED <<file, damaged, expected, plaintext, offset, finalized, out, writing>>

ReaderStep ==
    \/ ReadData \/ ReadFinal \/ Refuse \/ Deliver
    \/ EndUnpacking \/ AbandonUnpacking \/ VerifyFinished

Next ==
    \/ \E s \in Streams : WriterStep(s) \/ OpenFile(s)
    \/ ReaderStep

Spec == Init /\ [][Next]_vars

-----------------------------------------------------------------------------
\* No nonce seals two frames of a stream: not when the numbers run out, and
\* not after a failed write has left its number unused (write_frame).
NonceOnce ==
    \A f, g \in sealed :
        f.of = g.of /\ Nonce(f.of, f.sequence) = Nonce(g.of, g.sequence) => f = g

\* Whatever the storage gives back, what unseal_directory unpacks before the
\* end is verified is the beginning of what was saved under that file header.
DeliveredIsPrefix ==
    file # None => Len(out) <= handed[file] /\ out = Run(file, 0, Len(out))

\* A stream is accepted only when it is all there: the save went through to its
\* final frame, and every byte handed to the writer has been delivered.
AcceptedIsWhole ==
    reading = "accepted" =>
        after[file] = "finish" /\ pending[file] = 0 /\ out = Run(file, 0, handed[file])

\* What a save wrote to its end is never refused by a later unseal_directory,
\* however long it was (the last sequence number is the edge of it).
SavedIsReadable == reading = "refused" => damaged

\* Where a text is, to those who see no frames.
Fate(s) ==
    IF phase[s] = "finished" THEN "saved" ELSE IF after[s] = "finish" THEN "ended" ELSE "open"

Verdict == IF reading \in {"accepted", "refused", "abandoned"} THEN reading ELSE "none"

Abstract == INSTANCE AbstractStream WITH
    Bytes    <- Byte,
    text     <- [s \in Streams |-> Run(s, 0, handed[s])],
    fate     <- [s \in Streams |-> Fate(s)],
    source   <- file,
    tampered <- damaged,
    got      <- out,
    verdict  <- Verdict

\* The stream keeps the promises of AbstractStream, step by step: however writes
\* fail and frames come back, a text that has ended does not change, nothing
\* delivered is taken back, and a verdict is deserved and final.
ImplementsAbstractStream == Abstract!Spec
=============================================================================
