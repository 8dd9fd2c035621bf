--------------------------- MODULE AbstractStream ---------------------------
(***************************************************************************)
(* What the encrypted stream promises its callers, without frames, numbers *)
(* and nonces (docs/THREAT_MODEL.md; the operations are those of           *)
(* src/src/crypto/vault_stream.rs).  A text grows at its end until its     *)
(* writer ends it, and counts as saved later still.  The storage may keep  *)
(* a reader from the text, it cannot show the reader another one: bytes    *)
(* come out in order and are never taken back, and the one verdict is yes  *)
(* only for a whole text that had ended, no only for a tampered one.       *)
(***************************************************************************)
EXTENDS Naturals, Sequences

CONSTANTS Streams, Bytes, None

VARIABLES
    text,      \* stream -> the bytes handed to its writer
    fate,      \* stream -> whether its text may still grow, has ended, or is saved
    source,    \* the stream whose file the reader has opened, or None
    tampered,  \* the storage does not give back that file
    got,       \* the bytes that have come out
    verdict    \* what has been said of the file

texts    == <<text, fate>>
readings == <<source, tampered, got, verdict>>
vars     == <<texts, readings>>

Begins(short, long) == Len(short) <= Len(long) /\ short = SubSeq(long, 1, Len(short))

Init ==
    /\ text = [s \in Streams |-> << >>]
    /\ fate = [s \in Streams |-> "open"]
    /\ source = None /\ tampered = FALSE /\ got = << >> /\ verdict = "none"

\* More of the text, which may be the last of it.
Hand(s) ==
    /\ fate[s] = "open" /\ UNCHANGED readings
    /\ text' = [text EXCEPT ![s] = text'[s]]
    /\ text'[s] \in Seq(Bytes) /\ Begins(text[s], text'[s])
    /\ fate' \in {fate, [fate EXCEPT ![s] = "ended"]}

Save(s) ==
    /\ fate[s] = "ended" /\ UNCHANGED <<text, readings>>
    /\ fate' = [fate EXCEPT ![s] = "saved"]

\* Only what was saved is found where nobody tampered.
Open(s) ==
    /\ source = None /\ source' = s
    /\ tampered' \in BOOLEAN /\ (~tampered' => fate[s] = "saved")
    /\ verdict' \in {"none", "refused"} /\ (verdict' = "refused" => tampered')
    /\ UNCHANGED <<texts, got>>

Undecided == source # None /\ verdict = "none"

Deliver ==
    /\ Undecided
    /\ got' \in Seq(Bytes) /\ Begins(got, got') /\ Begins(got', text[source])
    /\ UNCHANGED <<texts, source, tampered, verdict>>

Accept ==
    /\ Undecided
    /\ fate[source] # "open" /\ got = text[source]
    /\ verdict' = "accepted"
    /\ UNCHANGED <<texts, source, tampered, got>>

Refuse ==
    /\ Undecided /\ tampered
    /\ verdict' = "refused"
    /\ UNCHANGED <<texts, source, tampered, got>>

\* The reader's caller gives up.
Abandon ==
    /\ Undecided
    /\ verdict' = "abandoned"
    /\ UNCHANGED <<texts, source, tampered, got>>

Next ==
    \/ Deliver \/ Accept \/ Refuse \/ Abandon
    \/ \E s \in Streams : Open(s) \/ Save(s) \/ Hand(s)

Spec == Init /\ [][Next]_vars
=============================================================================
