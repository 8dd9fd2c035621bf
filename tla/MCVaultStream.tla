--------------------------- MODULE MCVaultStream ---------------------------
(* An instance of VaultStream for TLC: two saves, numbers of two bits. *)
EXTENDS VaultStream

MCStreams == {"monday", "tuesday"}

\* Tuesday's seed is so high that its third nonce would carry out of it.
MCSeed == [s \in MCStreams |-> IF s = "monday" THEN 1 ELSE 7]
=============================================================================
