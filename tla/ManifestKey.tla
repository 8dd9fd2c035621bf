----------------------------- MODULE ManifestKey -----------------------------
(***************************************************************************)
(* The manifest of a profile and the wrapping of its data key:             *)
(* src/src/manifest.rs, src/src/crypto/kdf.rs and key_wrap.rs.             *)
(*                                                                         *)
(* A string is the sequence of its bytes.  An integer of a fixed width is  *)
(* one item of the associated data: its width says where it ends.  Base64  *)
(* and hexadecimal texts stand for the values they encode.  Argon2id and   *)
(* AES-256-GCM are ideal: a derived key is a function of the password and  *)
(* all parameters that no other input reaches, and a sealed key opens only *)
(* under the key and the associated data it was sealed with.               *)
(***************************************************************************)
EXTENDS Naturals, Sequences

CONSTANTS
    Fold,         \* valid username -> its lower-case form
    Passwords,    \* the passwords people type
    Keys,         \* random data keys
    Uuids,        \* the texts that parse as a UUID
    Salts,        \* the texts that decode to 16 bytes
    Argon2id,     \* the text "argon2id"
    VaultFormat,  \* the text "cdxvlt02"
    Damaged       \* iv, ciphertext and tag that no wrapping produced

Text     == Seq(Nat)
Kdfs     == [algorithm: Text, salt: Text, memory: Nat, time: Nat,
             parallelism: Nat, output: Nat]
Headers  == [version: Nat, id: Text, username: Text, createdAt: Nat,
             kdf: Kdfs, format: Text]
Derived  == [password: Passwords, kdf: Kdfs]
Sealings == [key: Keys, under: Derived, aad: Text]
Wrapped  == [algorithm: {"aes-256-gcm", "other"}, sealed: Sealings \cup {Damaged}]
Manifests == [header: Headers, wrapped: Wrapped]

ASSUME FoldAssumption ==
    /\ DOMAIN Fold \subseteq Text
    /\ \A name \in DOMAIN Fold : Fold[name] \in Text
ASSUME TextAssumption ==
    /\ Uuids \subseteq Text
    /\ Salts \subseteq Text
    /\ Argon2id \in Text
    /\ VaultFormat \in Text
ASSUME DamagedAssumption == Damaged \notin Sealings

-----------------------------------------------------------------------------
(***************************************************************************)
(* The parameters of the key derivation.  They are read from a manifest    *)
(* that nothing has authenticated yet: the key they lead to is what the    *)
(* authentication needs.                                                   *)
(***************************************************************************)
DefaultKdf(salt) ==
    [algorithm |-> Argon2id, salt |-> salt, memory |-> 64 * 1024,
     time |-> 3, parallelism |-> 1, output |-> 32]

ValidParameters(kdf) ==
    /\ kdf.algorithm = Argon2id
    /\ kdf.memory \in 16 * 1024 .. 256 * 1024
    /\ kdf.time \in 1 .. 10
    /\ kdf.parallelism \in 1 .. 16
    /\ kdf.output = 32

Derivable(kdf) == ValidParameters(kdf) /\ kdf.salt \in Salts

DeriveKey(password, kdf) == [password |-> password, kdf |-> kdf]

-----------------------------------------------------------------------------
(***************************************************************************)
(* The header: every field but the wrapped key, and its encoding.          *)
(***************************************************************************)
IsValidUsername(name) == name \in DOMAIN Fold

NewHeader(id, name, time, kdf) ==
    [version |-> 1, id |-> id, username |-> name, createdAt |-> time,
     kdf |-> kdf, format |-> VaultFormat]

Validate(manifest) ==
    /\ manifest.header.version = 1
    /\ manifest.header.id \in Uuids
    /\ IsValidUsername(manifest.header.username)
    /\ manifest.header.createdAt # 0
    /\ manifest.header.format = VaultFormat
    /\ manifest.wrapped.algorithm = "aes-256-gcm"

Field(text) == <<Len(text)>> \o text

\* A plausible bug: the date of creation is left out.
UndatedData(header) ==
    <<header.version>> \o Field(header.id) \o Field(header.username)
        \o Field(header.kdf.algorithm) \o Field(header.kdf.salt)
        \o <<header.kdf.memory, header.kdf.time, header.kdf.parallelism,
             header.kdf.output>>
        \o Field(header.format)

AssociatedData(header) ==
    <<header.version>> \o (Field(header.id) \o (Field(header.username)
        \o (<<header.createdAt>>
        \o (Field(header.kdf.algorithm) \o (Field(header.kdf.salt)
        \o (<<header.kdf.memory, header.kdf.time, header.kdf.parallelism,
              header.kdf.output>>
        \o Field(header.format)))))))

-----------------------------------------------------------------------------
(***************************************************************************)
(* Wrapping.  A text that does not decode, has the wrong length or carries *)
(* other bytes than a wrapping produced is Damaged; for each of them, and  *)
(* for a wrong key or other associated data, unwrap_data_key returns the   *)
(* same error.                                                             *)
(***************************************************************************)
WrapDataKey(key, under, aad) ==
    [algorithm |-> "aes-256-gcm",
     sealed |-> [key |-> key, under |-> under, aad |-> aad]]

Unwraps(wrapped, under, aad) ==
    /\ wrapped.sealed # Damaged
    /\ wrapped.sealed.under = under
    /\ wrapped.sealed.aad = aad

\* The checks of unlock and rotate_password, in the order of the code.
Authenticates(manifest, profile, password) ==
    /\ Validate(manifest)
    /\ Fold[manifest.header.username] = profile
    /\ Derivable(manifest.header.kdf)
    /\ Unwraps(manifest.wrapped, DeriveKey(password, manifest.header.kdf),
               AssociatedData(manifest.header))

=============================================================================
