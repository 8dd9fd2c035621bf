------------------------------ MODULE MCOpening ------------------------------
(***************************************************************************)
(* An instance of Opening: one profile under two spellings of its name and *)
(* a second one, two passwords, and an environment that sets an override   *)
(* besides one that does not.  Returned has, for each field of a header,   *)
(* one header in which the storage changed only that field.                *)
(***************************************************************************)
EXTENDS Opening, TLC

CONSTANTS p1, p2, s1, s2, k1, k2, Unrooted, Runtime, Temporary

alice == <<97>>
Alice == <<65>>
bob   == <<98>>
ThreeNames == (alice :> alice) @@ (Alice :> alice) @@ (bob :> bob)

TwoUuids == {<<11>>, <<12>>}
TwoSalts == {<<21>>, <<22>>}
Algorithm == <<1>>
Format == <<2>>

\* A relative XDG_RUNTIME_DIR, /dev/shm and the temporary directory; and the
\* second as an override.
Proposed == ("automatic" :> <<Unrooted, Runtime, Temporary>>)
              @@ ("override" :> <<Runtime>>)
OnlyOverride == {"override"}

Base == NewHeader(<<11>>, alice, 1, DefaultKdf(<<21>>))
OneFieldChanged ==
    {[Base EXCEPT !.version = 2], [Base EXCEPT !.id = <<12>>],
     [Base EXCEPT !.username = Alice], [Base EXCEPT !.createdAt = 2],
     [Base EXCEPT !.kdf.memory = 65537], [Base EXCEPT !.kdf.memory = 8],
     [Base EXCEPT !.kdf.salt = <<22>>], [Base EXCEPT !.format = <<3>>]}

\* Bounds.  Identifiers and salts are drawn in one order, which only renames
\* them; names are typed in lower case, and the storage returns the other
\* spelling.  The storage is altered where nobody interferes with the roots, since
\* the manifest is read before a root is selected; and somebody interferes
\* where both profiles exist.
Drawing ==
    /\ \A record \in written :
          /\ (record.manifest.header.id = <<11>>) = (record.profile = alice)
          /\ record.manifest.header.username = record.profile
    /\ written # {} => Drawn(<<21>>)
Interference ==
    /\ disturbed => \A profile \in Profiles : disk[profile] # None
    /\ altered > 0 => ~disturbed /\ root = [path \in Absolute |-> "private"]
Bounds == Drawing /\ Interference

Symmetry == Permutations({p1, p2}) \cup Permutations({s1, s2})
              \cup Permutations({k1, k2})

=============================================================================
