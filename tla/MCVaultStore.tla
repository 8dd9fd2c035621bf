---------------------------- MODULE MCVaultStore ----------------------------
(* Instances of VaultStore for TLC. *)
EXTENDS VaultStore, TLC

CONSTANTS p1, p2, pw1, pw2, weak, i1, i2, e1, e2, disk1, shm

OneName  == "alice" :> "alice"
TwoSpellings == "alice" :> "alice" @@ "Alice" :> "alice"

Symmetry == Permutations(Procs) \cup Permutations(Ids) \cup Permutations(Edits)
              \cup Permutations(Strong)

\* Roots differ only in what a power loss does to them.
SymmetryOfSessions == Symmetry \cup Permutations(Roots)
=============================================================================
