------------------------------- MODULE Opening -------------------------------
(***************************************************************************)
(* What unlock does before a session runs, on storage that may return      *)
(* other manifests than were written: it authenticates the manifest        *)
(* (ManifestKey), selects the runtime root (src/src/config.rs) and makes   *)
(* the profile's directory in it.  VaultStore takes each of the two as one *)
(* step; here the manifest has its fields, and the selection the system    *)
(* calls at which another invocation, another user or the storage may      *)
(* interfere.                                                              *)
(*                                                                         *)
(* A candidate for the runtime root is absent, private (a real directory   *)
(* of the user with mode 0700) or unfit (anything else: a file, a link, a  *)
(* directory that others own or may use).                                  *)
(***************************************************************************)
EXTENDS ManifestKey

CONSTANTS
    Procs,           \* invocations of codex-vault by one user
    Roots,           \* the paths that may become the runtime root
    Absolute,        \* those that are absolute
    Candidates,      \* environment -> the paths it proposes, in order
    Overriding,      \* the environments that set CODEX_VAULT_RUNTIME_DIR
    Times,           \* dates of creation
    Returned,        \* headers that storage returns in place of another
    MaxAlterations,  \* bound: alterations of the storage
    None

Profiles     == {Fold[name] : name \in DOMAIN Fold}
Environments == DOMAIN Candidates
Kinds        == {"absent", "private", "unfit"}
Selecting    == {"look", "create", "check", "resolve"}
Steps        == {"idle", "home", "open"} \cup Selecting

Calls   == [profile: Profiles, password: Passwords, env: Environments]
Records == [profile: Profiles, manifest: Manifests, password: Passwords, key: Keys]
Homes   == [profile: Profiles, env: Environments, root: Roots, id: Text]

ASSUME RootsAssumption ==
    /\ Absolute \subseteq Roots
    /\ Overriding \subseteq Environments
    /\ \A env \in Environments :
          Candidates[env] \in Seq(Roots) /\ Candidates[env] # <<>>
    /\ \A env \in Overriding : Len(Candidates[env]) = 1
ASSUME StorageAssumption ==
    /\ Times \subseteq Nat \ {0}
    /\ Returned \subseteq Headers
    /\ MaxAlterations \in Nat
ASSUME NoneAssumption == None \notin Manifests \cup Keys \cup Calls

VARIABLES
    disk,         \* profile -> the manifest its directory returns
    altered,      \* alterations of the storage so far
    root,         \* path -> what is there
    disturbed,    \* a candidate was changed by somebody else, or a call failed
    pc,           \* process -> next step
    call,         \* process -> the profile, password and environment it has
    opened,       \* process -> the manifest it authenticated
    key,          \* process -> the data key it unwrapped
    attempt,      \* process -> index of the candidate it tries
    written,      \* history: manifests written, with password and data key
    homes         \* history: the runtime directories sessions were given

store == <<disk, altered, written>>
local == <<call, opened, key>>
vars  == <<disk, altered, root, disturbed, pc, call, opened, key, attempt,
           written, homes>>

TypeOK ==
    /\ disk      \in [Profiles -> Manifests \cup {None}]
    /\ altered   \in 0 .. MaxAlterations
    /\ root      \in [Absolute -> Kinds]
    /\ disturbed \in BOOLEAN
    /\ pc        \in [Procs -> Steps]
    /\ call      \in [Procs -> Calls \cup {None}]
    /\ opened    \in [Procs -> Manifests \cup {None}]
    /\ key       \in [Procs -> Keys \cup {None}]
    /\ attempt   \in [Procs -> Nat]
    /\ written   \in SUBSET Records
    /\ homes     \in SUBSET Homes
    /\ \A p \in Procs : pc[p] # "idle" =>
          /\ call[p] # None
          /\ opened[p] # None
          /\ attempt[p] \in 1 .. Len(Candidates[call[p].env])

Init ==
    /\ disk      = [profile \in Profiles |-> None]
    /\ altered   = 0
    /\ root      \in [Absolute -> Kinds]
    /\ disturbed = FALSE
    /\ pc        = [p \in Procs |-> "idle"]
    /\ call      = [p \in Procs |-> None]
    /\ opened    = [p \in Procs |-> None]
    /\ key       = [p \in Procs |-> None]
    /\ attempt   = [p \in Procs |-> 0]
    /\ written   = {}
    /\ homes     = {}

-----------------------------------------------------------------------------
(***************************************************************************)
(* The manifests.  Writing one is a single step, as VaultStore justifies.  *)
(* A salt, an identifier or a data key is drawn once.                      *)
(***************************************************************************)
Drawn(salt) == \E record \in written : record.manifest.header.kdf.salt = salt
Known(id, k) ==
    \E record \in written : record.manifest.header.id = id \/ record.key = k

Record(profile, manifest, password, k) ==
    /\ disk' = [disk EXCEPT ![profile] = manifest]
    /\ written' = written \cup {[profile |-> profile, manifest |-> manifest,
                                 password |-> password, key |-> k]}
    /\ UNCHANGED <<altered, root, disturbed, pc, local, attempt, homes>>

Manifest(header, k, password) ==
    [header |-> header,
     wrapped |-> WrapDataKey(k, DeriveKey(password, header.kdf),
                             AssociatedData(header))]

Add(name, password) ==
    /\ disk[Fold[name]] = None
    /\ \E id \in Uuids, k \in Keys, salt \in Salts, time \in Times :
         /\ ~Known(id, k)
         /\ ~Drawn(salt)
         /\ LET header == NewHeader(id, name, time, DefaultKdf(salt))
            IN  Record(Fold[name], Manifest(header, k, password), password, k)

\* A plausible bug: the key is wrapped before the parameters are replaced.
RewrappedFirst(manifest, salt, password) ==
    LET kdf == DefaultKdf(salt)
    IN  [header  |-> [manifest.header EXCEPT !.kdf = kdf],
         wrapped |-> WrapDataKey(manifest.wrapped.sealed.key, DeriveKey(password, kdf),
                                 AssociatedData(manifest.header))]

Rewrapped(manifest, salt, password) ==
    Manifest([manifest.header EXCEPT !.kdf = DefaultKdf(salt)],
             manifest.wrapped.sealed.key, password)

Busy(profile) == \E p \in Procs : pc[p] # "idle" /\ call[p].profile = profile

Rotate(profile, current, new) ==
    /\ disk[profile] # None
    /\ ~Busy(profile)
    /\ Authenticates(disk[profile], profile, current)
    /\ \E salt \in Salts :
         /\ ~Drawn(salt)
         /\ Record(profile, Rewrapped(disk[profile], salt, new), new,
                   disk[profile].wrapped.sealed.key)

\* The storage returns another header, or the wrapped key of another manifest:
\* an old backup, the file of another profile, changed fields, damage.  It is
\* noticed when the manifest is read, which nobody does while a call has it.
Alter(profile) ==
    /\ disk[profile] # None
    /\ ~Busy(profile)
    /\ altered < MaxAlterations
    /\ altered' = altered + 1
    /\ \E header \in Returned \cup {record.manifest.header : record \in written},
          sealed \in {record.manifest.wrapped.sealed : record \in written} \cup {Damaged} :
         disk' = [disk EXCEPT ![profile] =
                    [header |-> header,
                     wrapped |-> [algorithm |-> "aes-256-gcm", sealed |-> sealed]]]
    /\ UNCHANGED <<root, disturbed, pc, local, attempt, written, homes>>

-----------------------------------------------------------------------------
(***************************************************************************)
(* unlock.  It reads the manifest once, under the profile's lock; all that *)
(* follows up to the key is a computation on that copy.  A call refused    *)
(* here changes nothing and is no action.                                  *)
(***************************************************************************)
Unlock(p, profile, password, env) ==
    /\ pc[p] = "idle"
    /\ disk[profile] # None
    /\ ~Busy(profile)
    /\ Authenticates(disk[profile], profile, password)
    /\ pc'      = [pc EXCEPT ![p] = "look"]
    /\ call'    = [call EXCEPT ![p] =
                     [profile |-> profile, password |-> password, env |-> env]]
    /\ opened'  = [opened EXCEPT ![p] = disk[profile]]
    /\ key'     = [key EXCEPT ![p] = disk[profile].wrapped.sealed.key]
    /\ attempt' = [attempt EXCEPT ![p] = 1]
    /\ UNCHANGED <<store, root, disturbed, homes>>

-----------------------------------------------------------------------------
(***************************************************************************)
(* The selection of the runtime root.  A candidate that fails leads to the *)
(* next one; an override is the only candidate.  A call that fails removes *)
(* nothing it has created.                                                 *)
(***************************************************************************)
Path(p) == Candidates[call[p].env][attempt[p]]

Goto(p, step) ==
    /\ pc' = [pc EXCEPT ![p] = step]
    /\ UNCHANGED <<local, attempt>>

End(p) ==
    /\ pc'      = [pc EXCEPT ![p] = "idle"]
    /\ call'    = [call EXCEPT ![p] = None]
    /\ opened'  = [opened EXCEPT ![p] = None]
    /\ key'     = [key EXCEPT ![p] = None]
    /\ attempt' = [attempt EXCEPT ![p] = 0]

\* A plausible bug: it goes on past the last candidate.
GoOn(p) ==
    /\ attempt' = [attempt EXCEPT ![p] = @ + 1]
    /\ pc' = [pc EXCEPT ![p] = "look"]
    /\ UNCHANGED local

TryNext(p) ==
    /\ attempt[p] < Len(Candidates[call[p].env])
    /\ attempt' = [attempt EXCEPT ![p] = @ + 1]
    /\ pc' = [pc EXCEPT ![p] = "look"]
    /\ UNCHANGED local

NoneLeft(p) == attempt[p] = Len(Candidates[call[p].env]) /\ End(p)

Reject(p) == TryNext(p) \/ NoneLeft(p)

\* The path must be absolute; lstat then says whether it exists.
Relative(p) ==
    /\ pc[p] = "look"
    /\ Path(p) \notin Absolute
    /\ Reject(p)
    /\ UNCHANGED <<store, root, disturbed, homes>>

Look(p) ==
    /\ pc[p] = "look"
    /\ Path(p) \in Absolute
    /\ \/ root[Path(p)] = "absent" /\ Goto(p, "create")
       \/ root[Path(p)] # "absent" /\ Goto(p, "check")
    /\ UNCHANGED <<store, root, disturbed, homes>>

\* A plausible bug: a directory that exists by now is an error.
CreateNew(p) ==
    /\ pc[p] = "create"
    /\ \/ /\ root[Path(p)] = "absent"
          /\ root' = [root EXCEPT ![Path(p)] = "private"]
          /\ Goto(p, "check")
       \/ root[Path(p)] # "absent" /\ Reject(p) /\ UNCHANGED root
    /\ UNCHANGED <<store, disturbed, homes>>

\* mkdir with mode 0700, recursive: what exists by now is left to the check.
Create(p) ==
    /\ pc[p] = "create"
    /\ root' = [root EXCEPT ![Path(p)] = IF @ = "absent" THEN "private" ELSE @]
    /\ Goto(p, "check")
    /\ UNCHANGED <<store, disturbed, homes>>

\* validate_private_directory calls lstat again.
Check(p) ==
    /\ pc[p] = "check"
    /\ \/ root[Path(p)] = "private" /\ Goto(p, "resolve")
       \/ root[Path(p)] # "private" /\ Reject(p)
    /\ UNCHANGED <<store, root, disturbed, homes>>

Resolve(p) ==
    /\ pc[p] = "resolve"
    /\ \/ root[Path(p)] # "absent" /\ Goto(p, "home")
       \/ root[Path(p)] = "absent" /\ Reject(p)
    /\ UNCHANGED <<store, root, disturbed, homes>>

\* Any of these system calls may fail.
CallFails(p) ==
    /\ pc[p] \in Selecting
    /\ Path(p) \in Absolute
    /\ disturbed' = TRUE
    /\ Reject(p)
    /\ UNCHANGED <<store, root, homes>>

\* TempDir makes the directory named by the profile's UUID.
MakeHome(p) ==
    /\ pc[p] = "home"
    /\ root[Path(p)] # "absent"
    /\ homes' = homes \cup {[profile |-> call[p].profile, env |-> call[p].env,
                             root |-> Path(p), id |-> opened[p].header.id]}
    /\ Goto(p, "open")
    /\ UNCHANGED <<store, root, disturbed>>

\* The directory cannot be made, or the state does not unpack.
HomeFails(p) ==
    /\ pc[p] = "home"
    /\ End(p)
    /\ UNCHANGED <<store, root, disturbed, homes>>

Close(p) ==
    /\ pc[p] = "open"
    /\ End(p)
    /\ UNCHANGED <<store, root, disturbed, homes>>

(***************************************************************************)
(* Others: another user takes an absent path of a shared directory, or a   *)
(* logout or a cleaner removes a private root.                             *)
(***************************************************************************)
Occupy(path) ==
    /\ root[path] = "absent"
    /\ root' = [root EXCEPT ![path] = "unfit"]
    /\ disturbed' = TRUE
    /\ UNCHANGED <<store, pc, local, attempt, homes>>

Remove(path) ==
    /\ root[path] # "absent"
    /\ root' = [root EXCEPT ![path] = "absent"]
    /\ disturbed' = TRUE
    /\ UNCHANGED <<store, pc, local, attempt, homes>>

-----------------------------------------------------------------------------
Others ==
    \/ \E profile \in Profiles : Alter(profile)
    \/ \E path \in Absolute : Occupy(path) \/ Remove(path)

Store ==
    \/ \E name \in DOMAIN Fold, password \in Passwords : Add(name, password)
    \/ \E profile \in Profiles, current, new \in Passwords :
          Rotate(profile, current, new)

Opens(p) ==
    \/ \E profile \in Profiles, password \in Passwords, env \in Environments :
          Unlock(p, profile, password, env)
    \/ Relative(p) \/ Look(p) \/ Create(p) \/ Check(p) \/ Resolve(p)
    \/ CallFails(p) \/ MakeHome(p) \/ HomeFails(p) \/ Close(p)

Next == Others \/ Store \/ \E p \in Procs : Opens(p)

Spec == Init /\ [][Next]_vars

-----------------------------------------------------------------------------
(***************************************************************************)
(* Properties                                                              *)
(***************************************************************************)
\* A manifest that unlock accepts was written as it stands by add_user or
\* rotate_password, for this profile and with this password, and the key it
\* yields is the one wrapped then: whatever mixture of old, foreign, changed
\* and damaged manifests the storage returns.  The associated data must cover
\* every header field, and the name must be compared with the profile asked for.
OpenedAsWritten ==
    \A p \in Procs : pc[p] # "idle" =>
        \E record \in written :
            /\ record.manifest.header = opened[p].header
            /\ record.key      = key[p]
            /\ record.password = call[p].password
            /\ record.profile  = call[p].profile

\* Every manifest written opens with the password it was written for, and the
\* key is that of the profile from its creation on: rotate_password replaces
\* the parameters of the derivation, which the associated data covers, before
\* it wraps the key again.
WrittenOpens ==
    \A record \in written :
        /\ Authenticates(record.manifest, record.profile, record.password)
        /\ \A other \in written :
              other.profile = record.profile =>
                 /\ other.manifest.header.id = record.manifest.header.id
                 /\ other.key = record.manifest.wrapped.sealed.key

\* Sessions of one profile under one environment get one path, which Codex
\* keeps in its state: with an override always, without one as long as nobody
\* else changes a candidate and no call fails; several invocations that select
\* and create the root at the same time do not drive each other to another.
\* All this where no link on the way to a candidate is turned elsewhere: what the
\* code hands on is the resolved path (fs::canonicalize), here the candidate's.
StableHome ==
    \A one, other \in homes :
        /\ one.profile = other.profile
        /\ one.env = other.env
        /\ one.env \in Overriding \/ ~disturbed
        => one.root = other.root /\ one.id = other.id

=============================================================================
