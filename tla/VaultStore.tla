----------------------------- MODULE VaultStore -----------------------------
(***************************************************************************)
(* The encrypted profile store of codex-vault: src/src/store.rs with the   *)
(* archive it writes (archive.rs) and the session life cycle around it     *)
(* (runner.rs).  Each element of Procs is one invocation slot of the       *)
(* codex-vault executable: it runs add_user, rotate_password or            *)
(* run_program, one call at a time, and may be killed at any step.         *)
(*                                                                         *)
(* Disk:     dirs (the profile directories), images (what a power loss may *)
(*           make of them), runtime (the plaintext directories).           *)
(* Kernel:   lock (the advisory lock on active.lock), orphans and strays   *)
(*           (Codex processes whose codex-vault was killed or panicked).   *)
(* Process:  pc, job, seen, draft, home, outcome.                          *)
(* History:  acked, retired, drawn; no guard reads acked or retired.       *)
(***************************************************************************)
EXTENDS Naturals, FiniteSets

CONSTANTS
    Procs,          \* invocation slots of codex-vault
    Fold,           \* valid username -> directory name (to_ascii_lowercase)
    Passwords,      \* every password somebody types
    Strong,         \* those of at least 12 bytes
    Ids,            \* random values: profile UUIDs and data keys
    Edits,          \* what Codex sessions add to their CODEX_HOME
    Roots,          \* the runtime roots invocations may be configured with
    VolatileRoots,  \* those in memory (XDG_RUNTIME_DIR, /dev/shm)
    Faults,         \* the faults of the environment an instance explores
    None

Names     == DOMAIN Fold
Profiles  == {Fold[n] : n \in Names}
Paths     == Roots \X Ids
Manifests == [name: Names, id: Ids, key: Ids, password: Strong]
Sealed    == [key: Ids, contents: SUBSET Edits]
Dirs      == [manifest: Manifests, state: Sealed]
Jobs      == [op: {"add", "rotate", "run"}, name: Names,
              password: Passwords, fresh: Passwords]
Outcomes  == {"Ok", "Authentication", "Launch", "Io", "Panic"}

(***************************************************************************)
(* The steps of a process.  A process holds the profile lock in Holding, a *)
(* runtime directory in Housed and a running Codex child in Running.       *)
(***************************************************************************)
Running == {"forward", "wait"}
Housed  == {"extract", "discard", "spawn", "seal", "replace", "cleanup"}
             \cup Running
Rotating == {"rotate", "rename", "sync"}
Holding == {"unlock", "home", "release"} \cup Housed \cup Rotating
Adding  == {"stage", "publish"}
Steps   == {"idle", "lock"} \cup Adding \cup Holding

ASSUME FoldAssumption     == Fold \in [Names -> Profiles]
ASSUME StrongAssumption   == Strong \subseteq Passwords
ASSUME VolatileAssumption == VolatileRoots \subseteq Roots
ASSUME FaultsAssumption   == Faults \subseteq {"crash", "io", "power"}
ASSUME NoneAssumption ==
    /\ None \notin Procs
    /\ None \notin Paths
    /\ None \notin Manifests
    /\ None \notin Sealed
    /\ None \notin Dirs
    /\ None \notin Jobs
    /\ \A contents \in SUBSET Edits : contents # None

VARIABLES
    dirs,     \* profile directory -> its manifest.json and state.cvlt
    images,   \* profile directory -> the versions a power loss may leave
    lock,     \* profile directory -> holder of the lock on active.lock
    runtime,  \* path -> contents of the plaintext directory there
    orphans,  \* paths in use by a Codex whose codex-vault was killed
    strays,   \* paths a Codex that a panic cut loose may still write to
    pc,       \* process -> next step
    job,      \* process -> the call it executes
    seen,     \* process -> the manifest it read or is creating
    draft,    \* process -> the state file it has written but not renamed
    home,     \* process -> the runtime directory its TempDir owns
    outcome,  \* process -> result of the call so far
    acked,    \* profile directory -> edits of sessions that returned Ok
    retired,  \* profile directory -> passwords rotated away with Ok
    drawn     \* random values used so far

disk    == <<dirs, images>>
loose   == <<orphans, strays>>
world   == <<disk, lock, runtime, loose>>
call    == <<job, seen, draft, home>>
process == <<pc, call, outcome>>
history == <<acked, retired, drawn>>
vars    == <<world, process, history>>

TypeOK ==
    /\ dirs    \in [Profiles -> Dirs \cup {None}]
    /\ images  \in [Profiles -> SUBSET (Dirs \cup {None})]
    /\ lock    \in [Profiles -> Procs \cup {None}]
    /\ runtime \in [Paths -> (SUBSET Edits) \cup {None}]
    /\ orphans \subseteq Paths
    /\ strays  \subseteq Paths
    /\ pc      \in [Procs -> Steps]
    /\ job     \in [Procs -> Jobs \cup {None}]
    /\ seen    \in [Procs -> Manifests \cup {None}]
    /\ draft   \in [Procs -> Sealed \cup {None}]
    /\ home    \in [Procs -> Paths \cup {None}]
    /\ outcome \in [Procs -> Outcomes]
    /\ acked   \in [Profiles -> SUBSET Edits]
    /\ retired \in [Profiles -> SUBSET Passwords]
    /\ drawn   \subseteq Ids

Init ==
    /\ dirs    = [d \in Profiles |-> None]
    /\ images  = [d \in Profiles |-> {None}]
    /\ lock    = [d \in Profiles |-> None]
    /\ runtime = [path \in Paths |-> None]
    /\ orphans = {}
    /\ strays  = {}
    /\ pc      = [p \in Procs |-> "idle"]
    /\ job     = [p \in Procs |-> None]
    /\ seen    = [p \in Procs |-> None]
    /\ draft   = [p \in Procs |-> None]
    /\ home    = [p \in Procs |-> None]
    /\ outcome = [p \in Procs |-> "Ok"]
    /\ acked   = [d \in Profiles |-> {}]
    /\ retired = [d \in Profiles |-> {}]
    /\ drawn   = {}

-----------------------------------------------------------------------------
(***************************************************************************)
(* Calls and their results.                                                *)
(***************************************************************************)
Dir(p) == Fold[job[p].name]

Goto(p, step) == pc' = [pc EXCEPT ![p] = step]

\* The call starts: its arguments are fixed and nothing else has happened.
Call(p, op, name, password, fresh) ==
    job' = [job EXCEPT ![p] = [op |-> op, name |-> name,
                               password |-> password, fresh |-> fresh]]

\* The call returns, or its process dies: only the disk and the lock remain.
Return(p) ==
    /\ pc'      = [pc      EXCEPT ![p] = "idle"]
    /\ job'     = [job     EXCEPT ![p] = None]
    /\ seen'    = [seen    EXCEPT ![p] = None]
    /\ draft'   = [draft   EXCEPT ![p] = None]
    /\ home'    = [home    EXCEPT ![p] = None]
    /\ outcome' = [outcome EXCEPT ![p] = "Ok"]

\* Later errors do not replace an earlier one, except that close()? comes
\* before the launch error in run_program.
FirstError(before, error) ==
    IF before \in {"Ok", "Launch"} THEN error ELSE before

Fail(p, error) ==
    outcome' = [outcome EXCEPT ![p] = FirstError(outcome[p], error)]

IoFault == "io" \in Faults

(***************************************************************************)
(* The disk.  rename(2) replaces a file or a directory in one piece, but   *)
(* until the directory it happened in is synced a power loss may take the  *)
(* rename back, and with it all later ones.  Without power failures there  *)
(* is nothing to remember.                                                 *)
(***************************************************************************)
Write(d, version) ==
    /\ dirs'   = [dirs EXCEPT ![d] = version]
    /\ images' = [images EXCEPT ![d] =
                    IF "power" \in Faults THEN @ \cup {version} ELSE {version}]

\* The sync of a profile's own directory makes its last version durable.  It
\* does not reach the directory above, where the profile itself was renamed.
UnsyncedImages(d) == images[d]
SyncedImages(d) == {dirs[d]} \cup (images[d] \cap {None})

-----------------------------------------------------------------------------
(***************************************************************************)
(* add_user.  The profile is staged under a name nobody else looks at and  *)
(* published by one rename.  A refused call (a weak password, an existing  *)
(* profile, a failure while staging) leaves nothing and is a stuttering    *)
(* step.  The staged manifest and state are seen[p] and draft[p].          *)
(***************************************************************************)
AcceptAnyPassword(password) == TRUE
ValidPassword(password) == password \in Strong

AddUser(p) ==
    /\ pc[p] = "idle"
    /\ \E name \in Names, password \in Passwords, id \in Ids \ drawn :
         /\ ValidPassword(password)
         /\ dirs[Fold[name]] = None
         /\ Call(p, "add", name, password, password)
         /\ seen'  = [seen EXCEPT ![p] = [name |-> name, id |-> id, key |-> id,
                                          password |-> password]]
         /\ draft' = [draft EXCEPT ![p] = [key |-> id, contents |-> {}]]
         /\ drawn' = drawn \cup {id}
    /\ Goto(p, "publish")
    /\ UNCHANGED <<world, home, outcome, acked, retired>>

\* rename(2) refuses a target directory that is not empty.
PublishOverExisting(d) == TRUE
MayPublish(d) == dirs[d] = None

Publish(p) ==
    /\ pc[p] = "publish"
    /\ MayPublish(Dir(p))
    /\ Write(Dir(p), [manifest |-> seen[p], state |-> draft[p]])
    /\ Return(p)
    /\ UNCHANGED <<lock, runtime, loose, history>>

PublishFails(p) ==
    /\ pc[p] = "publish"
    /\ ~MayPublish(Dir(p)) \/ IoFault
    /\ Return(p)
    /\ UNCHANGED <<world, history>>

-----------------------------------------------------------------------------
(***************************************************************************)
(* The beginning rotate_password and unlock share: the profile exists, and *)
(* its lock is taken without waiting.                                      *)
(***************************************************************************)
BeginRotation(p) ==
    /\ pc[p] = "idle"
    /\ \E name \in Names, password \in Passwords, fresh \in Passwords :
         /\ ValidPassword(fresh)
         /\ dirs[Fold[name]] # None
         /\ Call(p, "rotate", name, password, fresh)
    /\ Goto(p, "lock")
    /\ UNCHANGED <<world, seen, draft, home, outcome, history>>

BeginRun(p) ==
    /\ pc[p] = "idle"
    /\ \E name \in Names, password \in Passwords :
         /\ dirs[Fold[name]] # None
         /\ Call(p, "run", name, password, password)
    /\ Goto(p, "lock")
    /\ UNCHANGED <<world, seen, draft, home, outcome, history>>

LockShared(d) == TRUE
LockFree(d) == lock[d] = None

AcquireLock(p) ==
    /\ pc[p] = "lock"
    /\ LockFree(Dir(p))
    /\ lock' = [lock EXCEPT ![Dir(p)] = p]
    /\ Goto(p, IF job[p].op = "rotate" THEN "rotate" ELSE "unlock")
    /\ UNCHANGED <<disk, runtime, loose, call, outcome, history>>

\* Locked, or an error of the lock file, whose descriptor is then closed.
WaitForLock(d) == FALSE
MayRefuse(d) == ~LockFree(d) \/ IoFault

LockRefused(p) ==
    /\ pc[p] = "lock"
    /\ MayRefuse(Dir(p))
    /\ Return(p)
    /\ UNCHANGED <<world, history>>

\* The name check, and unwrapping the data key with the password given.
Authenticates(p) ==
    LET manifest == dirs[Dir(p)].manifest
    IN  Fold[manifest.name] = Dir(p) /\ manifest.password = job[p].password

ReadManifest(p) ==
    /\ Authenticates(p)
    /\ seen' = [seen EXCEPT ![p] = dirs[Dir(p)].manifest]

AuthenticationFails(p) ==
    /\ pc[p] \in {"rotate", "unlock"}
    /\ ~Authenticates(p)
    /\ Fail(p, "Authentication")
    /\ Goto(p, "release")
    /\ UNCHANGED <<world, call, history>>

\* An I/O error under the lock and before a runtime directory exists.
LockedStepFails(p) ==
    /\ IoFault
    /\ pc[p] \in Rotating \cup {"unlock", "home"}
    /\ Fail(p, "Io")
    /\ Goto(p, "release")
    /\ UNCHANGED <<world, call, history>>

-----------------------------------------------------------------------------
(***************************************************************************)
(* rotate_password under the lock.  Deriving the new wrapping key and      *)
(* writing the temporary manifest touch nothing another process reads, so  *)
(* they belong to the step that authenticates.                             *)
(***************************************************************************)
Authenticate(p) ==
    /\ pc[p] = "rotate"
    /\ ReadManifest(p)
    /\ Goto(p, "rename")
    /\ UNCHANGED <<world, job, draft, home, outcome, history>>

RotatedWithNewKey(manifest, password) ==
    [manifest EXCEPT !.password = password,
                     !.key = CHOOSE key \in Ids : key # manifest.key]
Rotated(manifest, password) == [manifest EXCEPT !.password = password]

ReplaceManifest(p) ==
    LET d == Dir(p) IN
    /\ pc[p] = "rename"
    /\ Write(d, [dirs[d] EXCEPT !.manifest = Rotated(seen[p], job[p].fresh)])
    /\ retired' = [retired EXCEPT ![d] = @ \ {job[p].fresh}]
    /\ Goto(p, "sync")
    /\ UNCHANGED <<lock, runtime, loose, call, outcome, acked, drawn>>

SyncProfile(p) ==
    /\ pc[p] = "sync"
    /\ images' = [images EXCEPT ![Dir(p)] = SyncedImages(Dir(p))]
    /\ Goto(p, "release")
    /\ UNCHANGED <<dirs, lock, runtime, loose, call, outcome, history>>

-----------------------------------------------------------------------------
(***************************************************************************)
(* unlock: authenticate, create the runtime directory, extract.            *)
(***************************************************************************)
Unlock(p) ==
    /\ pc[p] = "unlock"
    /\ ReadManifest(p)
    /\ Goto(p, "home")
    /\ UNCHANGED <<world, job, draft, home, outcome, history>>

\* The directory is named after the profile and must not exist yet.
AdoptExisting(path) == TRUE
MayCreateHome(path) == runtime[path] = None

CreateHome(p) ==
    /\ pc[p] = "home"
    /\ \E root \in Roots :
         LET path == <<root, seen[p].id>> IN
         /\ MayCreateHome(path)
         /\ runtime' = [runtime EXCEPT ![path] = {}]
         /\ home'    = [home EXCEPT ![p] = path]
    /\ Goto(p, "extract")
    /\ UNCHANGED <<disk, lock, loose, job, seen, draft, outcome, history>>

HomeRefused(p) ==
    /\ pc[p] = "home"
    /\ \E root \in Roots : ~MayCreateHome(<<root, seen[p].id>>)
    /\ Fail(p, "Io")
    /\ Goto(p, "release")
    /\ UNCHANGED <<world, call, history>>

\* The state opens only under the key it was sealed with.  The new directory
\* is empty, unless a Codex that a panic cut loose has found it.
Extract(p) ==
    /\ pc[p] = "extract"
    /\ dirs[Dir(p)].state.key = seen[p].key
    /\ runtime' = [runtime EXCEPT ![home[p]] = @ \cup dirs[Dir(p)].state.contents]
    /\ Goto(p, "spawn")
    /\ UNCHANGED <<disk, lock, loose, call, outcome, history>>

\* Part of the archive may have been extracted by then.
ExtractFails(p) ==
    /\ IoFault
    /\ pc[p] = "extract"
    /\ \E part \in SUBSET dirs[Dir(p)].state.contents :
         runtime' = [runtime EXCEPT ![home[p]] = @ \cup part]
    /\ Fail(p, "Io")
    /\ Goto(p, "discard")
    /\ UNCHANGED <<disk, lock, loose, call, history>>

\* Dropping the TempDir: an error of the removal is not reported.
Discard(p) ==
    /\ pc[p] = "discard"
    /\ \/ runtime' = [runtime EXCEPT ![home[p]] = None]
       \/ /\ IoFault
          /\ \E part \in SUBSET runtime[home[p]] :
               runtime' = [runtime EXCEPT ![home[p]] = part]
    /\ Goto(p, "release")
    /\ UNCHANGED <<disk, lock, loose, call, outcome, history>>

-----------------------------------------------------------------------------
(***************************************************************************)
(* run_program with the vault unlocked: Codex runs, edits its CODEX_HOME   *)
(* and exits; close seals what it left.                                    *)
(***************************************************************************)
Spawn(p) ==
    /\ pc[p] = "spawn"
    /\ Goto(p, "forward")
    /\ UNCHANGED <<world, call, outcome, history>>

SpawnFails(p) ==
    /\ pc[p] = "spawn"
    /\ Fail(p, "Launch")
    /\ Goto(p, "seal")
    /\ UNCHANGED <<world, call, history>>

StartForwarder(p) ==
    /\ pc[p] = "forward"
    /\ Goto(p, "wait")
    /\ UNCHANGED <<world, call, outcome, history>>

\* The handlers cannot be registered: the child is killed and reaped before the
\* vault is closed.
ForwarderFails(p) ==
    /\ IoFault
    /\ pc[p] = "forward"
    /\ Fail(p, "Io")
    /\ Goto(p, "seal")
    /\ UNCHANGED <<world, call, history>>

\* No thread can be made: thread::spawn panics.  Unwinding drops the child, which
\* goes on, then the TempDir and at last the lock file; nothing is sealed.
ForwarderPanics(p) ==
    /\ IoFault
    /\ pc[p] = "forward"
    /\ strays' = strays \cup {home[p]}
    /\ Fail(p, "Panic")
    /\ Goto(p, "discard")
    /\ UNCHANGED <<disk, lock, runtime, orphans, call, history>>

Edit(p) ==
    /\ pc[p] \in Running
    /\ \E edit \in Edits \ runtime[home[p]] :
         runtime' = [runtime EXCEPT ![home[p]] = @ \cup {edit}]
    /\ UNCHANGED <<disk, lock, loose, process, history>>

\* wait() answers once the child is gone, be it with an error (ECHILD).
ChildExits(p) ==
    /\ pc[p] = "wait"
    /\ \/ UNCHANGED outcome
       \/ IoFault /\ Fail(p, "Io")
    /\ Goto(p, "seal")
    /\ UNCHANGED <<world, call, history>>

-----------------------------------------------------------------------------
(***************************************************************************)
(* close: seal into a temporary file, rename it over state.cvlt (nothing   *)
(* syncs the directory afterwards), remove the runtime directory whatever  *)
(* happened, release the lock.                                             *)
(***************************************************************************)
Seal(p) ==
    /\ pc[p] = "seal"
    /\ draft' = [draft EXCEPT ![p] = [key      |-> seen[p].key,
                                      contents |-> runtime[home[p]]]]
    /\ Goto(p, "replace")
    /\ UNCHANGED <<world, job, seen, home, outcome, history>>

ReplaceState(p) ==
    LET d == Dir(p) IN
    /\ pc[p] = "replace"
    /\ Write(d, [dirs[d] EXCEPT !.state = draft[p]])
    /\ Goto(p, "cleanup")
    /\ UNCHANGED <<lock, runtime, loose, call, outcome, history>>

SealErrorLost(p) ==
    /\ pc[p] \in {"seal", "replace"}
    /\ draft' = [draft EXCEPT ![p] = None]
    /\ Goto(p, "cleanup")
    /\ UNCHANGED <<world, job, seen, home, outcome, history>>
SealFails(p) ==
    /\ IoFault
    /\ pc[p] \in {"seal", "replace"}
    /\ draft' = [draft EXCEPT ![p] = None]
    /\ Fail(p, "Io")
    /\ Goto(p, "cleanup")
    /\ UNCHANGED <<world, job, seen, home, history>>

CleanupAfterUnlock(p) ==
    /\ pc[p] = "cleanup"
    /\ \/ /\ lock' = [lock EXCEPT ![Dir(p)] = None]
          /\ UNCHANGED <<runtime, pc>>
       \/ /\ runtime' = [runtime EXCEPT ![home[p]] = None]
          /\ Goto(p, "release")
          /\ UNCHANGED lock
    /\ UNCHANGED <<disk, loose, call, outcome, history>>
Cleanup(p) ==
    /\ pc[p] = "cleanup"
    /\ runtime' = [runtime EXCEPT ![home[p]] = None]
    /\ Goto(p, "release")
    /\ UNCHANGED <<disk, lock, loose, call, outcome, history>>

CleanupErrorLost(p) ==
    /\ pc[p] = "cleanup"
    /\ \E part \in SUBSET runtime[home[p]] :
         runtime' = [runtime EXCEPT ![home[p]] = part]
    /\ Goto(p, "release")
    /\ UNCHANGED <<disk, lock, loose, call, outcome, history>>
CleanupFails(p) ==
    /\ IoFault
    /\ pc[p] = "cleanup"
    /\ \E part \in SUBSET runtime[home[p]] :
         runtime' = [runtime EXCEPT ![home[p]] = part]
    /\ Fail(p, "Io")
    /\ Goto(p, "release")
    /\ UNCHANGED <<disk, lock, loose, call, history>>

(***************************************************************************)
(* The lock is released and the call returns.  Ok is a promise: the edits  *)
(* of the session are kept, or the old password no longer opens anything.  *)
(* If unlocking fails the call returns that error instead, and closing the *)
(* file releases the lock all the same.                                    *)
(***************************************************************************)
Acknowledge(p) ==
    LET d == Dir(p) IN
    IF job[p].op = "run"
    THEN /\ acked' = [acked EXCEPT ![d] = @ \cup draft[p].contents]
         /\ UNCHANGED retired
    ELSE /\ retired' = [retired EXCEPT ![d] =
                          (@ \cup {seen[p].password}) \ {job[p].fresh}]
         /\ UNCHANGED acked

Release(p) ==
    /\ pc[p] = "release"
    /\ lock' = [lock EXCEPT ![Dir(p)] = None]
    /\ \/ outcome[p] = "Ok" /\ Acknowledge(p)
       \/ (outcome[p] # "Ok" \/ IoFault) /\ UNCHANGED <<acked, retired>>
    /\ Return(p)
    /\ UNCHANGED <<disk, runtime, loose, drawn>>

-----------------------------------------------------------------------------
(***************************************************************************)
(* The environment.                                                        *)
(***************************************************************************)
\* What a process killed at its present step leaves in its runtime directory.
Leftovers(p) ==
    CASE pc[p] = "extract" -> {runtime[home[p]] \cup part :
                                 part \in SUBSET dirs[Dir(p)].state.contents}
      [] pc[p] \in {"discard", "cleanup"} -> SUBSET runtime[home[p]]
      [] OTHER                           -> {runtime[home[p]]}

\* codex-vault is killed.  The kernel releases its lock; a Codex child goes on.
Crash(p) ==
    /\ "crash" \in Faults
    /\ pc[p] # "idle"
    /\ lock' = [d \in Profiles |-> IF lock[d] = p THEN None ELSE lock[d]]
    /\ IF pc[p] \in Housed
       THEN \E left \in Leftovers(p) :
              runtime' = [runtime EXCEPT ![home[p]] = left]
       ELSE UNCHANGED runtime
    /\ orphans' = IF pc[p] \in Running THEN orphans \cup {home[p]} ELSE orphans
    /\ Return(p)
    /\ UNCHANGED <<disk, strays, history>>

\* A Codex whose directory was removed finds it gone, makes it anew, or finds
\* that of a later session there.
Found(path) == IF runtime[path] = None THEN {} ELSE runtime[path]

OrphanEdits(path) ==
    /\ path \in orphans \cup strays
    /\ \E edit \in Edits \ Found(path) :
         runtime' = [runtime EXCEPT ![path] = Found(path) \cup {edit}]
    /\ UNCHANGED <<disk, lock, loose, process, history>>

OrphanExits(path) ==
    /\ path \in orphans
    /\ orphans' = orphans \ {path}
    /\ UNCHANGED <<disk, lock, runtime, strays, process, history>>

\* A person removes a directory that no process uses any more.
Recover(path) ==
    /\ runtime[path] # None
    /\ path \notin orphans
    /\ \A p \in Procs : pc[p] \in Housed => home[p] # path
    /\ runtime' = [runtime EXCEPT ![path] = None]
    /\ UNCHANGED <<disk, lock, loose, process, history>>

\* Every process ends, memory is lost, and every profile falls back to one of
\* the versions the disk may hold; the promises that remain are about that.
PowerLoss ==
    /\ "power" \in Faults
    /\ \E after \in [Profiles -> UNION {images[d] : d \in Profiles}] :
         /\ \A d \in Profiles : after[d] \in images[d]
         /\ dirs'    = after
         /\ images'  = [d \in Profiles |-> {after[d]}]
         /\ acked'   = [d \in Profiles |->
                          IF after[d] = None THEN {}
                          ELSE acked[d] \cap after[d].state.contents]
         /\ retired' = [d \in Profiles |->
                          IF after[d] = None THEN {} ELSE retired[d]]
    /\ lock'    = [d \in Profiles |-> None]
    /\ runtime' = [path \in Paths |->
                     IF path[1] \in VolatileRoots THEN None ELSE runtime[path]]
    /\ orphans' = {}
    /\ strays'  = {}
    /\ pc'      = [p \in Procs |-> "idle"]
    /\ job'     = [p \in Procs |-> None]
    /\ seen'    = [p \in Procs |-> None]
    /\ draft'   = [p \in Procs |-> None]
    /\ home'    = [p \in Procs |-> None]
    /\ outcome' = [p \in Procs |-> "Ok"]
    /\ UNCHANGED drawn

-----------------------------------------------------------------------------
\* What a process does once called; the rest is up to callers and Codex.
Step(p) ==
    \/ Publish(p) \/ PublishFails(p)
    \/ AcquireLock(p) \/ LockRefused(p)
    \/ AuthenticationFails(p) \/ LockedStepFails(p)
    \/ Authenticate(p) \/ ReplaceManifest(p) \/ SyncProfile(p)
    \/ Unlock(p) \/ CreateHome(p) \/ HomeRefused(p)
    \/ Extract(p) \/ ExtractFails(p) \/ Discard(p)
    \/ Spawn(p) \/ SpawnFails(p) \/ StartForwarder(p) \/ ForwarderFails(p)
    \/ ForwarderPanics(p)
    \/ Seal(p) \/ ReplaceState(p) \/ SealFails(p)
    \/ Cleanup(p) \/ CleanupFails(p)
    \/ Release(p)

Request(p) == AddUser(p) \/ BeginRotation(p) \/ BeginRun(p)

Codex(p) == Edit(p) \/ ChildExits(p)

Leftover(path) == OrphanEdits(path) \/ OrphanExits(path) \/ Recover(path)

Next ==
    \/ \E p \in Procs : Request(p) \/ Step(p) \/ Codex(p) \/ Crash(p)
    \/ \E path \in Paths : Leftover(path)
    \/ PowerLoss

Spec == Init /\ [][Next]_vars

(***************************************************************************)
(* The operating system runs every process.  Nothing makes a Codex session *)
(* end, a user call, an operator clean up or a process die.                *)
(***************************************************************************)
FairSpec == Spec /\ \A p \in Procs : WF_vars(Step(p))

-----------------------------------------------------------------------------
(***************************************************************************)
(* Safety.                                                                 *)
(***************************************************************************)
\* Every profile a process or a power loss can meet is whole: the key its
\* manifest yields opens its state, and the name check of unlock and
\* rotate_password accepts it (add_user stages and renames; rotation rewraps).
Whole(d, version) ==
    /\ version.state.key = version.manifest.key
    /\ Fold[version.manifest.name] = d

WholeProfiles ==
    \A d \in Profiles : \A version \in images[d] :
        version # None => Whole(d, version)

\* At most one process is between acquire_lock and the end of its call for
\* the same profile, however the user spelled the name.
ExclusiveSession ==
    \A p, q \in Procs :
        p # q /\ pc[p] \in Holding /\ pc[q] \in Holding => Dir(p) # Dir(q)

\* A session never runs its Codex in the CODEX_HOME of another session, nor of a
\* Codex whose codex-vault was killed and the profile lock with it: the runtime
\* directory is created exclusively, and a kill leaves it.  The strays are not
\* promised to be apart: a panic in SignalForwarder::start removes the directory
\* of a Codex that goes on (ForwarderPanics), and its path is free again.
OneCodexPerHome ==
    \A p \in Procs : pc[p] \in Running =>
        /\ home[p] \notin orphans
        /\ \A q \in Procs \ {p} : pc[q] \in Running => home[q] # home[p]

\* What close() removes is in state.cvlt, unless the call is going to report
\* an error (close attempts the removal even when sealing failed) or a stray
\* may have written after the seal.
SavedBeforeRemoved ==
    \A p \in Procs :
        /\ pc[p] = "cleanup"
        /\ outcome[p] \in {"Ok", "Launch"}
        /\ home[p] \notin strays
        => runtime[home[p]] \subseteq dirs[Dir(p)].state.contents

\* The edits of every session that returned Ok are in the profile: no later
\* or concurrent session, rotation or creation overwrites them.
NoLostUpdate ==
    \A d \in Profiles :
        acked[d] # {} => /\ dirs[d] # None
                         /\ acked[d] \subseteq dirs[d].state.contents

\* A session that returns Ok has left no plaintext behind (the comment on
\* close: cleanup failures must not be treated as a clean lock), where no stray
\* can have made the directory again.
NoPlaintextAfterOk ==
    \A p \in Procs :
        /\ pc[p] = "release"
        /\ home[p] # None /\ home[p] \notin strays
        /\ outcome[p] = "Ok"
        => runtime[home[p]] = None

\* Once rotate_password has returned Ok the old password opens no version of
\* the profile, not even one that a power loss brings back
\* (replace_private_json syncs the directory).
RetiredStaysRetired ==
    \A d \in Profiles : \A version \in images[d] :
        version # None => version.manifest.password \notin retired[d]

\* A process that holds the lock is refused its runtime directory only for what
\* no call owns any more, never for that of a session at work: a session has let
\* go of its directory, removed or, where that failed, left behind with an error,
\* before its lock is free.
RefusedOnlyByLeftovers ==
    \A p, q \in Procs :
        p # q /\ pc[p] = "home" /\ pc[q] \in Housed => home[q][2] # seen[p].id

-----------------------------------------------------------------------------
(***************************************************************************)
(* Action properties.                                                      *)
(***************************************************************************)
\* A profile keeps its UUID and its data key while it exists: creating it
\* again, rotating and sealing never replace them.
IdentityStable ==
    [][\A d \in Profiles : dirs[d] # None /\ dirs'[d] # None =>
         /\ dirs'[d].manifest.id  = dirs[d].manifest.id
         /\ dirs'[d].manifest.key = dirs[d].manifest.key]_vars

\* The program neither changes nor removes plaintext that an earlier process
\* left behind: only a person, a power loss or a Codex that goes on does.
Owned(path) == \E p \in Procs : pc[p] \in Housed /\ home[p] = path

LeftoversPreserved ==
    [][\A path \in Paths :
         runtime[path] # None /\ ~Owned(path) /\ runtime'[path] # runtime[path]
            => Leftover(path) \/ PowerLoss]_vars

-----------------------------------------------------------------------------
(***************************************************************************)
(* Liveness.                                                               *)
(***************************************************************************)
\* Every call returns, unless its Codex session goes on for ever: no call
\* waits for the lock, for another process or for somebody to clean up.  That
\* it does not return with the lock still held is LocksEndWithCalls, a theorem
\* (VaultCallsProofs).
Finishes ==
    \A p \in Procs : pc[p] \notin {"idle", "wait"} ~> pc[p] \in {"idle", "wait"}

-----------------------------------------------------------------------------
(***************************************************************************)
(* What the error path of rotate_password is expected to mean: a rotation  *)
(* that failed left the password as it was (tests/store.rs).               *)
(***************************************************************************)
FailedRotationKeepsPassword ==
    \A p \in Procs :
        /\ pc[p] = "release"
        /\ job[p].op = "rotate"
        /\ seen[p] # None
        /\ outcome[p] # "Ok"
        => dirs[Dir(p)].manifest = seen[p]

-----------------------------------------------------------------------------
(***************************************************************************)
(* Refinement.  The abstract profile leaves out the profile's name and     *)
(* data key, the abstract holder is the holder of the lock.                *)
(***************************************************************************)
Summary(version) ==
    IF version = None THEN None
    ELSE [id       |-> version.manifest.id,
          password |-> version.manifest.password,
          contents |-> version.state.contents]

ASSUME SummaryAssumption ==
    None \notin [id: Ids, password: Strong, contents: SUBSET Edits]

Abstract == INSTANCE AbstractVault WITH
    Holders    <- Procs,
    Secrets    <- Strong,
    Work       <- Edits,
    LosesPower <- "power" \in Faults,
    profile    <- [d \in Profiles |-> Summary(dirs[d])],
    fallback   <- [d \in Profiles |-> {Summary(v) : v \in images[d]}],
    holder     <- lock

\* The store keeps the promises of AbstractVault: whatever the interleaving,
\* the crashes and the failures, a profile changes only under its lock, by
\* one kind of change at a time.
ImplementsAbstractVault == Abstract!Spec

=============================================================================
