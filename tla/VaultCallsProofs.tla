-------------------------- MODULE VaultCallsProofs --------------------------
(***************************************************************************)
(* Theorems about what the calls of VaultStore do to a profile and to the  *)
(* plaintext: who changes what, on whose authority, and what a power loss  *)
(* can still undo.  Their properties are stated here; no run lists them.   *)
(***************************************************************************)
EXTENDS VaultPromisesProofs

USE FoldAssumption, StrongAssumption, NoneAssumption DEF world, call, loose

-----------------------------------------------------------------------------
(***************************************************************************)
(* Plaintext.  A runtime directory is abandoned when it exists and no call *)
(* owns it any more.                                                       *)
(***************************************************************************)
Abandoned(path) == runtime[path] # None /\ ~Owned(path)

AbandonsByFault(path) ==
    \/ path \in strays /\ OrphanEdits(path)
    \/ PowerLoss /\ path[1] \notin VolatileRoots
    \/ \E p \in Procs :
         /\ pc[p] \in Housed /\ home[p] = path
         /\ Crash(p) \/ (pc'[p] = "release" /\ outcome'[p] # "Ok")

AbandonedOnlyByFault ==
    [][\A path \in Paths : ~Abandoned(path) /\ Abandoned(path)' =>
         AbandonsByFault(path)]_vars

\* A new directory belongs to the process that created it.
LEMMA CreatedIsOwned ==
    ASSUME TypeInv, NEW p \in Procs, ProcessStep(p), NEW path \in Paths,
           runtime[path] = None, runtime'[path] # None
    PROVE  Owned(path)'
<1>1. pc[p] = "home"
  BY StaysAway
<1>2. CreateHome(p)
  BY <1>1 DEF ProcessStep, UnlockedStep, LockedStep, Rotating, Housed, Running, AddUser,
       Publish, PublishFails, BeginRotation, BeginRun, AcquireLock, LockRefused,
       AuthenticationFails, LockedStepFails, Authenticate, ReplaceManifest, SyncProfile,
       Unlock, HomeRefused, Extract, ExtractFails, Discard, Spawn, SpawnFails,
       StartForwarder, ForwarderFails, ForwarderPanics, Edit, ChildExits, Seal, ReplaceState,
       SealFails, Cleanup, CleanupFails, Release, Crash
<1>3. PICK root \in Roots :
        /\ runtime' = [runtime EXCEPT ![<<root, seen[p].id>>] = {}]
        /\ home' = [home EXCEPT ![p] = <<root, seen[p].id>>]
  BY <1>2 DEF CreateHome
<1>4. home'[p] = path /\ pc'[p] = "extract"
  BY <1>2, <1>3 DEF TypeInv, TypeOK, CreateHome, Goto
<1> QED BY <1>4 DEF Owned, Housed

\* The owner of a directory lets go of it by removing it, with an error, or by
\* being killed.
LEMMA OwnerLetsGo ==
    ASSUME TypeInv, NEW p \in Procs, ProcessStep(p), pc[p] \in Housed,
           pc'[p] \notin Housed \/ home'[p] # home[p]
    PROVE  \/ Crash(p)
           \/ runtime'[home[p]] = None
           \/ pc'[p] = "release" /\ outcome'[p] # "Ok"
<1> USE DEF TypeInv, TypeOK, process, Goto, Housed, Running
<1>1. CASE Cleanup(p)
  BY <1>1, Owner DEF Cleanup
<1>2. CASE CleanupFails(p)
  BY <1>2 DEF CleanupFails, Fail, FirstError
<1>3. CASE Discard(p)
  BY <1>3 DEF Discard, CallsOK, Failing
<1>4. CASE UnlockedStep(p) \/ AcquireLock(p) \/ Release(p)
  BY <1>4 DEF UnlockedStep, AddUser, Publish, PublishFails, BeginRotation, BeginRun,
       LockRefused, AcquireLock, Release
<1>5. CASE LockedStep(p) /\ ~(Cleanup(p) \/ CleanupFails(p) \/ Discard(p))
  BY <1>5 DEF LockedStep, AuthenticationFails, LockedStepFails, Rotating, Authenticate,
       ReplaceManifest, SyncProfile, Unlock, CreateHome, HomeRefused, Extract,
       ExtractFails, Spawn, SpawnFails, StartForwarder, ForwarderFails, ForwarderPanics, Edit,
       ChildExits, Seal, ReplaceState, SealFails
<1> QED BY <1>1, <1>2, <1>3, <1>4, <1>5 DEF ProcessStep

LEMMA AbandonStep ==
    ASSUME TypeInv, LockInv, Next, NEW path \in Paths,
           ~Abandoned(path), Abandoned(path)'
    PROVE  AbandonsByFault(path)
<1>1. ASSUME NEW p \in Procs, ProcessStep(p) PROVE AbandonsByFault(path)
  <2>1. runtime[path] # None
    BY <1>1, CreatedIsOwned DEF Abandoned
  <2>2. PICK q \in Procs : pc[q] \in Housed /\ home[q] = path
    BY <2>1 DEF Abandoned, Owned
  <2>3. ~(pc'[q] \in Housed /\ home'[q] = path) /\ runtime'[path] # None
    BY DEF Abandoned, Owned
  <2>4. q = p
    BY <1>1, <2>2, <2>3, OthersUndisturbed DEF Undisturbed
  <2> QED BY <1>1, <2>2, <2>3, <2>4, OwnerLetsGo DEF AbandonsByFault
<1>2. ASSUME NEW other \in Paths, Leftover(other) PROVE AbandonsByFault(path)
  <2>1. UNCHANGED <<pc, home>>
    BY <1>2 DEF Leftover, OrphanEdits, OrphanExits, Recover, process
  <2>2. ~Owned(path) /\ runtime[path] = None /\ runtime'[path] # None
    BY <2>1 DEF Abandoned, Owned
  <2>3. path = other /\ OrphanEdits(path)
    BY <1>2, <2>2 DEF TypeInv, TypeOK, Leftover, OrphanEdits, OrphanExits, Recover
  <2>4. path \in strays
    BY <2>2, <2>3 DEF OrphanEdits, TypeInv, HomesOK, OrphansApart
  <2> QED BY <2>3, <2>4 DEF AbandonsByFault
<1>3. ASSUME PowerLoss PROVE AbandonsByFault(path)
  BY <1>3 DEF PowerLoss, Abandoned, AbandonsByFault
<1> QED BY <1>1, <1>2, <1>3, NextCases DEF ProcessStep

\* Plaintext is left behind only where somebody killed codex-vault, where power
\* was lost under a root on disk, by a call that goes on to report an error, or
\* by a Codex that a panic cut loose and that makes its directory again (unlock,
\* close and the TempDir of runner.rs).
THEOREM PlaintextAbandonedByFault == Spec => AbandonedOnlyByFault
<1> DEFINE Excused ==
      \A path \in Paths : ~Abandoned(path) /\ Abandoned(path)' => AbandonsByFault(path)
<1>1. TypeInv /\ LockInv /\ [Next]_vars => [Excused]_vars
  BY AbandonStep
<1>2. [][Excused]_vars => AbandonedOnlyByFault
  BY DEF AbandonedOnlyByFault
<1> HIDE DEF Excused
<1> QED BY <1>1, <1>2, TypeInvariant, LockInvariant, PTL DEF Spec

-----------------------------------------------------------------------------
(***************************************************************************)
(* Authority.  Whoever is about to change a profile, or to use what it     *)
(* read from it, was called with the password the profile still has.       *)
(***************************************************************************)
Authorised(p) ==
    pc[p] \in {"rename", "home"} \cup Housed => seen[p].password = job[p].password

AuthorityInv == \A p \in Procs : Authorised(p)

\* What a rotation and what a session makes of the profile.
RotatedBy(p, d) ==
    [dirs[d] EXCEPT !.manifest = [@ EXCEPT !.password = job[p].fresh]]

SavedBy(sealed, d) ==
    [dirs[d] EXCEPT !.state = [@ EXCEPT !.contents = sealed]]

\* What a session seals: its directory, or what of it was there before a stray
\* wrote there once more.
Sealing(p) ==
    {sealed \in SUBSET runtime[home[p]] :
       home[p] \notin strays => sealed = runtime[home[p]]}

ChangedBy(p, d) ==
    /\ lock[d] = p /\ Dir(p) = d
    /\ job[p].password = dirs[d].manifest.password
    /\ \/ job[p].op = "rotate" /\ dirs'[d] = RotatedBy(p, d)
       \/ /\ job[p].op = "run"
          /\ \E sealed \in Sealing(p) : dirs'[d] = SavedBy(sealed, d)
          /\ home[p][2] = dirs[d].manifest.id /\ home[p] \notin orphans
          /\ \A q \in Procs \ {p} : pc[q] \in Housed => home[q] # home[p]

ChangedOnAuthority ==
    [][\A d \in Profiles : dirs[d] # None /\ dirs'[d] # dirs[d] =>
         PowerLoss \/ \E p \in Procs : ChangedBy(p, d)]_vars

LEMMA AuthorityOwn ==
    ASSUME TypeInv, NEW p \in Procs, Authorised(p), ProcessStep(p)
    PROVE  Authorised(p)'
<1> USE DEF TypeInv, TypeOK, process, Goto, Housed, Running, Authorised
<1>1. CASE UnlockedStep(p) \/ AcquireLock(p) \/ Release(p) \/ Crash(p)
  <2>1. pc'[p] \in {"idle", "publish", "lock", "rotate", "unlock"}
    BY <1>1 DEF UnlockedStep, AddUser, Publish, PublishFails, BeginRotation,
         BeginRun, LockRefused, AcquireLock, Release, Crash, Return
  <2> QED BY <2>1
<1>2. CASE Authenticate(p) \/ Unlock(p)
  <2>1. seen'[p].password = job[p].password /\ job' = job
    BY <1>2 DEF Authenticate, Unlock, ReadManifest, Authenticates
  <2> QED BY <2>1
<1>3. CASE LockedStep(p) /\ ~(Authenticate(p) \/ Unlock(p))
  <2>1. seen' = seen /\ job' = job
    BY <1>3, LockedStepFrame DEF LockedStep, AuthenticationFails, LockedStepFails,
       ReplaceManifest, SyncProfile, CreateHome, HomeRefused, Extract, ExtractFails,
       Discard, Spawn, SpawnFails, StartForwarder, ForwarderFails, ForwarderPanics, Edit,
       ChildExits, Seal, ReplaceState, SealFails, Cleanup, CleanupFails
  <2>2. pc'[p] \in {"rename", "home"} \cup Housed => pc[p] \in {"rename", "home"} \cup Housed
    BY <1>3 DEF LockedStep, AuthenticationFails, LockedStepFails, Rotating,
       ReplaceManifest, SyncProfile, CreateHome, HomeRefused, Extract, ExtractFails,
       Discard, Spawn, SpawnFails, StartForwarder, ForwarderFails, ForwarderPanics, Edit,
       ChildExits, Seal, ReplaceState, SealFails, Cleanup, CleanupFails
  <2> QED BY <2>1, <2>2
<1> QED BY <1>1, <1>2, <1>3 DEF ProcessStep

LEMMA AuthorityStep ==
    ASSUME TypeInv, LockInv, AuthorityInv, Next
    PROVE  AuthorityInv'
<1>1. ASSUME NEW p \in Procs, ProcessStep(p) PROVE AuthorityInv'
  <2>1. \A q \in Procs \ {p} : Authorised(q)'
    BY <1>1, OthersUndisturbed DEF AuthorityInv, Authorised, Undisturbed
  <2> QED BY <1>1, <2>1, AuthorityOwn DEF AuthorityInv
<1>2. ASSUME NEW path \in Paths, Leftover(path) PROVE AuthorityInv'
  BY <1>2 DEF Leftover, OrphanEdits, OrphanExits, Recover, process, AuthorityInv, Authorised
<1>3. ASSUME PowerLoss PROVE AuthorityInv'
  BY <1>3 DEF PowerLoss, AuthorityInv, Authorised, Housed, Running
<1> QED BY <1>1, <1>2, <1>3, NextCases DEF ProcessStep

LEMMA AuthorityInvariant == Spec => []AuthorityInv
<1>1. Init => AuthorityInv
  BY DEF Init, AuthorityInv, Authorised, Housed, Running
<1>2. AuthorityInv /\ UNCHANGED vars => AuthorityInv'
  BY DEF AuthorityInv, Authorised, vars, process
<1> QED BY <1>1, <1>2, AuthorityStep, TypeInvariant, LockInvariant, PTL DEF Spec

\* The two actions that change a profile that exists.
LEMMA Changes ==
    ASSUME TypeInv, NEW p \in Procs, ProcessStep(p), NEW d \in Profiles,
           dirs[d] # None, dirs'[d] # dirs[d]
    PROVE  d = Dir(p) /\ (ReplaceManifest(p) \/ ReplaceState(p))
<1>1. dirs' # dirs
  OBVIOUS
<1>2. Publish(p) \/ ReplaceManifest(p) \/ ReplaceState(p)
  BY <1>1 DEF ProcessStep, UnlockedStep, LockedStep, disk, AddUser,
       PublishFails, BeginRotation, BeginRun, AcquireLock, LockRefused,
       AuthenticationFails, LockedStepFails, Authenticate, SyncProfile, Unlock,
       CreateHome, HomeRefused, Extract, ExtractFails, Discard, Spawn,
       SpawnFails, StartForwarder, ForwarderFails, ForwarderPanics, Edit, ChildExits, Seal,
       SealFails, Cleanup, CleanupFails, Release, Crash
<1>3. d = Dir(p)
  BY OwnProfile
<1>4. ~Publish(p)
  BY <1>3 DEF Publish, MayPublish
<1> QED BY <1>2, <1>3, <1>4

LEMMA RotationChanges ==
    ASSUME TypeInv, LockInv, WholeInv, AuthorityInv, NEW p \in Procs, ReplaceManifest(p)
    PROVE  ChangedBy(p, Dir(p))
<1>1. /\ Dir(p) \in Profiles /\ lock[Dir(p)] = p
      /\ job[p].op = "rotate" /\ seen[p] = dirs[Dir(p)].manifest
      /\ seen[p].password = job[p].password
  BY Caller DEF ReplaceManifest, LockInv, Holding, Rotating, TypeInv, CallsOK,
       RightOperation, WholeInv, Fits, Current, AuthorityInv, Authorised
<1>2. dirs'[Dir(p)] = [dirs[Dir(p)] EXCEPT !.manifest = Rotated(seen[p], job[p].fresh)]
  BY <1>1 DEF TypeInv, TypeOK, ReplaceManifest, Write
<1> QED BY <1>1, <1>2 DEF ChangedBy, RotatedBy, Rotated

LEMMA SessionChanges ==
    ASSUME TypeInv, LockInv, WholeInv, ContentsInv, NamedInv, AuthorityInv,
           NEW p \in Procs, ReplaceState(p)
    PROVE  ChangedBy(p, Dir(p))
<1> DEFINE d == Dir(p)
<1>1. /\ d \in Profiles /\ lock[d] = p /\ pc[p] = "replace" /\ pc[p] \in Housed
      /\ job[p].op = "run" /\ seen[p] = dirs[d].manifest
      /\ seen[p].password = job[p].password
  BY Caller DEF ReplaceState, LockInv, Holding, Housed, TypeInv, CallsOK,
       RightOperation, WholeInv, Fits, Current, AuthorityInv, Authorised
<1>2. dirs[d] \in Dirs /\ draft[p] \in Sealed /\ dirs[d] # None
  BY <1>1 DEF TypeInv, CallsOK, ProfileExists, Remembers, Holding
<1>3. dirs[d].state.key = dirs[d].manifest.key
  BY <1>1, <1>2 DEF WholeInv, Present, WholeProfiles, Whole
<1>4. draft[p].key = dirs[d].state.key /\ draft[p].contents \in Sealing(p)
  BY <1>1, <1>3 DEF WholeInv, Fits, SealsOwnKey, ContentsInv, Progress, Sealing
<1>5. draft[p] = [dirs[d].state EXCEPT !.contents = draft[p].contents]
  BY <1>2, <1>4 DEF Dirs, Sealed
<1>6. dirs'[d] = [dirs[d] EXCEPT !.state = draft[p]]
  BY <1>1 DEF TypeInv, TypeOK, ReplaceState, Write
<1>7. \E sealed \in Sealing(p) : dirs'[d] = SavedBy(sealed, d)
  BY <1>4, <1>5, <1>6 DEF SavedBy
<1>8. /\ home[p][2] = dirs[d].manifest.id /\ home[p] \notin orphans
      /\ \A q \in Procs \ {p} : pc[q] \in Housed => home[q] # home[p]
  BY <1>1, Owner DEF NamedInv, Named, TypeInv, HomesOK, HomeExists, OrphansApart,
     HomesDistinct
<1> HIDE DEF d
<1>9. d = Dir(p)
  BY DEF d
<1> QED BY <1>1, <1>7, <1>8, <1>9 DEF ChangedBy

\* A profile that exists changes in two ways only.  A rotation whose caller gave
\* the password it has now replaces this password and nothing else; a session
\* whose caller gave it replaces the contents and nothing else, by those of the
\* directory that carries the identity of this profile and in which no other
\* Codex works, but for one that a panic cut loose (rotate_password, unlock,
\* close).  What was read under the lock
\* is never stale when it is used.
THEOREM ProfilesChangeOnAuthority == Spec => ChangedOnAuthority
<1> DEFINE Deserved ==
      \A d \in Profiles : dirs[d] # None /\ dirs'[d] # dirs[d] =>
         PowerLoss \/ \E p \in Procs : ChangedBy(p, d)
<1>1. ASSUME TypeInv, LockInv, WholeInv, ContentsInv, NamedInv, AuthorityInv, Next
      PROVE  Deserved
  <2> SUFFICES ASSUME NEW d \in Profiles, dirs[d] # None, dirs'[d] # dirs[d], ~PowerLoss
               PROVE  \E p \in Procs : ChangedBy(p, d)
    OBVIOUS
  <2>1. ASSUME NEW path \in Paths, Leftover(path) PROVE FALSE
    BY <2>1 DEF Leftover, OrphanEdits, OrphanExits, Recover, disk
  <2>2. PICK p \in Procs : ProcessStep(p)
    BY <1>1, <2>1, NextCases DEF ProcessStep
  <2> QED BY <1>1, <2>2, Changes, RotationChanges, SessionChanges
<1>2. TypeInv /\ LockInv /\ WholeInv /\ ContentsInv /\ NamedInv /\ AuthorityInv /\ [Next]_vars
        => [Deserved]_vars
  BY <1>1
<1>3. [][Deserved]_vars => ChangedOnAuthority
  BY DEF ChangedOnAuthority
<1> HIDE DEF Deserved
<1> QED BY <1>2, <1>3, TypeInvariant, LockInvariant, WholeInvariant, ContentsInvariant,
          NamedInvariant, AuthorityInvariant, PTL DEF Spec

-----------------------------------------------------------------------------
(***************************************************************************)
(* Durability.  A rotation that is about to return Ok has left one version *)
(* that a power loss can bring back, or none if the directory of profiles  *)
(* was never synced after the profile was created.                         *)
(***************************************************************************)
Settled(p) ==
    pc[p] = "release" /\ job[p].op # "run" /\ outcome[p] = "Ok" =>
        images[Dir(p)] \subseteq {None, dirs[Dir(p)]}

SettledInv == \A p \in Procs : Settled(p)

RotationMakesDurable ==
    \A p \in Procs : pc[p] = "release" /\ job[p].op # "run" /\ outcome[p] = "Ok" =>
        \A version \in images[Dir(p)] \ {None} :
            /\ version.manifest.password = job[p].fresh
            /\ acked[Dir(p)] \subseteq version.state.contents

\* A rotation comes to its end without an error by the sync.
LEMMA SettlesBySync ==
    ASSUME TypeInv, NEW p \in Procs, ProcessStep(p),
           pc'[p] = "release", job'[p].op # "run", outcome'[p] = "Ok"
    PROVE  SyncProfile(p)
<1> USE DEF TypeInv, TypeOK, process, Goto
<1>1. CASE UnlockedStep(p) \/ AcquireLock(p) \/ Release(p) \/ Crash(p)
  BY <1>1 DEF UnlockedStep, AddUser, Publish, PublishFails, BeginRotation,
       BeginRun, LockRefused, AcquireLock, Release, Crash, Return
<1>2. CASE \/ AuthenticationFails(p) \/ LockedStepFails(p) \/ HomeRefused(p)
           \/ CleanupFails(p)
  BY <1>2 DEF AuthenticationFails, LockedStepFails, HomeRefused, CleanupFails, Fail,
       FirstError
<1>3. CASE Cleanup(p) \/ Discard(p)
  BY <1>3 DEF Cleanup, Discard, CallsOK, RightOperation, Housed
<1>4. CASE \/ Authenticate(p) \/ Unlock(p) \/ CreateHome(p) \/ Extract(p)
           \/ Spawn(p) \/ StartForwarder(p) \/ Edit(p) \/ ChildExits(p)
           \/ Seal(p) \/ ReplaceState(p) \/ ReplaceManifest(p) \/ SealFails(p)
           \/ SpawnFails(p) \/ ForwarderFails(p) \/ ForwarderPanics(p) \/ ExtractFails(p)
  BY <1>4 DEF Authenticate, Unlock, CreateHome, Extract, Spawn, StartForwarder, Edit,
       ChildExits, Seal, ReplaceState, ReplaceManifest, SealFails, SpawnFails,
       ForwarderFails, ForwarderPanics, ExtractFails, Running
<1> QED BY <1>1, <1>2, <1>3, <1>4 DEF ProcessStep, LockedStep

LEMMA SettledStep ==
    ASSUME TypeInv, LockInv, SettledInv, Next
    PROVE  SettledInv'
<1>1. ASSUME NEW p \in Procs, ProcessStep(p) PROVE SettledInv'
  <2>1. ASSUME NEW q \in Procs \ {p} PROVE Settled(q)'
    <3>1. Undisturbed(q)
      BY <1>1, OthersUndisturbed
    <3>2. pc[q] \in Holding => images'[Dir(q)] = images[Dir(q)]
      BY <1>1, ImagesUndisturbed
    <3>3. pc[q] = "release" => Settled(q) /\ pc[q] \in Holding
      BY DEF SettledInv, Holding
    <3>4. Dir(q)' = Dir(q)
      BY <3>1 DEF Undisturbed, Dir
    <3> QED BY <3>1, <3>2, <3>3, <3>4 DEF Settled, Undisturbed
  <2>2. ASSUME SyncProfile(p) PROVE Settled(p)'
    <3>1. Dir(p) \in Profiles
      BY <2>2, Caller DEF SyncProfile
    <3>2. images'[Dir(p)] = SyncedImages(Dir(p)) /\ UNCHANGED <<dirs, job>>
      BY <2>2, <3>1 DEF SyncProfile, TypeInv, TypeOK
    <3> QED BY <3>2 DEF Settled, SyncedImages, Dir
  <2>3. Settled(p)'
    BY <1>1, <2>2, SettlesBySync DEF Settled
  <2> QED BY <2>1, <2>3 DEF SettledInv
<1>2. ASSUME NEW path \in Paths, Leftover(path) PROVE SettledInv'
  BY <1>2 DEF Leftover, OrphanEdits, OrphanExits, Recover, disk, process, SettledInv,
     Settled, Dir
<1>3. ASSUME PowerLoss PROVE SettledInv'
  BY <1>3 DEF PowerLoss, SettledInv, Settled
<1> QED BY <1>1, <1>2, <1>3, NextCases DEF ProcessStep

LEMMA SettledInvariant == Spec => []SettledInv
<1>1. Init => SettledInv
  BY DEF Init, SettledInv, Settled
<1>2. SettledInv /\ UNCHANGED vars => SettledInv'
  BY DEF SettledInv, Settled, Dir, vars, disk, process
<1> QED BY <1>1, <1>2, SettledStep, TypeInvariant, LockInvariant, PTL DEF Spec

\* The sync of a rotation makes durable what sessions saved before it, although
\* they did not sync it themselves: after Ok a power loss takes nothing of it
\* back but the whole profile (replace_private_json, seal_directory).
THEOREM RotationsMakeDurable == Spec => []RotationMakesDurable
<1>1. TypeInv /\ RetiredInv /\ ContentsInv /\ SettledInv => RotationMakesDurable
  <2> SUFFICES ASSUME RetiredInv, ContentsInv, SettledInv, TypeInv,
                      NEW p \in Procs,
                      pc[p] = "release", job[p].op # "run", outcome[p] = "Ok",
                      NEW version \in images[Dir(p)] \ {None}
               PROVE  /\ version.manifest.password = job[p].fresh
                      /\ acked[Dir(p)] \subseteq version.state.contents
    BY DEF RotationMakesDurable
  <2>1. version.manifest.password = job[p].fresh
    BY DEF RetiredInv, Rotates
  <2>2. version = dirs[Dir(p)] /\ Dir(p) \in Profiles
    BY Caller DEF SettledInv, Settled
  <2> QED BY <2>1, <2>2 DEF ContentsInv, NoLostUpdate
<1> QED BY <1>1, TypeInvariant, RetiredInvariant, ContentsInvariant, SettledInvariant, PTL
-----------------------------------------------------------------------------
(***************************************************************************)
(* Locks.                                                                  *)
(***************************************************************************)
LockedByItsCall ==
    \A d \in Profiles : lock[d] # None => pc[lock[d]] \in Holding /\ Dir(lock[d]) = d

\* A profile is never locked by a call that has returned, failed or died, nor
\* for another profile than the call was made for: refused with "already
\* active" means that a call is at work (acquire_lock, and the kernel).
THEOREM LocksEndWithCalls == Spec => []LockedByItsCall
<1>1. LockInv => LockedByItsCall
  BY DEF LockInv, LockedByItsCall
<1> QED BY <1>1, LockInvariant, PTL
=============================================================================
