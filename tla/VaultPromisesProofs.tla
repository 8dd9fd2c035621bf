------------------------- MODULE VaultPromisesProofs -------------------------
(***************************************************************************)
(* More theorems about VaultStore: what the promises of a call mean for    *)
(* the calls after it, and that the store implements AbstractVault.        *)
(***************************************************************************)
EXTENDS VaultStoreProofs

USE FoldAssumption, StrongAssumption, NoneAssumption DEF world, call, loose

-----------------------------------------------------------------------------
(***************************************************************************)
(* Passwords.  A rotation that is about to return Ok has left no version   *)
(* under another password than the new one.                                *)
(***************************************************************************)
Rotates(p) ==
    /\ pc[p] = "sync" => dirs[Dir(p)].manifest.password = job[p].fresh
    /\ pc[p] = "release" /\ job[p].op # "run" /\ outcome[p] = "Ok" =>
         \A version \in images[Dir(p)] :
             version # None => version.manifest.password = job[p].fresh

RetiredInv ==
    /\ RetiredStaysRetired
    /\ \A d \in Profiles : dirs[d] = None => retired[d] = {}
    /\ \A p \in Procs : Rotates(p)

\* The actions that touch the versions of a profile touch those of their own.
LEMMA OwnImages ==
    ASSUME TypeInv, NEW p \in Procs, ProcessStep(p)
    PROVE  \/ UNCHANGED images
           \/ /\ pc[p] \in Holding \/ dirs[Dir(p)] = None
              /\ \A d \in Profiles \ {Dir(p)} : images'[d] = images[d]
BY DEF TypeInv, TypeOK, ProcessStep, UnlockedStep, LockedStep, disk, Write,
       Holding, Housed, Rotating, MayPublish, AddUser, Publish, PublishFails,
       BeginRotation, BeginRun, AcquireLock, LockRefused,
       AuthenticationFails, LockedStepFails, Authenticate, ReplaceManifest,
       SyncProfile, Unlock, CreateHome, HomeRefused, Extract, ExtractFails,
       Discard, Spawn, SpawnFails, StartForwarder, ForwarderFails, ForwarderPanics, Edit,
       ChildExits, Seal, ReplaceState, SealFails, Cleanup, CleanupFails,
       Release, Crash

\* So the versions of a locked profile are left alone by the others.
LEMMA ImagesUndisturbed ==
    ASSUME TypeInv, LockInv, NEW p \in Procs, ProcessStep(p),
           NEW q \in Procs \ {p}, pc[q] \in Holding
    PROVE  images'[Dir(q)] = images[Dir(q)]
<1>1. Dir(q) \in Profiles
  BY Caller DEF Holding, Housed, Running, Rotating
<1>2. dirs[Dir(q)] # None
  BY DEF TypeInv, CallsOK, ProfileExists
<1>3. pc[p] \in Holding => Dir(p) # Dir(q)
  BY DEF LockInv
<1> QED BY <1>1, <1>2, <1>3, OwnImages

LEMMA RotatesUndisturbed ==
    ASSUME TypeInv, LockInv, NEW p \in Procs, ProcessStep(p),
           NEW q \in Procs \ {p}, Rotates(q)
    PROVE  Rotates(q)'
<1>1. Undisturbed(q)
  BY OthersUndisturbed
<1>2. pc[q] \in Holding => images'[Dir(q)] = images[Dir(q)]
  BY ImagesUndisturbed
<1> QED BY <1>1, <1>2 DEF Undisturbed, Rotates, Dir, Holding, Rotating

\* The process itself: it comes to "sync" with the new password in place, and
\* to "release" with nothing else left, or with an error, or as a session.
LEMMA RotatesOwn ==
    ASSUME TypeInv, WholeInv, NEW p \in Procs, Rotates(p), ProcessStep(p)
    PROVE  Rotates(p)'
<1> USE DEF TypeInv, TypeOK, process, Goto
<1>1. CASE UnlockedStep(p) \/ AcquireLock(p) \/ Release(p) \/ Crash(p)
  <2>1. pc'[p] \in {"idle", "publish", "lock", "rotate", "unlock"}
    BY <1>1 DEF UnlockedStep, AddUser, Publish, PublishFails, BeginRotation,
         BeginRun, LockRefused, AcquireLock, Release, Crash, Return
  <2> QED BY <2>1 DEF Rotates
<1>2. CASE ReplaceManifest(p)
  <2>1. /\ Dir(p) \in Profiles
        /\ seen[p] \in Manifests
        /\ dirs[Dir(p)] \in Dirs
        /\ job[p].fresh \in Strong
    BY <1>2, Caller DEF CallsOK, Remembers, RightOperation, ProfileExists,
         ReplaceManifest, Holding, Rotating
  <2>2. dirs'[Dir(p)] = [dirs[Dir(p)] EXCEPT
                           !.manifest = Rotated(seen[p], job[p].fresh)]
    BY <1>2, <2>1 DEF ReplaceManifest, Write
  <2>3. dirs'[Dir(p)].manifest.password = job[p].fresh
    BY <2>1, <2>2 DEF Dirs, Manifests, Rotated
  <2>4. pc'[p] = "sync" /\ job' = job
    BY <1>2 DEF ReplaceManifest
  <2> QED BY <2>3, <2>4 DEF Rotates, Dir
<1>3. CASE SyncProfile(p)
  <2>1. Dir(p) \in Profiles
    BY <1>3, Caller DEF SyncProfile
  <2>2. \A version \in images'[Dir(p)] : version = None \/ version = dirs[Dir(p)]
    BY <1>3, <2>1 DEF SyncProfile, SyncedImages
  <2>3. dirs[Dir(p)].manifest.password = job[p].fresh
    BY <1>3 DEF Rotates, SyncProfile
  <2>4. pc'[p] = "release" /\ UNCHANGED <<dirs, job>>
    BY <1>3 DEF SyncProfile
  <2> QED BY <2>2, <2>3, <2>4 DEF Rotates, Dir
<1>4. CASE \/ AuthenticationFails(p) \/ LockedStepFails(p) \/ HomeRefused(p)
           \/ ExtractFails(p) \/ CleanupFails(p) \/ SealFails(p)
           \/ SpawnFails(p) \/ ForwarderFails(p) \/ ForwarderPanics(p)
  <2>1. pc'[p] \notin {"sync", "release"} \/ (pc'[p] = "release" /\ outcome'[p] # "Ok")
    BY <1>4 DEF AuthenticationFails, LockedStepFails, HomeRefused, ExtractFails,
         CleanupFails, SealFails, SpawnFails, ForwarderFails, ForwarderPanics, Fail, FirstError
  <2> QED BY <2>1 DEF Rotates
<1>5. CASE Cleanup(p) \/ Discard(p)
  <2>1. pc'[p] = "release" /\ job'[p].op = "run"
    BY <1>5 DEF Cleanup, Discard, CallsOK, RightOperation, Housed
  <2> QED BY <2>1 DEF Rotates
<1>6. CASE \/ Authenticate(p) \/ Unlock(p) \/ CreateHome(p) \/ Extract(p)
           \/ Spawn(p) \/ StartForwarder(p) \/ Edit(p) \/ ChildExits(p)
           \/ Seal(p) \/ ReplaceState(p)
  <2>1. pc'[p] \notin {"sync", "release"}
    BY <1>6 DEF Authenticate, Unlock, CreateHome, Extract, Spawn,
         StartForwarder, Edit, ChildExits, Seal, ReplaceState, Running
  <2> QED BY <2>1 DEF Rotates
<1> QED BY <1>1, <1>2, <1>3, <1>4, <1>5, <1>6 DEF ProcessStep, LockedStep

\* A version a process writes, and what is retired then.
LEMMA WritesUnretired ==
    ASSUME TypeInv, WholeInv, RetiredInv, NEW p \in Procs,
           Publish(p) \/ ReplaceManifest(p) \/ ReplaceState(p)
    PROVE  /\ \A d \in Profiles : retired'[d] \subseteq retired[d]
           /\ \A d \in Profiles : dirs'[d] = None => dirs[d] = None
           /\ \A d \in Profiles :
                dirs'[d] # None => dirs'[d].manifest.password \notin retired'[d]
<1>0. Dir(p) \in Profiles
  BY Caller DEF Publish, ReplaceManifest, ReplaceState
<1>1. \A d \in Profiles :
        dirs[d] # None => dirs[d].manifest.password \notin retired[d]
  BY DEF WholeInv, Present, RetiredInv, RetiredStaysRetired
<1>2. CASE Publish(p)
  <2>1. /\ dirs' = [dirs EXCEPT ![Dir(p)] = [manifest |-> seen[p], state |-> draft[p]]]
        /\ retired' = retired
        /\ retired[Dir(p)] = {}
    BY <1>0, <1>2 DEF Publish, MayPublish, Write, history, RetiredInv
  <2>2. [manifest |-> seen[p], state |-> draft[p]] # None
    BY <1>2 DEF TypeInv, CallsOK, Remembers, Publish, Dirs
  <2> QED BY <1>0, <1>1, <2>1, <2>2 DEF TypeInv, TypeOK
<1>3. CASE ReplaceManifest(p)
  <2>1. /\ seen[p] \in Manifests
        /\ dirs[Dir(p)] \in Dirs
        /\ job[p].fresh \in Strong
    BY <1>3 DEF TypeInv, CallsOK, Remembers, RightOperation, ProfileExists,
         ReplaceManifest, Holding, Rotating
  <2>2. /\ dirs'[Dir(p)] = [dirs[Dir(p)] EXCEPT
                              !.manifest = Rotated(seen[p], job[p].fresh)]
        /\ \A d \in Profiles \ {Dir(p)} : dirs'[d] = dirs[d]
        /\ retired'[Dir(p)] = retired[Dir(p)] \ {job[p].fresh}
        /\ \A d \in Profiles \ {Dir(p)} : retired'[d] = retired[d]
    BY <1>0, <1>3 DEF TypeInv, TypeOK, ReplaceManifest, Write
  <2>3. dirs'[Dir(p)] \in Dirs /\ dirs'[Dir(p)].manifest.password = job[p].fresh
    BY <2>1, <2>2 DEF Dirs, Manifests, Rotated
  <2> QED BY <1>0, <1>1, <2>1, <2>2, <2>3
<1>4. CASE ReplaceState(p)
  <2>1. dirs[Dir(p)] \in Dirs /\ draft[p] \in Sealed
    BY <1>4 DEF TypeInv, CallsOK, Remembers, ProfileExists, ReplaceState,
         Holding, Housed
  <2>2. /\ dirs'[Dir(p)] = [dirs[Dir(p)] EXCEPT !.state = draft[p]]
        /\ \A d \in Profiles \ {Dir(p)} : dirs'[d] = dirs[d]
        /\ retired' = retired
    BY <1>0, <1>4 DEF TypeInv, TypeOK, ReplaceState, Write, history
  <2>3. dirs'[Dir(p)] \in Dirs /\ dirs'[Dir(p)].manifest = dirs[Dir(p)].manifest
    BY <2>1, <2>2 DEF Dirs
  <2> QED BY <1>0, <1>1, <2>1, <2>2, <2>3
<1> QED BY <1>2, <1>3, <1>4

\* A password is retired when no version is under it any more.
LEMMA ReleaseRetires ==
    ASSUME TypeInv, RetiredInv, NEW p \in Procs, Release(p)
    PROVE  /\ RetiredStaysRetired'
           /\ \A d \in Profiles : dirs'[d] = None => retired'[d] = {}
<1>0. UNCHANGED disk
  BY DEF Release
<1>1. CASE UNCHANGED retired
  BY <1>0, <1>1 DEF RetiredInv, RetiredStaysRetired, disk
<1>2. CASE outcome[p] = "Ok" /\ Acknowledge(p) /\ job[p].op # "run"
  <2>1. Dir(p) \in Profiles /\ dirs[Dir(p)] # None
    BY Caller DEF Release, TypeInv, CallsOK, ProfileExists, Holding
  <2>2. \A version \in images[Dir(p)] :
          version # None => version.manifest.password = job[p].fresh
    BY <1>2 DEF Release, RetiredInv, Rotates
  <2>3. retired' = [retired EXCEPT ![Dir(p)] =
                      (@ \cup {seen[p].password}) \ {job[p].fresh}]
    BY <1>2 DEF Acknowledge
  <2> QED BY <1>0, <2>1, <2>2, <2>3 DEF TypeInv, TypeOK, RetiredInv,
            RetiredStaysRetired, disk
<1> QED BY <1>1, <1>2 DEF Release, Acknowledge

LEMMA RetiredStep ==
    ASSUME TypeInv, LockInv, WholeInv, RetiredInv, Next
    PROVE  RetiredInv'
<1>1. ASSUME NEW p \in Procs, ProcessStep(p) PROVE RetiredInv'
  <2>1. \A q \in Procs : Rotates(q)'
    BY <1>1, RotatesUndisturbed, RotatesOwn DEF RetiredInv
  <2>2. \A d \in Profiles : images'[d] \subseteq images[d] \cup {dirs'[d]}
    BY <1>1, NewImages DEF WholeInv
  <2>3. CASE Publish(p) \/ ReplaceManifest(p) \/ ReplaceState(p)
    <3>1. RetiredStaysRetired'
      BY <2>2, <2>3, WritesUnretired DEF RetiredInv, RetiredStaysRetired
    <3>2. \A d \in Profiles : dirs'[d] = None => retired'[d] = {}
      BY <2>3, WritesUnretired DEF RetiredInv
    <3> QED BY <2>1, <3>1, <3>2 DEF RetiredInv
  <2>4. CASE Release(p)
    BY <2>1, <2>4, ReleaseRetires DEF RetiredInv
  <2>5. CASE UNCHANGED <<dirs, retired>>
    <3>1. RetiredStaysRetired'
      BY <2>2, <2>5 DEF RetiredInv, RetiredStaysRetired, WholeInv, Present
    <3> QED BY <2>1, <2>5, <3>1 DEF RetiredInv
  <2> QED
    BY <1>1, <2>3, <2>4, <2>5 DEF ProcessStep, UnlockedStep, LockedStep, disk,
       history, AddUser, PublishFails, BeginRotation, BeginRun, AcquireLock,
       LockRefused, AuthenticationFails, LockedStepFails, Authenticate,
       SyncProfile, Unlock, CreateHome, HomeRefused, Extract, ExtractFails,
       Discard, Spawn, SpawnFails, StartForwarder, ForwarderFails, ForwarderPanics, Edit,
       ChildExits, Seal, SealFails, Cleanup, CleanupFails, Crash
<1>2. ASSUME NEW path \in Paths, Leftover(path) PROVE RetiredInv'
  <2>1. UNCHANGED <<disk, process, history>>
    BY <1>2 DEF Leftover, OrphanEdits, OrphanExits, Recover
  <2> QED BY <2>1 DEF disk, process, history, RetiredInv, RetiredStaysRetired,
            Rotates, Dir
<1>3. ASSUME PowerLoss PROVE RetiredInv'
  <2>1. \A d \in Profiles : images'[d] = {dirs'[d]} /\ dirs'[d] \in images[d]
    BY <1>3 DEF PowerLoss
  <2>2. \A d \in Profiles : retired'[d] = IF dirs'[d] = None THEN {} ELSE retired[d]
    BY <1>3 DEF PowerLoss
  <2>3. \A p \in Procs : Rotates(p)'
    BY <1>3 DEF PowerLoss, Rotates
  <2> QED BY <2>1, <2>2, <2>3 DEF RetiredInv, RetiredStaysRetired
<1> QED BY <1>1, <1>2, <1>3, NextCases DEF ProcessStep

LEMMA RetiredInvariant == Spec => []RetiredInv
<1>1. Init => RetiredInv
  BY DEF Init, RetiredInv, RetiredStaysRetired, Rotates
<1>2. RetiredInv /\ UNCHANGED vars => RetiredInv'
  BY DEF RetiredInv, RetiredStaysRetired, Rotates, Dir, vars, disk, process, history
<1> QED BY <1>1, <1>2, RetiredStep, TypeInvariant, LockInvariant, WholeInvariant,
          PTL DEF Spec

\* A password rotated away with Ok opens no version of the profile, also none
\* that a power loss brings back: the sync comes before the Ok, and the lock
\* keeps other writers out until then.
THEOREM PasswordsRetired == Spec => []RetiredStaysRetired
BY RetiredInvariant, PTL DEF RetiredInv

-----------------------------------------------------------------------------
(***************************************************************************)
(* Identities.  Profiles never have an identity in common, nor has one     *)
(* that is about to be published any of theirs.                            *)
(***************************************************************************)
IdsOf(d) == {version.manifest.id : version \in images[d] \ {None}}

Unpublished(p) ==
    pc[p] = "publish" =>
        /\ seen[p].id \in drawn /\ draft[p].contents = {}
        /\ \A d \in Profiles : seen[p].id \notin IdsOf(d)
        /\ \A q \in Procs \ {p} : pc[q] = "publish" => seen[q].id # seen[p].id

IdsInv ==
    /\ \A d \in Profiles : IdsOf(d) \subseteq drawn
    /\ \A d, e \in Profiles : d # e => IdsOf(d) \cap IdsOf(e) = {}
    /\ \A p \in Procs : Unpublished(p)

\* A step gives a profile no identity but the one it publishes.
LEMMA NewIds ==
    ASSUME TypeInv, WholeInv, NEW p \in Procs, ProcessStep(p), NEW d \in Profiles,
           NEW id \in IdsOf(d)'
    PROVE  \/ id \in IdsOf(d)
           \/ Publish(p) /\ d = Dir(p) /\ id = seen[p].id
<1> PICK version \in images'[d] \ {None} : id = version.manifest.id
  BY DEF IdsOf
<1>1. CASE version \in images[d]
  BY <1>1 DEF IdsOf
<1>2. CASE version = dirs'[d] /\ dirs[d] # None
  <2>1. version.manifest.id = dirs[d].manifest.id
    BY <1>2, WritesKin DEF Kin
  <2>2. dirs[d] \in images[d] \ {None}
    BY <1>2 DEF WholeInv, Present
  <2> QED BY <2>1, <2>2 DEF IdsOf
<1>3. CASE version = dirs'[d] /\ dirs[d] = None
  <2>1. CASE dirs'[d] = dirs[d]
    BY <1>3, <2>1
  <2>2. CASE Publish(p) /\ d = Dir(p)
    BY <1>3, <2>2 DEF TypeInv, TypeOK, Publish, Write
  <2>3. CASE pc[p] \in Holding
    <3>1. dirs[Dir(p)] # None
      BY <2>3 DEF TypeInv, CallsOK, ProfileExists
    <3>2. dirs'[d] = dirs[d]
      BY <1>3, <3>1, OwnProfile
    <3> QED BY <2>1, <3>2
  <2>4. CASE UnlockedStep(p) \/ AcquireLock(p)
    BY <2>1, <2>2, <2>4, OwnProfile DEF TypeInv, TypeOK, UnlockedStep, disk, AddUser,
       Publish, PublishFails, BeginRotation, BeginRun, LockRefused, AcquireLock,
       Write
  <2>5. CASE Release(p) \/ Crash(p)
    BY <2>1, <2>5 DEF Release, Crash, disk
  <2> QED BY <2>3, <2>4, <2>5, LockedStepFrame DEF ProcessStep
<1> QED BY <1>1, <1>2, <1>3, NewImages DEF WholeInv

\* Who is about to publish has staged its own random value before.
LEMMA Staging ==
    ASSUME TypeInv, NEW p \in Procs, ProcessStep(p)
    PROVE  /\ drawn \subseteq drawn'
           /\ pc'[p] = "publish" =>
                \/ seen'[p].id \in drawn' \ drawn /\ draft'[p].contents = {}
                \/ /\ pc[p] = "publish" /\ ~Publish(p)
                   /\ seen'[p] = seen[p] /\ draft'[p] = draft[p]
BY DEF TypeInv, TypeOK, ProcessStep, UnlockedStep, LockedStep, Goto, Return,
       process, history, AddUser, Call, Publish, PublishFails, BeginRotation,
       BeginRun, AcquireLock, LockRefused, AuthenticationFails,
       LockedStepFails, Authenticate, ReplaceManifest, SyncProfile, Unlock,
       CreateHome, HomeRefused, Extract, ExtractFails, Discard, Spawn,
       SpawnFails, StartForwarder, ForwarderFails, ForwarderPanics, Edit, ChildExits, Seal,
       ReplaceState, SealFails, Cleanup, CleanupFails, Release, Crash, Running

LEMMA IdsStep ==
    ASSUME TypeInv, WholeInv, IdsInv, Next
    PROVE  IdsInv'
<1>1. ASSUME NEW p \in Procs, ProcessStep(p) PROVE IdsInv'
  <2>1. \A d \in Profiles : \A id \in IdsOf(d)' :
          id \in IdsOf(d) \/ (Publish(p) /\ d = Dir(p) /\ id = seen[p].id)
    BY <1>1, NewIds
  <2>2. Publish(p) => pc[p] = "publish" /\ Unpublished(p)
    BY DEF Publish, IdsInv
  <2>3. drawn \subseteq drawn'
    BY <1>1, Staging
  <2>4. \A d \in Profiles : (IdsOf(d) \subseteq drawn)'
    BY <2>1, <2>2, <2>3 DEF IdsInv, Unpublished
  <2>5. \A d, e \in Profiles : d # e => (IdsOf(d) \cap IdsOf(e) = {})'
    BY <2>1, <2>2 DEF IdsInv, Unpublished
  <2>6. \A q \in Procs : pc'[q] = "publish" =>
          \/ q = p /\ seen'[q].id \in drawn' \ drawn /\ draft'[q].contents = {}
          \/ /\ pc[q] = "publish" /\ (q = p => ~Publish(p))
             /\ seen'[q] = seen[q] /\ draft'[q] = draft[q]
    BY <1>1, Staging, OwnVariables
  <2>7. ASSUME NEW q \in Procs, pc'[q] = "publish" PROVE Unpublished(q)'
    <3>1. CASE q = p /\ seen'[q].id \in drawn' \ drawn /\ draft'[q].contents = {}
      <4>1. \A d \in Profiles : seen'[q].id \notin IdsOf(d)'
        BY <2>1, <2>2, <3>1 DEF IdsInv, Unpublished
      <4>2. \A r \in Procs \ {q} : pc'[r] = "publish" => seen'[r].id # seen'[q].id
        BY <2>6, <3>1 DEF IdsInv, Unpublished
      <4> QED BY <3>1, <4>1, <4>2 DEF Unpublished
    <3>2. CASE /\ pc[q] = "publish" /\ (q = p => ~Publish(p))
               /\ seen'[q] = seen[q] /\ draft'[q] = draft[q]
      <4>1. Unpublished(q)
        BY DEF IdsInv
      <4>2. \A d \in Profiles : seen'[q].id \notin IdsOf(d)'
        BY <2>1, <2>2, <3>2, <4>1 DEF Unpublished
      <4>3. \A r \in Procs \ {q} : pc'[r] = "publish" => seen'[r].id # seen'[q].id
        BY <2>6, <3>2, <4>1 DEF Unpublished
      <4> QED BY <2>3, <3>2, <4>1, <4>2, <4>3 DEF Unpublished
    <3> QED BY <2>6, <2>7, <3>1, <3>2
  <2>8. \A q \in Procs : Unpublished(q)'
    BY <2>7 DEF Unpublished
  <2> QED BY <2>4, <2>5, <2>8 DEF IdsInv
<1>2. ASSUME NEW path \in Paths, Leftover(path) PROVE IdsInv'
  <2>1. UNCHANGED <<disk, process, history>>
    BY <1>2 DEF Leftover, OrphanEdits, OrphanExits, Recover
  <2> QED BY <2>1 DEF disk, process, history, IdsInv, IdsOf, Unpublished
<1>3. ASSUME PowerLoss PROVE IdsInv'
  <2>1. \A d \in Profiles : images'[d] \subseteq images[d]
    BY <1>3 DEF PowerLoss
  <2>2. \A d \in Profiles : IdsOf(d)' \subseteq IdsOf(d)
    BY <2>1 DEF IdsOf
  <2>3. drawn' = drawn /\ \A p \in Procs : pc'[p] = "idle"
    BY <1>3 DEF PowerLoss
  <2> QED BY <2>2, <2>3 DEF IdsInv, Unpublished
<1> QED BY <1>1, <1>2, <1>3, NextCases DEF ProcessStep

LEMMA IdsInvariant == Spec => []IdsInv
<1>1. Init => IdsInv
  BY DEF Init, IdsInv, IdsOf, Unpublished
<1>2. IdsInv /\ UNCHANGED vars => IdsInv'
  BY DEF IdsInv, IdsOf, Unpublished, vars, disk, process, history
<1> QED BY <1>1, <1>2, IdsStep, TypeInvariant, WholeInvariant, PTL DEF Spec

-----------------------------------------------------------------------------
(***************************************************************************)
(* Runtime directories.  The directory of a call carries the identity of   *)
(* its profile, and is gone when the call is about to return Ok.           *)
(***************************************************************************)
Named(p) ==
    /\ pc[p] \notin Housed \cup {"release"} => home[p] = None
    /\ pc[p] \in Housed \cup {"release"} /\ home[p] # None =>
         home[p] \in Paths /\ home[p][2] = dirs[Dir(p)].manifest.id

NamedInv == NoPlaintextAfterOk /\ \A p \in Procs : Named(p)

\* Two profiles that exist have two identities.
LEMMA IdsDiffer ==
    ASSUME WholeInv, IdsInv, NEW d \in Profiles, NEW e \in Profiles, d # e,
           dirs[d] # None, dirs[e] # None
    PROVE  dirs[d].manifest.id # dirs[e].manifest.id
<1>1. dirs[d] \in images[d] \ {None} /\ dirs[e] \in images[e] \ {None}
  BY DEF WholeInv, Present
<1> QED BY <1>1 DEF IdsInv, IdsOf

LEMMA NamedUndisturbed ==
    ASSUME NEW q \in Procs, Undisturbed(q), Named(q)
    PROVE  Named(q)'
BY DEF Undisturbed, Named, Dir, Holding

LEMMA NamedOwn ==
    ASSUME TypeInv, WholeInv, NEW p \in Procs, Named(p), ProcessStep(p)
    PROVE  Named(p)'
<1> USE DEF TypeInv, TypeOK, process, Goto, Housed, Running
<1>1. CASE UnlockedStep(p) \/ AcquireLock(p) \/ Release(p) \/ Crash(p)
  <2>1. pc'[p] \in {"idle", "publish", "lock", "rotate", "unlock"} /\ home'[p] = None
    BY <1>1 DEF UnlockedStep, AddUser, Publish, PublishFails, BeginRotation,
         BeginRun, LockRefused, AcquireLock, Release, Crash, Return, Named
  <2> QED BY <2>1 DEF Named
<1>2. CASE CreateHome(p)
  <2>1. /\ seen[p] \in Manifests
        /\ seen[p] = dirs[Dir(p)].manifest
    BY <1>2 DEF CreateHome, CallsOK, Remembers, WholeInv, Fits, Current
  <2>2. home'[p] \in Paths /\ home'[p][2] = seen[p].id
    BY <1>2, <2>1 DEF CreateHome, Paths, Manifests
  <2>3. pc'[p] = "extract" /\ UNCHANGED <<dirs, job>>
    BY <1>2 DEF CreateHome, disk
  <2> QED BY <2>1, <2>2, <2>3 DEF Named, Dir
<1>3. CASE LockedStep(p) /\ ~CreateHome(p)
  <2>1. home' = home /\ job' = job
    BY <1>3, LockedStepFrame DEF LockedStep, Fail, AuthenticationFails, LockedStepFails,
       Authenticate, ReadManifest, ReplaceManifest, SyncProfile, Unlock, HomeRefused,
       Extract, ExtractFails, Discard, Spawn, SpawnFails, StartForwarder,
       ForwarderFails, ForwarderPanics, Edit, ChildExits, Seal, ReplaceState, SealFails, Cleanup,
       CleanupFails
  <2>2. \/ pc[p] \in Housed /\ pc'[p] \in Housed \cup {"release"}
        \/ pc[p] \notin Housed \cup {"release"} /\ pc'[p] \notin Housed
    BY <1>3 DEF LockedStep, AuthenticationFails, LockedStepFails, Rotating,
       Authenticate, ReplaceManifest, SyncProfile, Unlock, HomeRefused,
       Extract, ExtractFails, Discard, Spawn, SpawnFails, StartForwarder,
       ForwarderFails, ForwarderPanics, Edit, ChildExits, Seal, ReplaceState, SealFails, Cleanup,
       CleanupFails
  <2>3. Dir(p) \in Profiles /\ dirs[Dir(p)] # None
    BY <1>3, LockedStepFrame, Caller DEF CallsOK, ProfileExists, Holding, Rotating
  <2>4. dirs'[Dir(p)].manifest.id = dirs[Dir(p)].manifest.id
    BY <1>3, <2>3, WritesKin DEF Kin, ProcessStep
  <2> QED BY <2>1, <2>2, <2>4 DEF Named, Dir
<1> QED BY <1>1, <1>2, <1>3 DEF ProcessStep

\* A directory that is not there is created by CreateHome, or stays away.
LEMMA StaysAway ==
    ASSUME TypeInv, NEW p \in Procs, ProcessStep(p), NEW path \in Paths,
           runtime[path] = None, runtime'[path] # None
    PROVE  pc[p] = "home" /\ path[2] = seen[p].id
<1>1. CASE CreateHome(p)
  BY <1>1 DEF TypeInv, TypeOK, CreateHome, Paths
<1>2. CASE pc[p] \in Housed
  <2>1. home[p] \in Paths /\ home[p] # path
    BY <1>2 DEF TypeInv, HomesOK, HomeExists
  <2> QED BY <1>1, <1>2, <2>1 DEF TypeInv, TypeOK, ProcessStep, UnlockedStep,
       LockedStep, Housed, Running, AddUser, Publish, PublishFails,
       BeginRotation, BeginRun, AcquireLock, LockRefused,
       AuthenticationFails, LockedStepFails, Authenticate, ReplaceManifest,
       SyncProfile, Unlock, HomeRefused, Extract, ExtractFails, Discard, Spawn,
       SpawnFails, StartForwarder, ForwarderFails, ForwarderPanics, Edit, ChildExits, Seal,
       ReplaceState, SealFails, Cleanup, CleanupFails, Release, Crash
<1>3. CASE pc[p] \notin Housed /\ ~CreateHome(p)
  BY <1>3 DEF ProcessStep, UnlockedStep,
       LockedStep, Housed, Running, AddUser, Publish, PublishFails,
       BeginRotation, BeginRun, AcquireLock, LockRefused,
       AuthenticationFails, LockedStepFails, Authenticate, ReplaceManifest,
       SyncProfile, Unlock, HomeRefused, Extract, ExtractFails, Discard, Spawn,
       SpawnFails, StartForwarder, ForwarderFails, ForwarderPanics, Edit, ChildExits, Seal,
       ReplaceState, SealFails, Cleanup, CleanupFails, Release, Crash
<1> QED BY <1>1, <1>2, <1>3

\* The process itself comes to "release" with Ok by removing its directory.
LEMMA RemovesOwn ==
    ASSUME TypeInv, NEW p \in Procs, Named(p), ProcessStep(p),
           pc'[p] = "release", home'[p] # None, outcome'[p] = "Ok"
    PROVE  runtime'[home'[p]] = None
<1> USE DEF TypeInv, TypeOK, process, Goto, Housed, Running
<1>1. CASE UnlockedStep(p) \/ AcquireLock(p) \/ Release(p) \/ Crash(p)
  BY <1>1 DEF UnlockedStep, AddUser, Publish, PublishFails, BeginRotation,
       BeginRun, LockRefused, AcquireLock, Release, Crash, Return
<1>2. CASE Cleanup(p)
  BY <1>2, Owner DEF Cleanup
<1>3. CASE SyncProfile(p)
  BY <1>3 DEF SyncProfile, Named
<1>4. CASE Discard(p)
  BY <1>4 DEF Discard, CallsOK, Failing
<1>5. CASE LockedStep(p) /\ ~(Cleanup(p) \/ SyncProfile(p) \/ Discard(p))
  BY <1>5 DEF LockedStep, AuthenticationFails, LockedStepFails, Fail, FirstError,
       Authenticate, ReplaceManifest, Unlock, CreateHome, HomeRefused,
       Extract, ExtractFails, Spawn, SpawnFails, StartForwarder,
       ForwarderFails, ForwarderPanics, Edit, ChildExits, Seal, ReplaceState, SealFails,
       CleanupFails
<1> QED BY <1>1, <1>2, <1>3, <1>4, <1>5 DEF ProcessStep

LEMMA NamedStep ==
    ASSUME TypeInv, LockInv, WholeInv, IdsInv, NamedInv, Next
    PROVE  NamedInv'
<1>1. ASSUME NEW p \in Procs, ProcessStep(p) PROVE NamedInv'
  <2>1. \A q \in Procs : Named(q)'
    BY <1>1, OthersUndisturbed, NamedUndisturbed, NamedOwn DEF NamedInv
  <2>2. ASSUME NEW q \in Procs \ {p}, pc'[q] = "release", home'[q] # None,
               home'[q] \notin strays', outcome'[q] = "Ok"
        PROVE  runtime'[home'[q]] = None
    <3>1. pc[q] = "release" /\ home'[q] = home[q] /\ home[q] # None /\ outcome[q] = "Ok"
      BY <1>1, <2>2, OthersUndisturbed DEF Undisturbed
    <3>2. /\ home[q] \in Paths
          /\ home[q][2] = dirs[Dir(q)].manifest.id
          /\ runtime[home[q]] = None
      BY <1>1, <2>2, <3>1, StraysStay DEF NamedInv, Named, NoPlaintextAfterOk
    <3>3. CASE pc[p] = "home" /\ home[q][2] = seen[p].id
      <4>1. seen[p] = dirs[Dir(p)].manifest
        BY <3>3 DEF WholeInv, Fits, Current
      <4>2. /\ Dir(p) \in Profiles /\ Dir(q) \in Profiles /\ Dir(p) # Dir(q)
            /\ dirs[Dir(p)] # None /\ dirs[Dir(q)] # None
        BY <3>1, <3>3, Caller DEF LockInv, Holding, TypeInv, CallsOK, ProfileExists
      <4> QED BY <3>2, <3>3, <4>1, <4>2, IdsDiffer
    <3> QED BY <1>1, <3>1, <3>2, <3>3, StaysAway
  <2>3. NoPlaintextAfterOk'
    BY <1>1, <2>2, RemovesOwn DEF NoPlaintextAfterOk, NamedInv
  <2> QED BY <2>1, <2>3 DEF NamedInv
<1>2. ASSUME NEW path \in Paths, Leftover(path) PROVE NamedInv'
  <2>1. UNCHANGED <<disk, strays, process>>
    BY <1>2 DEF Leftover, OrphanEdits, OrphanExits, Recover
  <2>2. \A other \in Paths \ strays : runtime[other] = None => runtime'[other] = None
    BY <1>2 DEF TypeInv, TypeOK, HomesOK, OrphansApart, Leftover, OrphanEdits,
         OrphanExits, Recover
  <2>3. \A q \in Procs : Named(q)'
    BY <2>1 DEF NamedInv, Named, Dir, disk, process
  <2>4. NoPlaintextAfterOk'
    BY <2>1, <2>2 DEF NamedInv, Named, NoPlaintextAfterOk, process
  <2> QED BY <2>3, <2>4 DEF NamedInv
<1>3. ASSUME PowerLoss PROVE NamedInv'
  BY <1>3 DEF PowerLoss, NamedInv, Named, NoPlaintextAfterOk, Housed, Running
<1> QED BY <1>1, <1>2, <1>3, NextCases DEF ProcessStep

LEMMA NamedInvariant == Spec => []NamedInv
<1>1. Init => NamedInv
  BY DEF Init, NamedInv, Named, NoPlaintextAfterOk, Housed, Running
<1>2. NamedInv /\ UNCHANGED vars => NamedInv'
  BY DEF NamedInv, Named, NoPlaintextAfterOk, Dir, vars, disk, process
<1> QED BY <1>1, <1>2, NamedStep, TypeInvariant, LockInvariant, WholeInvariant,
          IdsInvariant, PTL DEF Spec

\* A session that returns Ok has left no plaintext behind: the directory it
\* removed cannot come back before the call returns, since only a session of the
\* same profile would give a directory that name, and a Codex that a panic cut
\* loose, which may make it again, is excepted.
THEOREM NoPlaintextLeft == Spec => []NoPlaintextAfterOk
BY NamedInvariant, PTL DEF NamedInv

\* A process that holds the lock is refused its directory only for what a dead
\* process left, never for a session that still runs.
THEOREM OnlyLeftoversRefuse == Spec => []RefusedOnlyByLeftovers
<1>1. TypeInv /\ LockInv /\ WholeInv /\ IdsInv /\ NamedInv => RefusedOnlyByLeftovers
  <2> SUFFICES ASSUME TypeInv, LockInv, WholeInv, IdsInv, NamedInv,
                      NEW p \in Procs, NEW q \in Procs,
                      p # q, pc[p] = "home", pc[q] \in Housed
               PROVE  home[q][2] # seen[p].id
    BY DEF RefusedOnlyByLeftovers
  <2>1. seen[p] = dirs[Dir(p)].manifest
    BY DEF WholeInv, Fits, Current
  <2>2. home[q][2] = dirs[Dir(q)].manifest.id
    BY DEF NamedInv, Named, TypeInv, HomesOK, HomeExists
  <2>3. /\ Dir(p) \in Profiles /\ Dir(q) \in Profiles /\ Dir(p) # Dir(q)
        /\ dirs[Dir(p)] # None /\ dirs[Dir(q)] # None
    BY Caller DEF LockInv, Holding, TypeInv, CallsOK, ProfileExists, Housed, Running
  <2> QED BY <2>1, <2>2, <2>3, IdsDiffer
<1> QED BY <1>1, TypeInvariant, LockInvariant, WholeInvariant, IdsInvariant,
          NamedInvariant, PTL

-----------------------------------------------------------------------------
(***************************************************************************)
(* Refinement.  Every step that changes a profile or a lock is a step of   *)
(* AbstractVault; every other step is none of its concern.                 *)
(***************************************************************************)
Profile == [d \in Profiles |-> Summary(dirs[d])]
Fallback == [d \in Profiles |-> {Summary(v) : v \in images[d]}]

LEMMA Summaries ==
    ASSUME NEW v \in Dirs
    PROVE  /\ Summary(v) = [id       |-> v.manifest.id,
                            password |-> v.manifest.password,
                            contents |-> v.state.contents]
           /\ Summary(v) \in [id: Ids, password: Strong, contents: SUBSET Edits]
           /\ Summary(v) # None
<1>1. v # None
  OBVIOUS
<1>2. v.manifest.id \in Ids /\ v.manifest.password \in Strong
        /\ v.state.contents \in SUBSET Edits
  BY DEF Dirs, Manifests, Sealed
<1> QED BY <1>1, <1>2, SummaryAssumption DEF Summary

\* A rename into a profile is a change of the abstract profile.
LEMMA Becomes ==
    ASSUME TypeInv, NEW d \in Profiles, NEW version, Write(d, version)
    PROVE  /\ Profile' = [Profile EXCEPT ![d] = Summary(version)]
           /\ Fallback' = [Fallback EXCEPT ![d] =
                 IF "power" \in Faults THEN @ \cup {Summary(version)}
                                       ELSE {Summary(version)}]
<1>1. dirs' = [dirs EXCEPT ![d] = version]
  BY DEF Write
<1>2. images' = [images EXCEPT ![d] =
                   IF "power" \in Faults THEN images[d] \cup {version} ELSE {version}]
  BY DEF Write
<1>3. Profile' = [Profile EXCEPT ![d] = Summary(version)]
  BY <1>1 DEF Profile, TypeInv, TypeOK, Summary
<1>4. Fallback' = [Fallback EXCEPT ![d] =
                     IF "power" \in Faults THEN Fallback[d] \cup {Summary(version)}
                                           ELSE {Summary(version)}]
  <2>1. \A e \in Profiles \ {d} : Fallback'[e] = Fallback[e]
    BY <1>2 DEF Fallback, TypeInv, TypeOK, Summary
  <2>2. Fallback'[d] = IF "power" \in Faults THEN Fallback[d] \cup {Summary(version)}
                                             ELSE {Summary(version)}
    BY <1>2 DEF Fallback, TypeInv, TypeOK, Summary
  <2> QED BY <2>1, <2>2 DEF Fallback
<1> QED BY <1>3, <1>4 DEF Fallback

LEMMA PublishCreates ==
    ASSUME TypeInv, IdsInv, NEW p \in Procs, Publish(p)
    PROVE  Abstract!Create(Dir(p))
<1> DEFINE version == [manifest |-> seen[p], state |-> draft[p]]
           summary == [id |-> seen[p].id, password |-> seen[p].password,
                       contents |-> {}]
<1>1. Dir(p) \in Profiles /\ dirs[Dir(p)] = None
  BY Caller DEF Publish, MayPublish
<1>2. seen[p] \in Manifests /\ draft[p] \in Sealed
  BY DEF Publish, TypeInv, CallsOK, Remembers
<1>3. Unpublished(p) /\ pc[p] = "publish"
  BY DEF IdsInv, Publish
<1>4. /\ version \in Dirs
      /\ version.manifest = seen[p] /\ version.state = draft[p]
  BY <1>2 DEF Dirs
<1>5. Write(Dir(p), version) /\ UNCHANGED lock
  BY DEF Publish
<1>6. draft[p].contents = {}
  BY <1>3 DEF Unpublished
<1> HIDE DEF version
<1>7. Summary(version) = summary
  BY <1>4, <1>6, Summaries
<1>8. /\ Profile' = [Profile EXCEPT ![Dir(p)] = summary]
      /\ Fallback' = [Fallback EXCEPT ![Dir(p)] =
            IF "power" \in Faults THEN @ \cup {summary} ELSE {summary}]
  BY <1>1, <1>5, <1>7, Becomes
<1>9. ASSUME NEW other \in Profiles, NEW w \in Fallback[other], w # None
      PROVE  w.id # seen[p].id
  <2>1. PICK v \in images[other] : w = Summary(v)
    BY <1>9 DEF Fallback
  <2>2. v # None /\ v \in Dirs
    BY <1>9, <2>1 DEF Summary, TypeInv, TypeOK
  <2>3. w.id = v.manifest.id
    BY <2>1, <2>2, Summaries
  <2>4. v.manifest.id \in IdsOf(other)
    BY <2>2 DEF IdsOf
  <2> QED BY <1>3, <2>3, <2>4 DEF Unpublished
<1>10. Profile[Dir(p)] = None
  BY <1>1 DEF Profile, Summary
<1>11. seen[p].id \in Ids /\ seen[p].password \in Strong
  BY <1>2 DEF Manifests
<1>12. \A other \in Profiles : \A w \in Fallback[other] :
         w # None => w.id # seen[p].id
  BY <1>9
<1> QED
  BY <1>5, <1>8, <1>10, <1>11, <1>12
     DEF Abstract!Create, Abstract!Become, Profile, Fallback

LEMMA ReplaceChangesPassword ==
    ASSUME TypeInv, LockInv, WholeInv, NEW p \in Procs, ReplaceManifest(p)
    PROVE  Abstract!ChangePassword(Dir(p))
<1> DEFINE d == Dir(p)
           version == [dirs[d] EXCEPT !.manifest = Rotated(seen[p], job[p].fresh)]
<1>1. /\ d \in Profiles /\ lock[d] = p /\ UNCHANGED lock
      /\ dirs[d] \in Dirs /\ seen[p] \in Manifests
      /\ job[p].fresh \in Strong /\ seen[p] = dirs[d].manifest
  BY Caller DEF ReplaceManifest, TypeInv, CallsOK, Remembers, RightOperation,
     ProfileExists, Holding, Rotating, LockInv, WholeInv, Fits, Current
<1>2. /\ version \in Dirs
      /\ version.manifest.id = dirs[d].manifest.id
      /\ version.manifest.password = job[p].fresh
      /\ version.state = dirs[d].state
  BY <1>1 DEF Dirs, Manifests, Rotated
<1>3. Write(d, version)
  BY DEF ReplaceManifest
<1>4. p # None
  BY NoneAssumption
<1> HIDE DEF d, version
<1>5. Profile[d] = Summary(dirs[d])
  BY <1>1 DEF Profile
<1>6. Summary(version) = [Profile[d] EXCEPT !.password = job[p].fresh]
  BY <1>1, <1>2, <1>5, Summaries
<1>7. /\ Profile' = [Profile EXCEPT ![d] = Summary(version)]
      /\ Fallback' = [Fallback EXCEPT ![d] =
            IF "power" \in Faults THEN @ \cup {Summary(version)}
                                  ELSE {Summary(version)}]
  BY <1>1, <1>3, Becomes
<1>8. Abstract!Become(d, [Profile[d] EXCEPT !.password = job[p].fresh])
  BY <1>6, <1>7 DEF Abstract!Become, Profile, Fallback
<1>9. Abstract!ChangePassword(d)
  BY <1>1, <1>4, <1>8 DEF Abstract!ChangePassword, Abstract!Become, Profile
<1> QED BY <1>9 DEF d

LEMMA ReplaceSaves ==
    ASSUME TypeInv, LockInv, ContentsInv, NEW p \in Procs, ReplaceState(p)
    PROVE  Abstract!Save(Dir(p))
<1> DEFINE d == Dir(p)
           version == [dirs[d] EXCEPT !.state = draft[p]]
<1>1. /\ d \in Profiles /\ lock[d] = p /\ UNCHANGED lock
      /\ dirs[d] \in Dirs /\ draft[p] \in Sealed
      /\ dirs[d].state.contents \subseteq draft[p].contents
  BY Caller DEF ReplaceState, TypeInv, CallsOK, Remembers, ProfileExists,
     Holding, Housed, LockInv, ContentsInv, Progress, Contents
<1>2. /\ version \in Dirs
      /\ version.manifest = dirs[d].manifest
      /\ version.state = draft[p]
  BY <1>1 DEF Dirs
<1>3. Write(d, version)
  BY DEF ReplaceState
<1>4. p # None
  BY NoneAssumption
<1> HIDE DEF d, version
<1>5. Profile[d] = Summary(dirs[d])
  BY <1>1 DEF Profile
<1>6. Summary(version) = [Profile[d] EXCEPT !.contents = draft[p].contents]
  BY <1>1, <1>2, <1>5, Summaries
<1>7. /\ Profile' = [Profile EXCEPT ![d] = Summary(version)]
      /\ Fallback' = [Fallback EXCEPT ![d] =
            IF "power" \in Faults THEN @ \cup {Summary(version)}
                                  ELSE {Summary(version)}]
  BY <1>1, <1>3, Becomes
<1>8. Abstract!Become(d, [Profile[d] EXCEPT !.contents = draft[p].contents])
  BY <1>6, <1>7 DEF Abstract!Become, Profile, Fallback
<1>9. /\ draft[p].contents \in SUBSET Edits
      /\ Profile[d].contents \subseteq draft[p].contents
  BY <1>1, <1>5, Summaries DEF Sealed
<1>10. Abstract!Save(d)
  BY <1>1, <1>4, <1>8, <1>9 DEF Abstract!Save, Abstract!Become, Profile
<1> QED BY <1>10 DEF d

LEMMA SyncConfirms ==
    ASSUME TypeInv, LockInv, NEW p \in Procs, SyncProfile(p)
    PROVE  Abstract!ConfirmPassword(Dir(p))
<1> DEFINE d == Dir(p)
<1>1. /\ d \in Profiles /\ lock[d] = p /\ UNCHANGED <<dirs, lock>>
      /\ images' = [images EXCEPT ![d] = {dirs[d]} \cup (images[d] \cap {None})]
  BY Caller DEF SyncProfile, SyncedImages, LockInv, Holding, Rotating
<1>2. p # None
  BY NoneAssumption
<1> HIDE DEF d
<1>3. \A e \in Profiles \ {d} : Fallback'[e] = Fallback[e]
  BY <1>1 DEF Fallback, TypeInv, TypeOK, Summary
<1>4. None \in images[d] <=> None \in Fallback[d]
  <2>1. \A v \in images[d] : Summary(v) = None <=> v = None
    BY <1>1, Summaries DEF TypeInv, TypeOK, Summary
  <2> QED BY <1>1, <2>1 DEF Fallback
<1>5. Fallback'[d] = {Profile[d]} \cup (Fallback[d] \cap {None})
  <2>1. Fallback'[d] = {Summary(v) : v \in {dirs[d]} \cup (images[d] \cap {None})}
    BY <1>1 DEF Fallback, TypeInv, TypeOK, Summary
  <2>2. Summary(None) = None /\ Profile[d] = Summary(dirs[d])
    BY <1>1 DEF Summary, Profile
  <2> QED BY <1>4, <2>1, <2>2
<1>6. Profile' = Profile
  BY <1>1 DEF Profile, Summary
<1>7. Fallback' = [Fallback EXCEPT ![d] = {Profile[d]} \cup (@ \cap {None})]
  BY <1>1, <1>3, <1>5 DEF Fallback
<1>8. Abstract!ConfirmPassword(d)
  BY <1>1, <1>2, <1>6, <1>7 DEF Abstract!ConfirmPassword, Profile, Fallback
<1> QED BY <1>8 DEF d

\* A process that stops holding a lock closes its profile.
LEMMA UnlockCloses ==
    ASSUME TypeInv, LockInv, NEW p \in Procs, Release(p) \/ Crash(p)
    PROVE  Abstract!Close(Dir(p)) \/ UNCHANGED <<lock, disk>>
<1>1. UNCHANGED disk
  BY DEF Release, Crash
<1>2. Dir(p) \in Profiles
  BY Caller DEF Release, Crash
<1>3. lock' = [d \in Profiles |-> IF lock[d] = p THEN None ELSE lock[d]]
  <2>1. CASE Release(p)
    <3>1. \A d \in Profiles : lock[d] = p <=> d = Dir(p)
      BY <1>2, <2>1 DEF Release, LockInv, Holding
    <3> QED BY <2>1, <3>1 DEF Release, TypeInv, TypeOK
  <2> QED BY <2>1 DEF Crash
<1>4. \A d \in Profiles : lock[d] = p => d = Dir(p)
  BY DEF LockInv
<1>5. CASE lock[Dir(p)] = p
  <2>1. lock' = [lock EXCEPT ![Dir(p)] = None] /\ lock[Dir(p)] # None
    BY <1>2, <1>3, <1>4, <1>5 DEF TypeInv, TypeOK
  <2> QED BY <1>1, <2>1 DEF Abstract!Close, disk, Summary
<1>6. CASE lock[Dir(p)] # p
  BY <1>1, <1>3, <1>4, <1>6 DEF TypeInv, TypeOK
<1> QED BY <1>5, <1>6

LEMMA AcquireOpens ==
    ASSUME TypeInv, NEW p \in Procs, AcquireLock(p)
    PROVE  Abstract!Open(Dir(p), p)
<1>1. Dir(p) \in Profiles /\ dirs[Dir(p)] \in Dirs
  BY Caller DEF AcquireLock, TypeInv, CallsOK, ProfileExists
<1>2. Profile[Dir(p)] # None
  BY <1>1, Summaries DEF Profile
<1> QED BY <1>1, <1>2 DEF AcquireLock, LockFree, Abstract!Open, Profile, disk, Summary

LEMMA PowerLossFallsBack ==
    ASSUME PowerLoss
    PROVE  Abstract!PowerLoss
<1>1. /\ "power" \in Faults
      /\ \A d \in Profiles : dirs'[d] \in images[d] /\ images'[d] = {dirs'[d]}
      /\ lock' = [d \in Profiles |-> None]
  BY DEF PowerLoss
<1>2. ASSUME NEW d \in Profiles
      PROVE  Profile'[d] \in Fallback[d] /\ Fallback'[d] = {Profile'[d]}
  <2>1. Profile'[d] = Summary(dirs'[d]) /\ Fallback[d] = {Summary(v) : v \in images[d]}
    BY DEF Profile, Fallback, Summary
  <2>2. Fallback'[d] = {Summary(v) : v \in images'[d]}
    BY DEF Fallback, Summary
  <2> QED BY <1>1, <2>1, <2>2
<1>3. Profile' \in [Profiles -> UNION {Fallback[d] : d \in Profiles}]
  BY <1>2 DEF Profile
<1>4. Fallback' = [d \in Profiles |-> {Profile'[d]}]
  BY <1>2 DEF Fallback
<1> QED BY <1>1, <1>2, <1>3, <1>4 DEF Abstract!PowerLoss, Profile, Fallback

LEMMA RefinementStep ==
    ASSUME TypeInv, LockInv, WholeInv, ContentsInv, IdsInv, [Next]_vars
    PROVE  [Abstract!Next]_(Abstract!vars)
<1>1. ASSUME UNCHANGED <<lock, disk>> PROVE UNCHANGED Abstract!vars
  BY <1>1 DEF Abstract!vars, disk, Summary
<1>2. ASSUME NEW p \in Procs, ProcessStep(p)
      PROVE  Abstract!Next \/ UNCHANGED <<lock, disk>>
  <2>1. pc[p] # "idle" => Dir(p) \in Profiles
    BY Caller
  <2>2. CASE Publish(p)
    BY <2>1, <2>2, PublishCreates DEF Publish, Abstract!Next
  <2>3. CASE ReplaceManifest(p)
    BY <2>1, <2>3, ReplaceChangesPassword DEF ReplaceManifest, Abstract!Next
  <2>4. CASE ReplaceState(p)
    BY <2>1, <2>4, ReplaceSaves DEF ReplaceState, Abstract!Next
  <2>5. CASE SyncProfile(p)
    <3>1. Abstract!ConfirmPassword(Dir(p))
      BY <2>5, SyncConfirms
    <3>2. Dir(p) \in Profiles
      BY <2>1, <2>5 DEF SyncProfile
    <3> QED BY <3>1, <3>2 DEF Abstract!Next, Abstract!ConfirmPassword
  <2>6. CASE AcquireLock(p)
    BY <2>1, <2>6, AcquireOpens DEF AcquireLock, Abstract!Next
  <2>7. CASE Release(p) \/ Crash(p)
    BY <2>1, <2>7, UnlockCloses DEF Release, Crash, Abstract!Next
  <2>8. CASE /\ UnlockedStep(p) \/ LockedStep(p)
             /\ ~(Publish(p) \/ ReplaceManifest(p) \/ ReplaceState(p) \/ SyncProfile(p))
    BY <2>8 DEF UnlockedStep, LockedStep, disk, AddUser, PublishFails,
       BeginRotation, BeginRun, LockRefused, AuthenticationFails,
       LockedStepFails, Authenticate, Unlock, CreateHome, HomeRefused, Extract,
       ExtractFails, Discard, Spawn, SpawnFails, StartForwarder,
       ForwarderFails, ForwarderPanics, Edit, ChildExits, Seal, SealFails, Cleanup, CleanupFails
  <2> QED BY <1>2, <2>2, <2>3, <2>4, <2>5, <2>6, <2>7, <2>8 DEF ProcessStep
<1>3. ASSUME NEW path \in Paths, Leftover(path) PROVE UNCHANGED <<lock, disk>>
  BY <1>3 DEF Leftover, OrphanEdits, OrphanExits, Recover
<1>4. CASE Next
  BY <1>1, <1>2, <1>3, <1>4, NextCases, PowerLossFallsBack
     DEF ProcessStep, Abstract!Next
<1>5. CASE UNCHANGED vars
  BY <1>1, <1>5 DEF vars
<1> QED BY <1>4, <1>5

\* The store implements AbstractVault: whatever the interleaving, the kills and
\* the failures, a profile changes only in the hands of its holder, in one
\* respect at a time, and falls back only to a version it had.
THEOREM StoreImplements == Spec => ImplementsAbstractVault
<1>1. Init => Abstract!Init
  BY DEF Init, Abstract!Init, Summary
<1>2. TypeInv /\ LockInv /\ WholeInv /\ ContentsInv /\ IdsInv /\ [Next]_vars
        => [Abstract!Next]_(Abstract!vars)
  BY RefinementStep
<1> QED BY <1>1, <1>2, TypeInvariant, LockInvariant, WholeInvariant,
          ContentsInvariant, IdsInvariant, PTL
       DEF Spec, ImplementsAbstractVault, Abstract!Spec

=============================================================================
