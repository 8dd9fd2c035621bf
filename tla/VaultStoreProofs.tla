-------------------------- MODULE VaultStoreProofs --------------------------
(***************************************************************************)
(* Theorems about VaultStore for every value of its constants.             *)
(***************************************************************************)
EXTENDS VaultStore, TLAPS

(***************************************************************************)
(* The inductive invariant, in the order in which its parts depend on each *)
(* other.  What the variables of a process hold at each of its steps:      *)
(***************************************************************************)
Called == \A p \in Procs : pc[p] # "idle" => job[p] \in Jobs

ProfileExists ==
    \A p \in Procs : pc[p] \in Holding \cup {"lock"} => dirs[Dir(p)] \in Dirs

Remembers ==
    \A p \in Procs :
        /\ pc[p] \in {"publish", "rename", "sync", "home"} \cup Housed
             => seen[p] \in Manifests
        /\ pc[p] \in {"publish", "replace"} => draft[p] \in Sealed
        /\ pc[p] = "cleanup" /\ outcome[p] \in {"Ok", "Launch"}
             => draft[p] \in Sealed
        /\ pc[p] = "release" /\ outcome[p] = "Ok"
             => IF job[p].op = "run" THEN draft[p] \in Sealed
                                     ELSE seen[p] \in Manifests

\* The operation a process is called for fits the step it is at.
RightOperation ==
    \A p \in Procs :
        /\ pc[p] \in Rotating => job[p].op = "rotate"
        /\ pc[p] \in Housed \cup {"unlock", "home"} => job[p].op = "run"
        /\ pc[p] = "lock" => job[p].op \in {"rotate", "run"}
        /\ pc[p] # "idle" /\ job[p].op = "rotate" => job[p].fresh \in Strong

\* Only a failed extraction is discarded.
Failing == \A p \in Procs : pc[p] = "discard" => outcome[p] # "Ok"

(***************************************************************************)
(* A runtime directory exists while a process owns it, and has one owner.  *)
(***************************************************************************)
HomeExists ==
    \A p \in Procs : pc[p] \in Housed =>
        home[p] \in Paths /\ runtime[home[p]] # None

HomesDistinct ==
    \A p, q \in Procs :
        p # q /\ pc[p] \in Housed /\ pc[q] \in Housed => home[p] # home[q]

\* An abandoned Codex works in a directory that exists and nobody owns.
OrphansApart ==
    \A path \in orphans :
        /\ runtime[path] # None
        /\ \A p \in Procs : pc[p] \in Housed => home[p] # path

CallsOK == Called /\ Failing /\ ProfileExists /\ Remembers /\ RightOperation
HomesOK == HomeExists /\ HomesDistinct /\ OrphansApart
TypeInv == TypeOK /\ CallsOK /\ HomesOK

\* A process holds exactly the lock of its profile.
LockInv ==
    /\ \A p \in Procs : pc[p] \in Holding => lock[Dir(p)] = p
    /\ \A d \in Profiles : lock[d] # None =>
         pc[lock[d]] \in Holding /\ Dir(lock[d]) = d

USE FoldAssumption, StrongAssumption, NoneAssumption DEF world, call, loose

-----------------------------------------------------------------------------
\* What a process that has been called works on.
LEMMA Caller ==
    ASSUME TypeInv, NEW p \in Procs, pc[p] # "idle"
    PROVE  job[p] \in Jobs /\ Dir(p) \in Profiles
BY DEF TypeInv, CallsOK, Called, Dir, Jobs, Names, Profiles

\* What a process that owns a runtime directory can rely on.
LEMMA Owner ==
    ASSUME TypeInv, NEW p \in Procs, pc[p] \in Housed
    PROVE  /\ home[p] \in Paths
           /\ runtime[home[p]] \in SUBSET Edits
           /\ seen[p] \in Manifests
           /\ dirs[Dir(p)] \in Dirs
<1>1. home[p] \in Paths /\ runtime[home[p]] # None
  BY DEF TypeInv, HomesOK, HomeExists
<1>2. runtime[home[p]] \in SUBSET Edits
  BY <1>1 DEF TypeInv, TypeOK
<1>3. seen[p] \in Manifests /\ dirs[Dir(p)] \in Dirs
  BY DEF TypeInv, CallsOK, Remembers, ProfileExists, Holding
<1> QED BY <1>1, <1>2, <1>3

\* Renaming a well-formed version into place.
LEMMA WriteTyped ==
    ASSUME TypeOK, NEW d \in Profiles, NEW version \in Dirs, Write(d, version)
    PROVE  /\ dirs' \in [Profiles -> Dirs \cup {None}]
           /\ images' \in [Profiles -> SUBSET (Dirs \cup {None})]
           /\ dirs'[d] = version
           /\ \A e \in Profiles \ {d} : dirs'[e] = dirs[e]
           /\ \A e \in Profiles : dirs[e] \in Dirs => dirs'[e] \in Dirs
<1>1. dirs' \in [Profiles -> Dirs \cup {None}] /\ dirs'[d] = version
  BY DEF TypeOK, Write
<1>2. images' \in [Profiles -> SUBSET (Dirs \cup {None})]
  <2>1. images[d] \in SUBSET (Dirs \cup {None}) BY DEF TypeOK
  <2>2. (IF "power" \in Faults THEN images[d] \cup {version} ELSE {version})
          \in SUBSET (Dirs \cup {None})
    BY <2>1
  <2> QED BY <2>2 DEF TypeOK, Write
<1>3. \A e \in Profiles \ {d} : dirs'[e] = dirs[e]
  BY DEF TypeOK, Write
<1> QED BY <1>1, <1>2, <1>3

LEMMA TypeStep ==
    ASSUME TypeInv, Next
    PROVE  TypeInv'
<1> USE DEF TypeInv, Running, Housed, Rotating, Holding, Adding, Steps, disk, process, history, Goto
<1>1. ASSUME NEW p \in Procs, AddUser(p) PROVE TypeInv'
  <2>1. TypeOK'
    BY <1>1 DEF TypeOK, CallsOK, HomesOK, ProfileExists, Remembers, RightOperation, HomeExists, Outcomes, Jobs, Manifests, Sealed, Dirs, Dir, AddUser, Call, ValidPassword
  <2>2. CallsOK'
    BY <1>1 DEF TypeOK, CallsOK, Called, Failing, ProfileExists, Remembers, RightOperation, HomesOK, HomeExists, Outcomes, Jobs, Manifests, Sealed, Dirs, Dir, AddUser, Call, ValidPassword
  <2>3. HomesOK'
    BY <1>1 DEF TypeOK, CallsOK, Remembers, HomesOK, HomeExists, HomesDistinct, OrphansApart, Paths, AddUser, Call, ValidPassword
  <2> QED BY <2>1, <2>2, <2>3
<1>2. ASSUME NEW p \in Procs, Publish(p) PROVE TypeInv'
  <2>1. TypeOK'
    <3>1. Dir(p) \in Profiles BY <1>2, Caller DEF Publish
    <3>2. [manifest |-> seen[p], state |-> draft[p]] \in Dirs
      BY <1>2 DEF CallsOK, Remembers, Publish, Dirs
    <3>3. dirs' \in [Profiles -> Dirs \cup {None}]
           /\ images' \in [Profiles -> SUBSET (Dirs \cup {None})]
      BY <1>2, <3>1, <3>2, WriteTyped DEF Publish
    <3> QED BY <1>2, <3>3 DEF TypeOK, Outcomes, Publish, Return
  <2>2. CallsOK'
    BY <1>2 DEF TypeOK, CallsOK, Called, Failing, ProfileExists, Remembers, RightOperation, HomesOK, HomeExists, Outcomes, Jobs, Manifests, Sealed, Dirs, Dir, Publish, MayPublish, Write, Return
  <2>3. HomesOK'
    BY <1>2 DEF TypeOK, CallsOK, Remembers, HomesOK, HomeExists, HomesDistinct, OrphansApart, Paths, Publish, MayPublish, Write, Return
  <2> QED BY <2>1, <2>2, <2>3
<1>3. ASSUME NEW p \in Procs, PublishFails(p) PROVE TypeInv'
  <2>1. TypeOK'
    BY <1>3 DEF TypeOK, CallsOK, HomesOK, ProfileExists, Remembers, RightOperation, HomeExists, Outcomes, Jobs, Manifests, Sealed, Dirs, Dir, PublishFails, Return
  <2>2. CallsOK'
    BY <1>3 DEF TypeOK, CallsOK, Called, Failing, ProfileExists, Remembers, RightOperation, HomesOK, HomeExists, Outcomes, Jobs, Manifests, Sealed, Dirs, Dir, PublishFails, Return
  <2>3. HomesOK'
    BY <1>3 DEF TypeOK, CallsOK, Remembers, HomesOK, HomeExists, HomesDistinct, OrphansApart, Paths, PublishFails, Return
  <2> QED BY <2>1, <2>2, <2>3
<1>4. ASSUME NEW p \in Procs, BeginRotation(p) PROVE TypeInv'
  <2>1. TypeOK'
    BY <1>4 DEF TypeOK, CallsOK, HomesOK, ProfileExists, Remembers, RightOperation, HomeExists, Outcomes, Jobs, Manifests, Sealed, Dirs, Dir, BeginRotation, Call, ValidPassword
  <2>2. CallsOK'
    BY <1>4 DEF TypeOK, CallsOK, Called, Failing, ProfileExists, Remembers, RightOperation, HomesOK, HomeExists, Outcomes, Jobs, Manifests, Sealed, Dirs, Dir, BeginRotation, Call, ValidPassword
  <2>3. HomesOK'
    BY <1>4 DEF TypeOK, CallsOK, Remembers, HomesOK, HomeExists, HomesDistinct, OrphansApart, Paths, BeginRotation, Call, ValidPassword
  <2> QED BY <2>1, <2>2, <2>3
<1>5. ASSUME NEW p \in Procs, BeginRun(p) PROVE TypeInv'
  <2>1. TypeOK'
    BY <1>5 DEF TypeOK, CallsOK, HomesOK, ProfileExists, Remembers, RightOperation, HomeExists, Outcomes, Jobs, Manifests, Sealed, Dirs, Dir, BeginRun, Call
  <2>2. CallsOK'
    BY <1>5 DEF TypeOK, CallsOK, Called, Failing, ProfileExists, Remembers, RightOperation, HomesOK, HomeExists, Outcomes, Jobs, Manifests, Sealed, Dirs, Dir, BeginRun, Call
  <2>3. HomesOK'
    BY <1>5 DEF TypeOK, CallsOK, Remembers, HomesOK, HomeExists, HomesDistinct, OrphansApart, Paths, BeginRun, Call
  <2> QED BY <2>1, <2>2, <2>3
<1>6. ASSUME NEW p \in Procs, AcquireLock(p) PROVE TypeInv'
  <2>1. TypeOK'
    BY <1>6 DEF TypeOK, CallsOK, HomesOK, ProfileExists, Remembers, RightOperation, HomeExists, Outcomes, Jobs, Manifests, Sealed, Dirs, Dir, AcquireLock
  <2>2. CallsOK'
    BY <1>6 DEF TypeOK, CallsOK, Called, Failing, ProfileExists, Remembers, RightOperation, HomesOK, HomeExists, Outcomes, Jobs, Manifests, Sealed, Dirs, Dir, AcquireLock
  <2>3. HomesOK'
    BY <1>6 DEF TypeOK, CallsOK, Remembers, HomesOK, HomeExists, HomesDistinct, OrphansApart, Paths, AcquireLock
  <2> QED BY <2>1, <2>2, <2>3
<1>7. ASSUME NEW p \in Procs, LockRefused(p) PROVE TypeInv'
  <2>1. TypeOK'
    BY <1>7 DEF TypeOK, CallsOK, HomesOK, ProfileExists, Remembers, RightOperation, HomeExists, Outcomes, Jobs, Manifests, Sealed, Dirs, Dir, LockRefused, Return
  <2>2. CallsOK'
    BY <1>7 DEF TypeOK, CallsOK, Called, Failing, ProfileExists, Remembers, RightOperation, HomesOK, HomeExists, Outcomes, Jobs, Manifests, Sealed, Dirs, Dir, LockRefused, Return
  <2>3. HomesOK'
    BY <1>7 DEF TypeOK, CallsOK, Remembers, HomesOK, HomeExists, HomesDistinct, OrphansApart, Paths, LockRefused, Return
  <2> QED BY <2>1, <2>2, <2>3
<1>8. ASSUME NEW p \in Procs, AuthenticationFails(p) PROVE TypeInv'
  <2>1. TypeOK'
    BY <1>8 DEF TypeOK, CallsOK, HomesOK, ProfileExists, Remembers, RightOperation, HomeExists, Outcomes, Jobs, Manifests, Sealed, Dirs, Dir, AuthenticationFails, Fail, FirstError
  <2>2. CallsOK'
    BY <1>8 DEF TypeOK, CallsOK, Called, Failing, ProfileExists, Remembers, RightOperation, HomesOK, HomeExists, Outcomes, Jobs, Manifests, Sealed, Dirs, Dir, AuthenticationFails, Fail, FirstError
  <2>3. HomesOK'
    BY <1>8 DEF TypeOK, CallsOK, Remembers, HomesOK, HomeExists, HomesDistinct, OrphansApart, Paths, AuthenticationFails, Fail, FirstError
  <2> QED BY <2>1, <2>2, <2>3
<1>9. ASSUME NEW p \in Procs, LockedStepFails(p) PROVE TypeInv'
  <2>1. TypeOK'
    BY <1>9 DEF TypeOK, CallsOK, HomesOK, ProfileExists, Remembers, RightOperation, HomeExists, Outcomes, Jobs, Manifests, Sealed, Dirs, Dir, LockedStepFails, Fail, FirstError
  <2>2. CallsOK'
    BY <1>9 DEF TypeOK, CallsOK, Called, Failing, ProfileExists, Remembers, RightOperation, HomesOK, HomeExists, Outcomes, Jobs, Manifests, Sealed, Dirs, Dir, LockedStepFails, Fail, FirstError
  <2>3. HomesOK'
    BY <1>9 DEF TypeOK, CallsOK, Remembers, HomesOK, HomeExists, HomesDistinct, OrphansApart, Paths, LockedStepFails, Fail, FirstError
  <2> QED BY <2>1, <2>2, <2>3
<1>10. ASSUME NEW p \in Procs, Authenticate(p) PROVE TypeInv'
  <2>1. TypeOK'
    BY <1>10 DEF TypeOK, CallsOK, HomesOK, ProfileExists, Remembers, RightOperation, HomeExists, Outcomes, Jobs, Manifests, Sealed, Dirs, Dir, Authenticate, ReadManifest
  <2>2. CallsOK'
    BY <1>10 DEF TypeOK, CallsOK, Called, Failing, ProfileExists, Remembers, RightOperation, HomesOK, HomeExists, Outcomes, Jobs, Manifests, Sealed, Dirs, Dir, Authenticate, ReadManifest
  <2>3. HomesOK'
    BY <1>10 DEF TypeOK, CallsOK, Remembers, HomesOK, HomeExists, HomesDistinct, OrphansApart, Paths, Authenticate, ReadManifest
  <2> QED BY <2>1, <2>2, <2>3
<1>11. ASSUME NEW p \in Procs, ReplaceManifest(p) PROVE TypeInv'
  <2>0. dirs[Dir(p)] \in Dirs /\ seen[p] \in Manifests /\ job[p].fresh \in Strong
    BY <1>11 DEF CallsOK, ProfileExists, Remembers, RightOperation, ReplaceManifest
  <2>1. TypeOK'
    <3>1. Dir(p) \in Profiles /\ job[p] \in Jobs BY <1>11, Caller DEF ReplaceManifest
    <3>2. [dirs[Dir(p)] EXCEPT !.manifest = Rotated(seen[p], job[p].fresh)] \in Dirs
      BY <2>0 DEF Dirs, Manifests, Rotated
    <3>3. dirs' \in [Profiles -> Dirs \cup {None}]
           /\ images' \in [Profiles -> SUBSET (Dirs \cup {None})]
      BY <1>11, <3>1, <3>2, WriteTyped DEF ReplaceManifest
    <3>4. retired' \in [Profiles -> SUBSET Passwords]
      BY <1>11 DEF TypeOK, ReplaceManifest
    <3> QED BY <1>11, <3>3, <3>4 DEF TypeOK, ReplaceManifest
  <2>2. CallsOK'
    <3>1. Dir(p) \in Profiles /\ job[p] \in Jobs BY <1>11, Caller DEF ReplaceManifest
    <3>2. [dirs[Dir(p)] EXCEPT !.manifest = Rotated(seen[p], job[p].fresh)] \in Dirs
      BY <2>0 DEF Dirs, Manifests, Rotated
    <3>3. \A e \in Profiles : dirs[e] \in Dirs => dirs'[e] \in Dirs
      BY <1>11, <3>1, <3>2, WriteTyped DEF ReplaceManifest
    <3>4. Called' /\ Failing' /\ Remembers' /\ RightOperation'
      BY <1>11, <3>1 DEF TypeOK, CallsOK, Called, Failing, Remembers, RightOperation, ReplaceManifest
    <3>5. ProfileExists'
      BY <1>11, <3>3, Caller DEF TypeOK, CallsOK, ProfileExists, Dir, ReplaceManifest
    <3> QED BY <3>4, <3>5 DEF CallsOK
  <2>3. HomesOK'
    BY <1>11 DEF TypeOK, CallsOK, Remembers, HomesOK, HomeExists, HomesDistinct, OrphansApart, Paths, ReplaceManifest, Write, Rotated
  <2> QED BY <2>1, <2>2, <2>3
<1>12. ASSUME NEW p \in Procs, SyncProfile(p) PROVE TypeInv'
  <2>1. TypeOK'
    <3>1. Dir(p) \in Profiles BY <1>12, Caller DEF SyncProfile
    <3>2. SyncedImages(Dir(p)) \in SUBSET (Dirs \cup {None})
      BY <3>1 DEF TypeOK, SyncedImages
    <3>3. images' \in [Profiles -> SUBSET (Dirs \cup {None})]
      BY <1>12, <3>2 DEF TypeOK, SyncProfile
    <3> QED BY <1>12, <3>3 DEF TypeOK, SyncProfile
  <2>2. CallsOK'
    BY <1>12 DEF TypeOK, CallsOK, Called, Failing, ProfileExists, Remembers, RightOperation, HomesOK, HomeExists, Outcomes, Jobs, Manifests, Sealed, Dirs, Dir, SyncProfile, SyncedImages
  <2>3. HomesOK'
    BY <1>12 DEF TypeOK, CallsOK, Remembers, HomesOK, HomeExists, HomesDistinct, OrphansApart, Paths, SyncProfile, SyncedImages
  <2> QED BY <2>1, <2>2, <2>3
<1>13. ASSUME NEW p \in Procs, Unlock(p) PROVE TypeInv'
  <2>1. TypeOK'
    BY <1>13 DEF TypeOK, CallsOK, HomesOK, ProfileExists, Remembers, RightOperation, HomeExists, Outcomes, Jobs, Manifests, Sealed, Dirs, Dir, Unlock, ReadManifest
  <2>2. CallsOK'
    BY <1>13 DEF TypeOK, CallsOK, Called, Failing, ProfileExists, Remembers, RightOperation, HomesOK, HomeExists, Outcomes, Jobs, Manifests, Sealed, Dirs, Dir, Unlock, ReadManifest
  <2>3. HomesOK'
    BY <1>13 DEF TypeOK, CallsOK, Remembers, HomesOK, HomeExists, HomesDistinct, OrphansApart, Paths, Unlock, ReadManifest
  <2> QED BY <2>1, <2>2, <2>3
<1>14. ASSUME NEW p \in Procs, CreateHome(p) PROVE TypeInv'
  <2> PICK root \in Roots :
         /\ runtime[<<root, seen[p].id>>] = None
         /\ runtime' = [runtime EXCEPT ![<<root, seen[p].id>>] = {}]
         /\ home' = [home EXCEPT ![p] = <<root, seen[p].id>>]
    BY <1>14 DEF CreateHome, MayCreateHome
  <2> DEFINE path == <<root, seen[p].id>>
  <2>0. path \in Paths
    <3>1. seen[p] \in Manifests BY <1>14 DEF CallsOK, Remembers, CreateHome
    <3> QED BY <3>1 DEF Paths, Manifests
  <2> HIDE DEF path
  <2>1. TypeOK'
    <3>1. runtime' \in [Paths -> (SUBSET Edits) \cup {None}] /\ home' \in [Procs -> Paths \cup {None}]
      BY <2>0 DEF TypeOK, path
    <3> QED BY <1>14, <3>1 DEF TypeOK, CreateHome
  <2>2. CallsOK'
    BY <1>14 DEF TypeOK, CallsOK, Called, Failing, ProfileExists, Remembers, RightOperation, HomesOK, HomeExists, Outcomes, Jobs, Manifests, Sealed, Dirs, Dir, CreateHome, MayCreateHome
  <2>3. HomesOK'
    <3>1. HomeExists'
      BY <1>14, <2>0 DEF TypeOK, HomesOK, HomeExists, CreateHome, path
    <3>2. HomesDistinct'
      BY <1>14, <2>0 DEF TypeOK, HomesOK, HomeExists, HomesDistinct, CreateHome, path
    <3>3. OrphansApart'
      BY <1>14, <2>0 DEF TypeOK, HomesOK, OrphansApart, CreateHome, path
    <3> QED BY <3>1, <3>2, <3>3 DEF HomesOK
  <2> QED BY <2>1, <2>2, <2>3
<1>15. ASSUME NEW p \in Procs, HomeRefused(p) PROVE TypeInv'
  <2>1. TypeOK'
    BY <1>15 DEF TypeOK, CallsOK, HomesOK, ProfileExists, Remembers, RightOperation, HomeExists, Outcomes, Jobs, Manifests, Sealed, Dirs, Dir, HomeRefused, Fail, FirstError
  <2>2. CallsOK'
    BY <1>15 DEF TypeOK, CallsOK, Called, Failing, ProfileExists, Remembers, RightOperation, HomesOK, HomeExists, Outcomes, Jobs, Manifests, Sealed, Dirs, Dir, HomeRefused, Fail, FirstError
  <2>3. HomesOK'
    BY <1>15 DEF TypeOK, CallsOK, Remembers, HomesOK, HomeExists, HomesDistinct, OrphansApart, Paths, HomeRefused, Fail, FirstError
  <2> QED BY <2>1, <2>2, <2>3
<1>16. ASSUME NEW p \in Procs, Extract(p) PROVE TypeInv'
  <2>0. home[p] \in Paths /\ runtime[home[p]] \in SUBSET Edits
           /\ seen[p] \in Manifests /\ dirs[Dir(p)] \in Dirs
    BY <1>16, Owner DEF Extract
  <2>1. TypeOK'
    BY <1>16 DEF TypeOK, CallsOK, HomesOK, ProfileExists, Remembers, RightOperation, HomeExists, Outcomes, Jobs, Manifests, Sealed, Dirs, Dir, Extract
  <2>2. CallsOK'
    BY <1>16 DEF TypeOK, CallsOK, Called, Failing, ProfileExists, Remembers, RightOperation, HomesOK, HomeExists, Outcomes, Jobs, Manifests, Sealed, Dirs, Dir, Extract
  <2>3. HomesOK'
    <3>0. \A part \in SUBSET dirs[Dir(p)].state.contents :
            runtime[home[p]] \cup part # None
      <4>1. \A part \in SUBSET dirs[Dir(p)].state.contents :
              runtime[home[p]] \cup part \in SUBSET Edits
        BY <2>0 DEF Dirs, Sealed
      <4> QED BY <4>1
    <3>1. \A other \in Paths : runtime[other] # None => runtime'[other] # None
      BY <1>16, <2>0, <3>0 DEF TypeOK, Extract
    <3>2. \A q \in Procs : pc'[q] \in Housed => pc[q] \in Housed /\ home'[q] = home[q]
      BY <1>16 DEF TypeOK, Extract
    <3> QED BY <1>16, <3>1, <3>2 DEF TypeOK, HomesOK, HomeExists, HomesDistinct, OrphansApart, Extract
  <2> QED BY <2>1, <2>2, <2>3
<1>17. ASSUME NEW p \in Procs, ExtractFails(p) PROVE TypeInv'
  <2>0. home[p] \in Paths /\ runtime[home[p]] \in SUBSET Edits
           /\ seen[p] \in Manifests /\ dirs[Dir(p)] \in Dirs
    BY <1>17, Owner DEF ExtractFails
  <2>1. TypeOK'
    BY <1>17 DEF TypeOK, CallsOK, HomesOK, ProfileExists, Remembers, RightOperation, HomeExists, Outcomes, Jobs, Manifests, Sealed, Dirs, Dir, ExtractFails, Fail, FirstError
  <2>2. CallsOK'
    BY <1>17 DEF TypeOK, CallsOK, Called, Failing, ProfileExists, Remembers, RightOperation, HomesOK, HomeExists, Outcomes, Jobs, Manifests, Sealed, Dirs, Dir, ExtractFails, Fail, FirstError
  <2>3. HomesOK'
    <3>0. \A part \in SUBSET dirs[Dir(p)].state.contents :
            runtime[home[p]] \cup part # None
      <4>1. \A part \in SUBSET dirs[Dir(p)].state.contents :
              runtime[home[p]] \cup part \in SUBSET Edits
        BY <2>0 DEF Dirs, Sealed
      <4> QED BY <4>1
    <3>1. \A other \in Paths : runtime[other] # None => runtime'[other] # None
      BY <1>17, <2>0, <3>0 DEF TypeOK, ExtractFails
    <3>2. \A q \in Procs : pc'[q] \in Housed => pc[q] \in Housed /\ home'[q] = home[q]
      BY <1>17 DEF TypeOK, ExtractFails
    <3> QED BY <1>17, <3>1, <3>2 DEF TypeOK, HomesOK, HomeExists, HomesDistinct, OrphansApart, ExtractFails
  <2> QED BY <2>1, <2>2, <2>3
<1>18. ASSUME NEW p \in Procs, Discard(p) PROVE TypeInv'
  <2>0. home[p] \in Paths /\ runtime[home[p]] \in SUBSET Edits
           /\ seen[p] \in Manifests /\ dirs[Dir(p)] \in Dirs
    BY <1>18, Owner DEF Discard
  <2>1. TypeOK'
    <3>1. runtime' \in [Paths -> (SUBSET Edits) \cup {None}]
      BY <1>18, <2>0 DEF TypeOK, Discard
    <3> QED BY <1>18, <3>1 DEF TypeOK, Discard
  <2>2. CallsOK'
    <3>1. outcome[p] # "Ok" BY <1>18 DEF CallsOK, Failing, Discard
    <3> QED BY <1>18, <3>1 DEF TypeOK, CallsOK, Called, Failing, ProfileExists, Remembers, RightOperation, Dir, Discard
  <2>3. HomesOK'
    BY <1>18 DEF TypeOK, CallsOK, Remembers, HomesOK, HomeExists, HomesDistinct, OrphansApart, Paths, Discard
  <2> QED BY <2>1, <2>2, <2>3
<1>19. ASSUME NEW p \in Procs, Spawn(p) PROVE TypeInv'
  <2>1. TypeOK'
    BY <1>19 DEF TypeOK, CallsOK, HomesOK, ProfileExists, Remembers, RightOperation, HomeExists, Outcomes, Jobs, Manifests, Sealed, Dirs, Dir, Spawn
  <2>2. CallsOK'
    BY <1>19 DEF TypeOK, CallsOK, Called, Failing, ProfileExists, Remembers, RightOperation, HomesOK, HomeExists, Outcomes, Jobs, Manifests, Sealed, Dirs, Dir, Spawn
  <2>3. HomesOK'
    BY <1>19 DEF TypeOK, CallsOK, Remembers, HomesOK, HomeExists, HomesDistinct, OrphansApart, Paths, Spawn
  <2> QED BY <2>1, <2>2, <2>3
<1>20. ASSUME NEW p \in Procs, SpawnFails(p) PROVE TypeInv'
  <2>1. TypeOK'
    BY <1>20 DEF TypeOK, CallsOK, HomesOK, ProfileExists, Remembers, RightOperation, HomeExists, Outcomes, Jobs, Manifests, Sealed, Dirs, Dir, SpawnFails, Fail, FirstError
  <2>2. CallsOK'
    BY <1>20 DEF TypeOK, CallsOK, Called, Failing, ProfileExists, Remembers, RightOperation, HomesOK, HomeExists, Outcomes, Jobs, Manifests, Sealed, Dirs, Dir, SpawnFails, Fail, FirstError
  <2>3. HomesOK'
    BY <1>20 DEF TypeOK, CallsOK, Remembers, HomesOK, HomeExists, HomesDistinct, OrphansApart, Paths, SpawnFails, Fail, FirstError
  <2> QED BY <2>1, <2>2, <2>3
<1>21. ASSUME NEW p \in Procs, StartForwarder(p) PROVE TypeInv'
  <2>1. TypeOK'
    BY <1>21 DEF TypeOK, CallsOK, HomesOK, ProfileExists, Remembers, RightOperation, HomeExists, Outcomes, Jobs, Manifests, Sealed, Dirs, Dir, StartForwarder
  <2>2. CallsOK'
    BY <1>21 DEF TypeOK, CallsOK, Called, Failing, ProfileExists, Remembers, RightOperation, HomesOK, HomeExists, Outcomes, Jobs, Manifests, Sealed, Dirs, Dir, StartForwarder
  <2>3. HomesOK'
    BY <1>21 DEF TypeOK, CallsOK, Remembers, HomesOK, HomeExists, HomesDistinct, OrphansApart, Paths, StartForwarder
  <2> QED BY <2>1, <2>2, <2>3
<1>22. ASSUME NEW p \in Procs, ForwarderFails(p) PROVE TypeInv'
  <2>1. TypeOK'
    BY <1>22 DEF TypeOK, CallsOK, HomesOK, ProfileExists, Remembers, RightOperation, HomeExists, Outcomes, Jobs, Manifests, Sealed, Dirs, Dir, ForwarderFails, Fail, FirstError
  <2>2. CallsOK'
    BY <1>22 DEF TypeOK, CallsOK, Called, Failing, ProfileExists, Remembers, RightOperation, HomesOK, HomeExists, Outcomes, Jobs, Manifests, Sealed, Dirs, Dir, ForwarderFails, Fail, FirstError
  <2>3. HomesOK'
    BY <1>22 DEF TypeOK, CallsOK, Remembers, HomesOK, HomeExists, HomesDistinct, OrphansApart, Paths, ForwarderFails, Fail, FirstError
  <2> QED BY <2>1, <2>2, <2>3
<1>23. ASSUME NEW p \in Procs, Edit(p) PROVE TypeInv'
  <2>0. home[p] \in Paths /\ runtime[home[p]] \in SUBSET Edits
           /\ seen[p] \in Manifests /\ dirs[Dir(p)] \in Dirs
    BY <1>23, Owner DEF Edit
  <2>1. TypeOK'
    BY <1>23 DEF TypeOK, CallsOK, HomesOK, ProfileExists, Remembers, RightOperation, HomeExists, Outcomes, Jobs, Manifests, Sealed, Dirs, Dir, Edit
  <2>2. CallsOK'
    BY <1>23 DEF TypeOK, CallsOK, Called, Failing, ProfileExists, Remembers, RightOperation, HomesOK, HomeExists, Outcomes, Jobs, Manifests, Sealed, Dirs, Dir, Edit
  <2>3. HomesOK'
    <3>1. \A other \in Paths : runtime[other] # None => runtime'[other] # None
      BY <1>23, <2>0 DEF TypeOK, Edit
    <3>2. \A q \in Procs : pc'[q] \in Housed => pc[q] \in Housed /\ home'[q] = home[q]
      BY <1>23 DEF TypeOK, Edit
    <3> QED BY <1>23, <3>1, <3>2 DEF TypeOK, HomesOK, HomeExists, HomesDistinct, OrphansApart, Edit
  <2> QED BY <2>1, <2>2, <2>3
<1>24. ASSUME NEW p \in Procs, ChildExits(p) PROVE TypeInv'
  <2>1. TypeOK'
    BY <1>24 DEF TypeOK, CallsOK, HomesOK, ProfileExists, Remembers, RightOperation, HomeExists, Outcomes, Jobs, Manifests, Sealed, Dirs, Dir, ChildExits, Fail, FirstError
  <2>2. CallsOK'
    BY <1>24 DEF TypeOK, CallsOK, Called, Failing, ProfileExists, Remembers, RightOperation, HomesOK, HomeExists, Outcomes, Jobs, Manifests, Sealed, Dirs, Dir, ChildExits, Fail, FirstError
  <2>3. HomesOK'
    BY <1>24 DEF TypeOK, CallsOK, Remembers, HomesOK, HomeExists, HomesDistinct, OrphansApart, Paths, ChildExits, Fail, FirstError
  <2> QED BY <2>1, <2>2, <2>3
<1>25. ASSUME NEW p \in Procs, Seal(p) PROVE TypeInv'
  <2>0. home[p] \in Paths /\ runtime[home[p]] \in SUBSET Edits
           /\ seen[p] \in Manifests /\ dirs[Dir(p)] \in Dirs
    BY <1>25, Owner DEF Seal
  <2>1. TypeOK'
    <3>1. [key |-> seen[p].key, contents |-> runtime[home[p]]] \in Sealed
      BY <2>0 DEF Manifests, Sealed
    <3>2. draft' \in [Procs -> Sealed \cup {None}] /\ draft'[p] \in Sealed
      BY <1>25, <3>1 DEF TypeOK, Seal
    <3> QED BY <1>25, <3>2 DEF TypeOK, Seal
  <2>2. CallsOK'
    <3>1. [key |-> seen[p].key, contents |-> runtime[home[p]]] \in Sealed
      BY <2>0 DEF Manifests, Sealed
    <3>2. draft' \in [Procs -> Sealed \cup {None}] /\ draft'[p] \in Sealed
      BY <1>25, <3>1 DEF TypeOK, Seal
    <3> QED BY <1>25, <3>2 DEF TypeOK, CallsOK, Called, Failing, ProfileExists, Remembers, RightOperation, Dir, Seal
  <2>3. HomesOK'
    BY <1>25 DEF TypeOK, CallsOK, Remembers, HomesOK, HomeExists, HomesDistinct, OrphansApart, Paths, Seal
  <2> QED BY <2>1, <2>2, <2>3
<1>26. ASSUME NEW p \in Procs, ReplaceState(p) PROVE TypeInv'
  <2>0. home[p] \in Paths /\ runtime[home[p]] \in SUBSET Edits
           /\ seen[p] \in Manifests /\ dirs[Dir(p)] \in Dirs
    BY <1>26, Owner DEF ReplaceState
  <2>1. TypeOK'
    <3>1. Dir(p) \in Profiles /\ draft[p] \in Sealed
      BY <1>26, Caller DEF CallsOK, Remembers, ReplaceState
    <3>2. [dirs[Dir(p)] EXCEPT !.state = draft[p]] \in Dirs
      BY <2>0, <3>1 DEF Dirs
    <3>3. dirs' \in [Profiles -> Dirs \cup {None}]
           /\ images' \in [Profiles -> SUBSET (Dirs \cup {None})]
      BY <1>26, <3>1, <3>2, WriteTyped DEF ReplaceState
    <3> QED BY <1>26, <3>3 DEF TypeOK, ReplaceState
  <2>2. CallsOK'
    <3>1. Dir(p) \in Profiles /\ draft[p] \in Sealed
      BY <1>26, Caller DEF CallsOK, Remembers, ReplaceState
    <3>2. [dirs[Dir(p)] EXCEPT !.state = draft[p]] \in Dirs
      BY <2>0, <3>1 DEF Dirs
    <3>3. \A e \in Profiles : dirs[e] \in Dirs => dirs'[e] \in Dirs
      BY <1>26, <3>1, <3>2, WriteTyped DEF ReplaceState
    <3>4. Called' /\ Failing' /\ Remembers' /\ RightOperation'
      BY <1>26, <3>1 DEF TypeOK, CallsOK, Called, Failing, Remembers, RightOperation, ReplaceState
    <3>5. ProfileExists'
      BY <1>26, <3>3, Caller DEF TypeOK, CallsOK, ProfileExists, Dir, ReplaceState
    <3> QED BY <3>4, <3>5 DEF CallsOK
  <2>3. HomesOK'
    BY <1>26 DEF TypeOK, CallsOK, Remembers, HomesOK, HomeExists, HomesDistinct, OrphansApart, Paths, ReplaceState, Write
  <2> QED BY <2>1, <2>2, <2>3
<1>27. ASSUME NEW p \in Procs, SealFails(p) PROVE TypeInv'
  <2>1. TypeOK'
    BY <1>27 DEF TypeOK, CallsOK, HomesOK, ProfileExists, Remembers, RightOperation, HomeExists, Outcomes, Jobs, Manifests, Sealed, Dirs, Dir, SealFails, Fail, FirstError
  <2>2. CallsOK'
    BY <1>27 DEF TypeOK, CallsOK, Called, Failing, ProfileExists, Remembers, RightOperation, HomesOK, HomeExists, Outcomes, Jobs, Manifests, Sealed, Dirs, Dir, SealFails, Fail, FirstError
  <2>3. HomesOK'
    BY <1>27 DEF TypeOK, CallsOK, Remembers, HomesOK, HomeExists, HomesDistinct, OrphansApart, Paths, SealFails, Fail, FirstError
  <2> QED BY <2>1, <2>2, <2>3
<1>28. ASSUME NEW p \in Procs, Cleanup(p) PROVE TypeInv'
  <2>0. home[p] \in Paths /\ runtime[home[p]] \in SUBSET Edits
           /\ seen[p] \in Manifests /\ dirs[Dir(p)] \in Dirs
    BY <1>28, Owner DEF Cleanup
  <2>1. TypeOK'
    <3>1. runtime' \in [Paths -> (SUBSET Edits) \cup {None}]
      BY <1>28, <2>0 DEF TypeOK, Cleanup
    <3> QED BY <1>28, <3>1 DEF TypeOK, Cleanup
  <2>2. CallsOK'
    BY <1>28 DEF TypeOK, CallsOK, Called, Failing, ProfileExists, Remembers, RightOperation, HomesOK, HomeExists, Outcomes, Jobs, Manifests, Sealed, Dirs, Dir, Cleanup
  <2>3. HomesOK'
    BY <1>28 DEF TypeOK, CallsOK, Remembers, HomesOK, HomeExists, HomesDistinct, OrphansApart, Paths, Cleanup
  <2> QED BY <2>1, <2>2, <2>3
<1>29. ASSUME NEW p \in Procs, CleanupFails(p) PROVE TypeInv'
  <2>1. TypeOK'
    BY <1>29 DEF TypeOK, CallsOK, HomesOK, ProfileExists, Remembers, RightOperation, HomeExists, Outcomes, Jobs, Manifests, Sealed, Dirs, Dir, CleanupFails, Fail, FirstError
  <2>2. CallsOK'
    BY <1>29 DEF TypeOK, CallsOK, Called, Failing, ProfileExists, Remembers, RightOperation, HomesOK, HomeExists, Outcomes, Jobs, Manifests, Sealed, Dirs, Dir, CleanupFails, Fail, FirstError
  <2>3. HomesOK'
    BY <1>29 DEF TypeOK, CallsOK, Remembers, HomesOK, HomeExists, HomesDistinct, OrphansApart, Paths, CleanupFails, Fail, FirstError
  <2> QED BY <2>1, <2>2, <2>3
<1>30. ASSUME NEW p \in Procs, Release(p) PROVE TypeInv'
  <2>1. TypeOK'
    <3>1. Dir(p) \in Profiles /\ job[p] \in Jobs BY <1>30, Caller DEF Release
    <3>2. CASE outcome[p] = "Ok" /\ Acknowledge(p)
      <4>1. IF job[p].op = "run" THEN draft[p] \in Sealed ELSE seen[p] \in Manifests
        BY <1>30, <3>2 DEF CallsOK, Remembers, Release
      <4>2. acked' \in [Profiles -> SUBSET Edits]
        BY <3>1, <3>2, <4>1 DEF TypeOK, Acknowledge, Sealed
      <4>3. retired' \in [Profiles -> SUBSET Passwords]
        BY <3>1, <3>2, <4>1 DEF TypeOK, Acknowledge, Manifests, Jobs
      <4> QED BY <1>30, <3>1, <4>2, <4>3 DEF TypeOK, Release, Return, Outcomes
    <3>3. CASE UNCHANGED <<acked, retired>>
      BY <1>30, <3>1, <3>3 DEF TypeOK, Release, Return, Outcomes
    <3> QED BY <1>30, <3>2, <3>3 DEF Release
  <2>2. CallsOK'
    <3>1. /\ pc'[p] = "idle" /\ UNCHANGED dirs
          /\ \A q \in Procs \ {p} : /\ pc'[q] = pc[q] /\ job'[q] = job[q]
                                   /\ seen'[q] = seen[q] /\ draft'[q] = draft[q]
                                   /\ outcome'[q] = outcome[q]
      BY <1>30 DEF TypeOK, Release, Return
    <3> QED BY <3>1 DEF CallsOK, Called, Failing, ProfileExists, Remembers, RightOperation, Dir
  <2>3. HomesOK'
    BY <1>30 DEF TypeOK, CallsOK, Remembers, HomesOK, HomeExists, HomesDistinct, OrphansApart, Paths, Release, Acknowledge, Return
  <2> QED BY <2>1, <2>2, <2>3
<1>31. ASSUME NEW p \in Procs, Crash(p) PROVE TypeInv'
  <2>0. pc[p] \in Housed =>
          \E left \in SUBSET Edits : runtime' = [runtime EXCEPT ![home[p]] = left]
    <3> SUFFICES ASSUME pc[p] \in Housed
                 PROVE  \E left \in SUBSET Edits :
                          runtime' = [runtime EXCEPT ![home[p]] = left]
      OBVIOUS
    <3>1. runtime[home[p]] \in SUBSET Edits /\ dirs[Dir(p)].state.contents \in SUBSET Edits
      BY Owner DEF Dirs, Sealed
    <3>2. Leftovers(p) \subseteq SUBSET Edits
      BY <3>1 DEF Leftovers
    <3> QED BY <1>31, <3>2 DEF Crash
  <2>1. TypeOK'
    BY <1>31, <2>0 DEF TypeOK, CallsOK, HomesOK, ProfileExists, Remembers, RightOperation, HomeExists, Outcomes, Jobs, Manifests, Sealed, Dirs, Dir, Crash, Return
  <2>2. CallsOK'
    BY <1>31, <2>0 DEF TypeOK, CallsOK, Called, Failing, ProfileExists, Remembers, RightOperation, HomesOK, HomeExists, Outcomes, Jobs, Manifests, Sealed, Dirs, Dir, Crash, Return
  <2>3. HomesOK'
    BY <1>31, <2>0 DEF TypeOK, CallsOK, Remembers, HomesOK, HomeExists, HomesDistinct, OrphansApart, Paths, Crash, Return
  <2> QED BY <2>1, <2>2, <2>3
<1>32. ASSUME NEW path \in Paths, OrphanEdits(path) PROVE TypeInv'
  <2>0. /\ runtime' \in [Paths -> (SUBSET Edits) \cup {None}]
        /\ runtime'[path] # None
        /\ \A other \in Paths \ {path} : runtime'[other] = runtime[other]
    <3>1. Found(path) \in SUBSET Edits
      BY DEF TypeOK, Found
    <3>2. PICK edit \in Edits : runtime' = [runtime EXCEPT ![path] = Found(path) \cup {edit}]
      BY <1>32 DEF OrphanEdits
    <3>3. Found(path) \cup {edit} \in SUBSET Edits
      BY <3>1
    <3> QED BY <3>2, <3>3 DEF TypeOK
  <2>1. TypeOK'
    BY <1>32, <2>0 DEF TypeOK, OrphanEdits
  <2>2. CallsOK'
    BY <1>32 DEF TypeOK, CallsOK, Called, Failing, ProfileExists, Remembers, RightOperation, HomesOK, HomeExists, Outcomes, Jobs, Manifests, Sealed, Dirs, Dir, OrphanEdits
  <2>3. HomesOK'
    BY <1>32, <2>0 DEF TypeOK, CallsOK, HomesOK, HomeExists, HomesDistinct, OrphansApart, OrphanEdits
  <2> QED BY <2>1, <2>2, <2>3
<1>33. ASSUME NEW path \in Paths, OrphanExits(path) PROVE TypeInv'
  <2>1. TypeOK'
    BY <1>33 DEF TypeOK, CallsOK, HomesOK, ProfileExists, Remembers, RightOperation, HomeExists, Outcomes, Jobs, Manifests, Sealed, Dirs, Dir, OrphanExits
  <2>2. CallsOK'
    BY <1>33 DEF TypeOK, CallsOK, Called, Failing, ProfileExists, Remembers, RightOperation, HomesOK, HomeExists, Outcomes, Jobs, Manifests, Sealed, Dirs, Dir, OrphanExits
  <2>3. HomesOK'
    BY <1>33 DEF TypeOK, CallsOK, Remembers, HomesOK, HomeExists, HomesDistinct, OrphansApart, Paths, OrphanExits
  <2> QED BY <2>1, <2>2, <2>3
<1>34. ASSUME NEW path \in Paths, Recover(path) PROVE TypeInv'
  <2>1. TypeOK'
    BY <1>34 DEF TypeOK, CallsOK, HomesOK, ProfileExists, Remembers, RightOperation, HomeExists, Outcomes, Jobs, Manifests, Sealed, Dirs, Dir, Recover
  <2>2. CallsOK'
    BY <1>34 DEF TypeOK, CallsOK, Called, Failing, ProfileExists, Remembers, RightOperation, HomesOK, HomeExists, Outcomes, Jobs, Manifests, Sealed, Dirs, Dir, Recover
  <2>3. HomesOK'
    BY <1>34 DEF TypeOK, CallsOK, Remembers, HomesOK, HomeExists, HomesDistinct, OrphansApart, Paths, Recover
  <2> QED BY <2>1, <2>2, <2>3
<1>35. ASSUME PowerLoss PROVE TypeInv'
  <2>1. TypeOK'
    BY <1>35 DEF TypeOK, CallsOK, HomesOK, ProfileExists, Remembers, RightOperation, HomeExists, Outcomes, Jobs, Manifests, Sealed, Dirs, Dir, PowerLoss
  <2>2. CallsOK'
    BY <1>35 DEF TypeOK, CallsOK, Called, Failing, ProfileExists, Remembers, RightOperation, HomesOK, HomeExists, Outcomes, Jobs, Manifests, Sealed, Dirs, Dir, PowerLoss
  <2>3. HomesOK'
    BY <1>35 DEF TypeOK, CallsOK, Remembers, HomesOK, HomeExists, HomesDistinct, OrphansApart, Paths, PowerLoss
  <2> QED BY <2>1, <2>2, <2>3
<1>36. ASSUME NEW p \in Procs, ForwarderPanics(p) PROVE TypeInv'
  <2>1. TypeOK'
    BY <1>36 DEF TypeOK, CallsOK, HomesOK, ProfileExists, Remembers, RightOperation, HomeExists, Outcomes, Jobs, Manifests, Sealed, Dirs, Dir, ForwarderPanics, Fail, FirstError
  <2>2. CallsOK'
    BY <1>36 DEF TypeOK, CallsOK, Called, Failing, ProfileExists, Remembers, RightOperation, HomesOK, HomeExists, Outcomes, Jobs, Manifests, Sealed, Dirs, Dir, ForwarderPanics, Fail, FirstError
  <2>3. HomesOK'
    BY <1>36 DEF TypeOK, CallsOK, Remembers, HomesOK, HomeExists, HomesDistinct, OrphansApart, Paths, ForwarderPanics, Fail, FirstError
  <2> QED BY <2>1, <2>2, <2>3
<1> QED BY <1>1, <1>2, <1>3, <1>4, <1>5, <1>6, <1>7, <1>8, <1>9, <1>10, <1>11, <1>12, <1>13, <1>14, <1>15, <1>16, <1>17, <1>18, <1>19, <1>20, <1>21, <1>22, <1>23, <1>24, <1>25, <1>26, <1>27, <1>28, <1>29, <1>30, <1>31, <1>32, <1>33, <1>34, <1>35, <1>36 DEF Next, Request, Step, Codex, Leftover

LEMMA TypeInit == Init => TypeInv
<1> SUFFICES ASSUME Init PROVE TypeInv
  OBVIOUS
<1>1. TypeOK
  BY DEF Init, TypeOK, Steps, Outcomes
<1>2. CallsOK
  BY DEF Init, CallsOK, Called, Failing, ProfileExists, Remembers, RightOperation,
         Holding, Housed, Running, Rotating
<1>3. HomesOK
  BY DEF Init, HomesOK, HomeExists, HomesDistinct, OrphansApart, Housed, Running
<1> QED BY <1>1, <1>2, <1>3 DEF TypeInv

\* A property of states is preserved by a step that changes nothing.
LEMMA TypeStutter == TypeInv /\ UNCHANGED vars => TypeInv'
BY DEF TypeInv, TypeOK, CallsOK, Called, Failing, ProfileExists, Remembers,
       RightOperation, HomesOK, HomeExists, HomesDistinct, OrphansApart, Dir,
       vars, disk, process, history

LEMMA TypeInvariant == Spec => []TypeInv
BY TypeInit, TypeStep, TypeStutter, PTL DEF Spec

\* Every variable keeps its type: in particular a process never reads a
\* manifest, a runtime directory or a draft that is not there.
THEOREM TypeCorrect == Spec => []TypeOK
BY TypeInvariant, PTL DEF TypeInv

\* Sessions never share a CODEX_HOME, and none runs in that of a Codex whose
\* codex-vault was killed.  What a panic of SignalForwarder::start cuts loose is
\* excepted: nothing keeps a later session out of the path of a stray.
THEOREM CodexHomesApart == Spec => []OneCodexPerHome
<1>1. TypeInv => OneCodexPerHome
  BY DEF TypeInv, HomesOK, HomesDistinct, OrphansApart, OneCodexPerHome, Housed
<1> QED BY <1>1, TypeInvariant, PTL

-----------------------------------------------------------------------------
(***************************************************************************)
(* The lock.                                                               *)
(***************************************************************************)
\* The actions of a process that holds the lock and keeps it.
LockedStep(p) ==
    \/ AuthenticationFails(p) \/ LockedStepFails(p)
    \/ Authenticate(p) \/ ReplaceManifest(p) \/ SyncProfile(p)
    \/ Unlock(p) \/ CreateHome(p) \/ HomeRefused(p)
    \/ Extract(p) \/ ExtractFails(p) \/ Discard(p)
    \/ Spawn(p) \/ SpawnFails(p) \/ StartForwarder(p) \/ ForwarderFails(p)
    \/ ForwarderPanics(p)
    \/ Edit(p) \/ ChildExits(p)
    \/ Seal(p) \/ ReplaceState(p) \/ SealFails(p)
    \/ Cleanup(p) \/ CleanupFails(p)

\* The actions of a process that does not hold it afterwards or before.
UnlockedStep(p) ==
    \/ AddUser(p) \/ Publish(p) \/ PublishFails(p)
    \/ BeginRotation(p) \/ BeginRun(p) \/ LockRefused(p)

LEMMA NextCases ==
    ASSUME Next
    PROVE  \/ \E p \in Procs : \/ UnlockedStep(p) \/ AcquireLock(p)
                               \/ LockedStep(p) \/ Release(p) \/ Crash(p)
           \/ \E path \in Paths : Leftover(path)
           \/ PowerLoss
BY DEF Next, Request, Step, Codex, UnlockedStep, LockedStep

\* A step under the lock leaves everybody's locks and calls alone.
LEMMA LockedStepFrame ==
    ASSUME TypeInv, NEW p \in Procs, LockedStep(p)
    PROVE  /\ UNCHANGED <<lock, job>>
           /\ pc[p] \in Holding /\ pc'[p] \in Holding
           /\ \A q \in Procs \ {p} : pc'[q] = pc[q]
BY DEF LockedStep, TypeInv, TypeOK, Goto, Holding, Housed, Running, Rotating,
       process, AuthenticationFails, LockedStepFails, Authenticate,
       ReplaceManifest, SyncProfile, Unlock, CreateHome, HomeRefused, Extract,
       ExtractFails, Discard, Spawn, SpawnFails, StartForwarder,
       ForwarderFails, ForwarderPanics, Edit, ChildExits, Seal, ReplaceState, SealFails,
       Cleanup, CleanupFails

LEMMA LockStep ==
    ASSUME TypeInv, LockInv, Next
    PROVE  LockInv'
<1> USE DEF TypeInv, TypeOK, Goto, Dir
<1>1. ASSUME NEW p \in Procs, UnlockedStep(p) PROVE LockInv'
  <2>1. /\ UNCHANGED lock
        /\ pc[p] \notin Holding /\ pc'[p] \notin Holding
        /\ \A q \in Procs \ {p} : pc'[q] = pc[q] /\ job'[q] = job[q]
    BY <1>1 DEF UnlockedStep, AddUser, Publish, PublishFails, BeginRotation,
         BeginRun, LockRefused, Call, Return, Holding, Housed, Running, Rotating
  <2> QED BY <2>1 DEF LockInv
<1>2. ASSUME NEW p \in Procs, AcquireLock(p) PROVE LockInv'
  <2>1. Dir(p) \in Profiles BY <1>2, Caller DEF AcquireLock
  <2>2. pc[p] \notin Holding /\ pc'[p] \in Holding
    BY <1>2 DEF AcquireLock, Holding, Housed, Running, Rotating
  <2> QED BY <1>2, <2>1, <2>2 DEF AcquireLock, LockFree, LockInv
<1>3. ASSUME NEW p \in Procs, LockedStep(p) PROVE LockInv'
  BY <1>3, LockedStepFrame DEF LockInv
<1>4. ASSUME NEW p \in Procs, Release(p) PROVE LockInv'
  <2>1. pc[p] \in Holding /\ pc'[p] \notin Holding
    BY <1>4 DEF Release, Return, Holding, Housed, Running, Rotating
  <2> QED BY <1>4, <2>1, Caller DEF Release, Return, LockInv
<1>5. ASSUME NEW p \in Procs, Crash(p) PROVE LockInv'
  <2>1. pc'[p] \notin Holding
    BY <1>5 DEF Crash, Return, Holding, Housed, Running, Rotating
  <2>2. \A q \in Procs \ {p} : pc'[q] = pc[q] /\ Dir(q)' = Dir(q)
    BY <1>5 DEF Crash, Return
  <2>3. ASSUME NEW q \in Procs, pc'[q] \in Holding PROVE lock'[Dir(q)'] = q
    <3>1. q # p /\ pc[q] \in Holding BY <2>1, <2>2, <2>3
    <3>2. Dir(q) \in Profiles
      BY <3>1, Caller DEF Holding, Housed, Running, Rotating
    <3> QED BY <1>5, <2>2, <3>1, <3>2 DEF Crash, LockInv
  <2>4. ASSUME NEW d \in Profiles, lock'[d] # None
        PROVE  (pc[lock[d]] \in Holding /\ Dir(lock[d]) = d)'
    <3>1. lock'[d] = lock[d] /\ lock[d] # p /\ lock[d] \in Procs
      BY <1>5, <2>4 DEF Crash
    <3>2. pc[lock[d]] \in Holding /\ Dir(lock[d]) = d
      BY <2>4, <3>1 DEF LockInv
    <3> QED BY <2>2, <3>1, <3>2
  <2> QED BY <2>3, <2>4 DEF LockInv
<1>6. ASSUME NEW path \in Paths, Leftover(path) PROVE LockInv'
  BY <1>6 DEF Leftover, OrphanEdits, OrphanExits, Recover, process, LockInv
<1>7. ASSUME PowerLoss PROVE LockInv'
  BY <1>7 DEF PowerLoss, LockInv, Holding, Housed, Running, Rotating
<1> QED BY <1>1, <1>2, <1>3, <1>4, <1>5, <1>6, <1>7, NextCases

LEMMA LockInvariant == Spec => []LockInv
<1>1. Init => LockInv
  BY DEF Init, LockInv, Holding, Housed, Running, Rotating
<1>2. LockInv /\ UNCHANGED vars => LockInv'
  BY DEF LockInv, Dir, vars, process
<1> QED BY <1>1, <1>2, LockStep, TypeInvariant, PTL DEF Spec

\* At most one process works on a profile, under whatever spelling: the lock
\* is held from acquire_lock to the end of the call.
THEOREM SessionsExclusive == Spec => []ExclusiveSession
<1>1. LockInv => ExclusiveSession
  BY DEF LockInv, ExclusiveSession
<1> QED BY <1>1, LockInvariant, PTL

-----------------------------------------------------------------------------
(***************************************************************************)
(* What the steps of one process leave to the others: their own variables, *)
(* the profile they have locked and the runtime directory they own.        *)
(***************************************************************************)
ProcessStep(p) ==
    UnlockedStep(p) \/ AcquireLock(p) \/ LockedStep(p) \/ Release(p) \/ Crash(p)

Undisturbed(q) ==
    /\ pc'[q] = pc[q]
    /\ job'[q] = job[q]
    /\ seen'[q] = seen[q]
    /\ draft'[q] = draft[q]
    /\ home'[q] = home[q]
    /\ outcome'[q] = outcome[q]
    /\ pc[q] \in Holding => dirs'[Dir(q)] = dirs[Dir(q)]
    /\ pc[q] \in Housed => runtime'[home[q]] = runtime[home[q]]

LEMMA OwnVariables ==
    ASSUME TypeInv, NEW p \in Procs, ProcessStep(p), NEW q \in Procs \ {p}
    PROVE  /\ pc'[q] = pc[q]
           /\ job'[q] = job[q]
           /\ seen'[q] = seen[q]
           /\ draft'[q] = draft[q]
           /\ home'[q] = home[q]
           /\ outcome'[q] = outcome[q]
<1> USE DEF TypeInv, TypeOK, process, Goto
<1>1. CASE UnlockedStep(p)
  BY <1>1 DEF UnlockedStep, Call, Return, AddUser, Publish, PublishFails,
       BeginRotation, BeginRun, LockRefused
<1>2. CASE AcquireLock(p) \/ Release(p) \/ Crash(p)
  BY <1>2 DEF Return, AcquireLock, Release, Crash
<1>3. CASE LockedStep(p)
  <2>1. CASE \/ AuthenticationFails(p) \/ LockedStepFails(p) \/ HomeRefused(p)
             \/ ExtractFails(p) \/ SpawnFails(p) \/ ForwarderFails(p) \/ ForwarderPanics(p)
             \/ ChildExits(p) \/ CleanupFails(p)
    BY <2>1 DEF Fail, AuthenticationFails, LockedStepFails, HomeRefused,
         ExtractFails, SpawnFails, ForwarderFails, ForwarderPanics, ChildExits, CleanupFails
  <2>2. CASE Authenticate(p) \/ Unlock(p) \/ ReplaceManifest(p) \/ SyncProfile(p)
    BY <2>2 DEF ReadManifest, Authenticate, Unlock, ReplaceManifest, SyncProfile
  <2>3. CASE \/ CreateHome(p) \/ Extract(p) \/ Discard(p) \/ Spawn(p)
             \/ StartForwarder(p) \/ Edit(p) \/ Cleanup(p)
    <3>1. CASE CreateHome(p)
      BY <3>1 DEF CreateHome
    <3>2. CASE Extract(p) \/ Discard(p) \/ Edit(p) \/ Cleanup(p)
      BY <3>2 DEF Extract, Discard, Edit, Cleanup
    <3>3. CASE Spawn(p) \/ StartForwarder(p)
      BY <3>3 DEF Spawn, StartForwarder
    <3> QED BY <2>3, <3>1, <3>2, <3>3
  <2>4. CASE Seal(p) \/ ReplaceState(p) \/ SealFails(p)
    BY <2>4 DEF Fail, Seal, ReplaceState, SealFails
  <2> QED BY <1>3, <2>1, <2>2, <2>3, <2>4 DEF LockedStep
<1> QED BY <1>1, <1>2, <1>3 DEF ProcessStep

\* The three actions that write a profile write their own.
LEMMA OwnProfile ==
    ASSUME TypeInv, NEW p \in Procs, ProcessStep(p)
    PROVE  \/ UNCHANGED dirs
           \/ /\ pc[p] \in Holding \/ dirs[Dir(p)] = None
              /\ \A d \in Profiles \ {Dir(p)} : dirs'[d] = dirs[d]
BY DEF TypeInv, TypeOK, ProcessStep, UnlockedStep, LockedStep, disk, Write,
       Holding, Housed, Rotating, MayPublish, AddUser, Publish, PublishFails,
       BeginRotation, BeginRun, AcquireLock, LockRefused,
       AuthenticationFails, LockedStepFails, Authenticate, ReplaceManifest,
       SyncProfile, Unlock, CreateHome, HomeRefused, Extract, ExtractFails,
       Discard, Spawn, SpawnFails, StartForwarder, ForwarderFails, ForwarderPanics, Edit,
       ChildExits, Seal, ReplaceState, SealFails, Cleanup, CleanupFails,
       Release, Crash

\* A process changes its own runtime directory or creates one.
LEMMA OwnHome ==
    ASSUME TypeInv, NEW p \in Procs, ProcessStep(p),
           NEW path \in Paths, runtime[path] # None,
           pc[p] \in Housed => home[p] # path
    PROVE  runtime'[path] = runtime[path]
<1> USE DEF TypeInv, TypeOK, Housed, Running
<1>1. CASE UnlockedStep(p) \/ AcquireLock(p) \/ Release(p)
  BY <1>1 DEF UnlockedStep, AddUser, Publish, PublishFails, BeginRotation,
       BeginRun, LockRefused, AcquireLock, Release
<1>2. CASE Crash(p)
  BY <1>2 DEF Crash
<1>3. CASE CreateHome(p)
  BY <1>3 DEF CreateHome, MayCreateHome
<1>4. CASE \/ Extract(p) \/ ExtractFails(p) \/ Discard(p) \/ Edit(p)
           \/ Cleanup(p) \/ CleanupFails(p)
  BY <1>4 DEF Extract, ExtractFails, Discard, Edit, Cleanup, CleanupFails
<1>5. CASE \/ AuthenticationFails(p) \/ LockedStepFails(p) \/ Authenticate(p)
           \/ ReplaceManifest(p) \/ SyncProfile(p) \/ Unlock(p) \/ HomeRefused(p)
           \/ Spawn(p) \/ SpawnFails(p) \/ StartForwarder(p) \/ ForwarderFails(p)
           \/ ForwarderPanics(p)
           \/ ChildExits(p) \/ Seal(p) \/ ReplaceState(p) \/ SealFails(p)
  BY <1>5 DEF AuthenticationFails, LockedStepFails, Authenticate,
       ReplaceManifest, SyncProfile, Unlock, HomeRefused, Spawn, SpawnFails,
       StartForwarder, ForwarderFails, ForwarderPanics, ChildExits, Seal, ReplaceState, SealFails
<1> QED BY <1>1, <1>2, <1>3, <1>4, <1>5 DEF ProcessStep, LockedStep

LEMMA OthersUndisturbed ==
    ASSUME TypeInv, LockInv, NEW p \in Procs, ProcessStep(p),
           NEW q \in Procs \ {p}
    PROVE  Undisturbed(q)
<1>1. ASSUME pc[q] \in Holding PROVE dirs'[Dir(q)] = dirs[Dir(q)]
  <2>1. Dir(q) \in Profiles
    BY <1>1, Caller DEF Holding, Housed, Running, Rotating
  <2>2. dirs[Dir(q)] # None
    BY <1>1 DEF TypeInv, CallsOK, ProfileExists
  <2>3. pc[p] \in Holding => Dir(p) # Dir(q)
    BY <1>1 DEF LockInv
  <2> QED BY <2>1, <2>2, <2>3, OwnProfile
<1>2. ASSUME pc[q] \in Housed PROVE runtime'[home[q]] = runtime[home[q]]
  <2>1. home[q] \in Paths /\ runtime[home[q]] # None
    BY <1>2 DEF TypeInv, HomesOK, HomeExists
  <2>2. pc[p] \in Housed => home[p] # home[q]
    BY <1>2 DEF TypeInv, HomesOK, HomesDistinct
  <2> QED BY <2>1, <2>2, OwnHome
<1> QED BY <1>1, <1>2, OwnVariables DEF Undisturbed

-----------------------------------------------------------------------------
(***************************************************************************)
(* Whole profiles.  What a process is about to rename into place fits what *)
(* is there: its manifest is the one it read or staged, its state is       *)
(* sealed under that manifest's key.                                       *)
(***************************************************************************)
Staged(p) ==
    pc[p] = "publish" =>
        seen[p].name = job[p].name /\ draft[p].key = seen[p].key

Current(p) ==
    pc[p] \in {"rename", "home"} \cup Housed =>
        seen[p] = dirs[Dir(p)].manifest

SealsOwnKey(p) == pc[p] = "replace" => draft[p].key = seen[p].key

Fits(p) == Staged(p) /\ Current(p) /\ SealsOwnKey(p)

\* What is on the disk now is one of the versions a power loss may leave.
Present == \A d \in Profiles : dirs[d] \in images[d]

WholeInv == Present /\ WholeProfiles /\ \A p \in Procs : Fits(p)

\* The versions a step adds are those it puts in place.
LEMMA NewImages ==
    ASSUME TypeInv, Present, NEW p \in Procs, ProcessStep(p)
    PROVE  \A d \in Profiles :
             dirs'[d] \in images'[d] /\ images'[d] \subseteq images[d] \cup {dirs'[d]}
<1>1. CASE Publish(p) \/ ReplaceManifest(p) \/ ReplaceState(p)
  BY <1>1 DEF TypeInv, TypeOK, Present, Write, Publish, ReplaceManifest, ReplaceState
<1>2. CASE SyncProfile(p)
  BY <1>2 DEF TypeInv, TypeOK, Present, SyncProfile, SyncedImages
<1>3. CASE UNCHANGED disk
  BY <1>3 DEF Present, disk
<1> QED
  BY <1>1, <1>2, <1>3 DEF ProcessStep, UnlockedStep, LockedStep, disk, AddUser,
     PublishFails, BeginRotation, BeginRun, AcquireLock, LockRefused,
     AuthenticationFails, LockedStepFails, Authenticate, Unlock, CreateHome,
     HomeRefused, Extract, ExtractFails, Discard, Spawn, SpawnFails,
     StartForwarder, ForwarderFails, ForwarderPanics, Edit, ChildExits, Seal, SealFails,
     Cleanup, CleanupFails, Release, Crash

LEMMA FitsUndisturbed ==
    ASSUME NEW q \in Procs, Undisturbed(q), Fits(q)
    PROVE  Fits(q)'
BY DEF Undisturbed, Fits, Staged, Current, SealsOwnKey, Dir, Holding, Rotating

\* The process itself, at the steps that do not write the disk.
LEMMA FitsOwn ==
    ASSUME TypeInv, NEW p \in Procs, Fits(p), ProcessStep(p), UNCHANGED dirs
    PROVE  Fits(p)'
<1> USE DEF TypeInv, TypeOK, process, Goto, Housed, Running, Rotating, Holding
<1>1. CASE UnlockedStep(p)
  <2>1. CASE AddUser(p)
    BY <2>1 DEF AddUser, Call, Fits, Staged, Current, SealsOwnKey
  <2>2. CASE \/ Publish(p) \/ PublishFails(p) \/ BeginRotation(p) \/ BeginRun(p)
             \/ LockRefused(p)
    BY <2>2 DEF Publish, PublishFails, BeginRotation, BeginRun, LockRefused,
         Return, Fits, Staged, Current, SealsOwnKey
  <2> QED BY <1>1, <2>1, <2>2 DEF UnlockedStep
<1>2. CASE AcquireLock(p) \/ Release(p) \/ Crash(p)
  BY <1>2 DEF AcquireLock, Release, Crash, Return, Fits, Staged, Current, SealsOwnKey
<1>3. CASE Authenticate(p) \/ Unlock(p)
  BY <1>3 DEF Authenticate, Unlock, ReadManifest, Dir, Fits, Staged, Current,
       SealsOwnKey
<1>4. CASE Seal(p)
  BY <1>4 DEF Seal, Dir, Fits, Staged, Current, SealsOwnKey
<1>5. CASE /\ LockedStep(p)
           /\ ~(Authenticate(p) \/ Unlock(p) \/ Seal(p))
  <2>1. /\ pc'[p] \notin {"publish", "rename", "replace"}
        /\ pc'[p] \in {"home"} \cup Housed => pc[p] \in {"home"} \cup Housed
        /\ seen' = seen
    BY <1>5 DEF LockedStep, AuthenticationFails, LockedStepFails, HomeRefused,
         ExtractFails, SpawnFails, ForwarderFails, ForwarderPanics, ChildExits, CleanupFails,
         ReplaceManifest, SyncProfile, CreateHome, Extract, Discard, Spawn,
         StartForwarder, Edit, Cleanup, ReplaceState, SealFails
  <2> QED BY <1>5, <2>1, LockedStepFrame DEF Dir, Fits, Staged, Current, SealsOwnKey
<1> QED BY <1>1, <1>2, <1>3, <1>4, <1>5 DEF ProcessStep

\* A process that writes its profile leaves it whole, and fitting.
LEMMA WritesWhole ==
    ASSUME TypeInv, WholeInv, NEW p \in Procs,
           Publish(p) \/ ReplaceManifest(p) \/ ReplaceState(p)
    PROVE  /\ Dir(p) \in Profiles
           /\ Whole(Dir(p), dirs'[Dir(p)])
           /\ \A d \in Profiles \ {Dir(p)} : dirs'[d] = dirs[d]
           /\ Fits(p)'
<1>0. Dir(p) \in Profiles /\ Fits(p)
  BY Caller DEF Publish, ReplaceManifest, ReplaceState, WholeInv
<1>1. CASE Publish(p)
  <2>1. Staged(p) /\ seen[p] \in Manifests /\ draft[p] \in Sealed
    BY <1>0, <1>1 DEF Fits, TypeInv, CallsOK, Remembers, Publish
  <2>2. Whole(Dir(p), [manifest |-> seen[p], state |-> draft[p]])
    BY <1>1, <2>1 DEF Publish, Staged, Whole, Dir
  <2> QED BY <1>0, <1>1, <2>2 DEF TypeInv, TypeOK, Publish, Write, Return,
            Fits, Staged, Current, SealsOwnKey, Housed, Running
<1>2. CASE ReplaceManifest(p)
  <2>1. /\ seen[p] = dirs[Dir(p)].manifest
        /\ seen[p] \in Manifests
        /\ dirs[Dir(p)] \in Dirs
    BY <1>0, <1>2 DEF Fits, Current, TypeInv, CallsOK, Remembers, ProfileExists,
         ReplaceManifest, Holding, Rotating
  <2>2. Whole(Dir(p), dirs[Dir(p)])
    BY <1>0, <2>1 DEF WholeInv, WholeProfiles, Present
  <2>3. Whole(Dir(p), [dirs[Dir(p)] EXCEPT
                         !.manifest = Rotated(seen[p], job[p].fresh)])
    BY <2>1, <2>2 DEF Whole, Rotated, Dirs, Manifests
  <2> QED BY <1>0, <1>2, <2>3 DEF TypeInv, TypeOK, ReplaceManifest, Write, Goto,
            Fits, Staged, Current, SealsOwnKey, Housed, Running
<1>3. CASE ReplaceState(p)
  <2>1. /\ seen[p] = dirs[Dir(p)].manifest
        /\ draft[p].key = seen[p].key
        /\ draft[p] \in Sealed
        /\ dirs[Dir(p)] \in Dirs
    BY <1>0, <1>3 DEF Fits, Current, SealsOwnKey, TypeInv, CallsOK, Remembers,
         ProfileExists, ReplaceState, Holding, Housed
  <2>2. Whole(Dir(p), dirs[Dir(p)])
    BY <1>0, <2>1 DEF WholeInv, WholeProfiles, Present
  <2>3. Whole(Dir(p), [dirs[Dir(p)] EXCEPT !.state = draft[p]])
    BY <2>1, <2>2 DEF Whole, Dirs, Sealed
  <2>4. /\ dirs'[Dir(p)] = [dirs[Dir(p)] EXCEPT !.state = draft[p]]
        /\ \A d \in Profiles \ {Dir(p)} : dirs'[d] = dirs[d]
    BY <1>0, <1>3 DEF TypeInv, TypeOK, ReplaceState, Write
  <2>5. dirs'[Dir(p)].manifest = dirs[Dir(p)].manifest
    BY <2>1, <2>4 DEF Dirs
  <2>6. Fits(p)'
    BY <1>3, <2>1, <2>5 DEF TypeInv, TypeOK, ReplaceState, Goto, Dir, Fits,
         Staged, Current, SealsOwnKey, Housed, Running
  <2> QED BY <1>0, <2>3, <2>4, <2>6
<1> QED BY <1>1, <1>2, <1>3

LEMMA WholeStep ==
    ASSUME TypeInv, LockInv, WholeInv, Next
    PROVE  WholeInv'
<1>1. ASSUME NEW p \in Procs, ProcessStep(p) PROVE WholeInv'
  <2>1. Present' /\ \A d \in Profiles : images'[d] \subseteq images[d] \cup {dirs'[d]}
    BY <1>1, NewImages DEF WholeInv, Present
  <2>2. \A q \in Procs \ {p} : Fits(q)'
    BY <1>1, OthersUndisturbed, FitsUndisturbed DEF WholeInv
  <2>3. CASE UNCHANGED dirs
    <3>1. Fits(p)' BY <1>1, <2>3, FitsOwn DEF WholeInv
    <3>2. WholeProfiles'
      BY <2>1, <2>3 DEF WholeInv, WholeProfiles, Present, Whole
    <3> QED BY <2>1, <2>2, <3>1, <3>2 DEF WholeInv
  <2>4. CASE Publish(p) \/ ReplaceManifest(p) \/ ReplaceState(p)
    <3>1. /\ Fits(p)'
          /\ \A d \in Profiles : Whole(d, dirs'[d]) \/ dirs'[d] = dirs[d]
      BY <2>4, WritesWhole
    <3>2. WholeProfiles'
      BY <2>1, <3>1 DEF WholeInv, WholeProfiles, Present, Whole
    <3> QED BY <2>1, <2>2, <3>1, <3>2 DEF WholeInv
  <2> QED
    BY <1>1, <2>3, <2>4 DEF ProcessStep, UnlockedStep, LockedStep, disk, AddUser,
       PublishFails, BeginRotation, BeginRun, AcquireLock, LockRefused,
       AuthenticationFails, LockedStepFails, Authenticate, SyncProfile, Unlock,
       CreateHome, HomeRefused, Extract, ExtractFails, Discard, Spawn,
       SpawnFails, StartForwarder, ForwarderFails, ForwarderPanics, Edit, ChildExits, Seal,
       SealFails, Cleanup, CleanupFails, Release, Crash
<1>2. ASSUME NEW path \in Paths, Leftover(path) PROVE WholeInv'
  BY <1>2 DEF Leftover, OrphanEdits, OrphanExits, Recover, disk, process,
     WholeInv, Present, WholeProfiles, Fits, Staged, Current, SealsOwnKey, Dir
<1>3. ASSUME PowerLoss PROVE WholeInv'
  <2>1. \A d \in Profiles : dirs'[d] \in images[d] /\ images'[d] = {dirs'[d]}
    BY <1>3 DEF PowerLoss
  <2>2. \A p \in Procs : Fits(p)'
    BY <1>3 DEF PowerLoss, Fits, Staged, Current, SealsOwnKey, Housed, Running
  <2> QED BY <2>1, <2>2 DEF WholeInv, Present, WholeProfiles, Whole
<1> QED BY <1>1, <1>2, <1>3, NextCases DEF ProcessStep

LEMMA WholeInvariant == Spec => []WholeInv
<1>1. Init => WholeInv
  BY DEF Init, WholeInv, Present, WholeProfiles, Fits, Staged, Current,
         SealsOwnKey, Housed, Running
<1>2. WholeInv /\ UNCHANGED vars => WholeInv'
  BY DEF WholeInv, Present, WholeProfiles, Fits, Staged, Current, SealsOwnKey,
         Dir, vars, disk, process
<1> QED BY <1>1, <1>2, WholeStep, TypeInvariant, LockInvariant, PTL DEF Spec

\* Every version of a profile, also one a power loss brings back, opens with
\* its own manifest: a rename replaces a whole file or directory, and what is
\* renamed was made from the manifest the lock keeps in place.
THEOREM ProfilesWhole == Spec => []WholeProfiles
BY WholeInvariant, PTL DEF WholeInv

-----------------------------------------------------------------------------
(***************************************************************************)
(* Contents.  What a session works on never falls behind the profile, and  *)
(* what it promises is in the profile.                                     *)
(***************************************************************************)
Contents(p) == dirs[Dir(p)].state.contents

Progress(p) ==
    /\ pc[p] \in {"spawn", "seal", "replace"} \cup Running =>
         Contents(p) \subseteq runtime[home[p]]
    /\ pc[p] = "replace" =>
         /\ Contents(p) \subseteq draft[p].contents
         /\ draft[p].contents \subseteq runtime[home[p]]
         /\ home[p] \notin strays => draft[p].contents = runtime[home[p]]
    /\ pc[p] = "cleanup" /\ outcome[p] \in {"Ok", "Launch"} =>
         /\ Contents(p) = draft[p].contents
         /\ home[p] \notin strays => draft[p].contents = runtime[home[p]]
    /\ pc[p] = "release" /\ outcome[p] = "Ok" /\ job[p].op = "run" =>
         Contents(p) = draft[p].contents

ContentsInv == NoLostUpdate /\ \A p \in Procs : Progress(p)

LEMMA ProgressUndisturbed ==
    ASSUME NEW q \in Procs, Undisturbed(q), Progress(q), strays \subseteq strays'
    PROVE  Progress(q)'
BY DEF Undisturbed, Progress, Contents, Dir, Holding, Housed

\* The process itself, at the steps that do not write the disk.
LEMMA ProgressOwn ==
    ASSUME TypeInv, NEW p \in Procs, Progress(p), ProcessStep(p), UNCHANGED dirs,
           ~ReplaceState(p)
    PROVE  Progress(p)'
<1> USE DEF TypeInv, TypeOK, process, Goto, Housed, Running, Rotating, Holding,
            Progress, Contents
<1>1. CASE UnlockedStep(p) \/ AcquireLock(p) \/ Release(p) \/ Crash(p)
  <2>1. pc'[p] \in {"idle", "publish", "lock", "rotate", "unlock"}
    BY <1>1 DEF UnlockedStep, AddUser, Publish, PublishFails, BeginRotation,
         BeginRun, LockRefused, AcquireLock, Release, Crash, Return
  <2> QED BY <2>1
<1>2. CASE Extract(p)
  <2>1. home[p] \in Paths BY <1>2, Owner DEF Extract
  <2> QED BY <1>2, <2>1 DEF Extract, Dir
<1>3. CASE Edit(p)
  <2>1. home[p] \in Paths BY <1>3, Owner DEF Edit
  <2> QED BY <1>3, <2>1 DEF Edit, Dir
<1>4. CASE Seal(p)
  BY <1>4 DEF Seal, Dir
<1>5. CASE Cleanup(p)
  BY <1>5 DEF Cleanup, Dir
<1>6. CASE SealFails(p) \/ CleanupFails(p)
  <2>1. pc'[p] \in {"cleanup", "release"} /\ outcome'[p] \notin {"Ok", "Launch"}
    BY <1>6 DEF SealFails, CleanupFails, Fail, FirstError
  <2> QED BY <2>1
<1>7. CASE \/ AuthenticationFails(p) \/ LockedStepFails(p) \/ HomeRefused(p)
           \/ ExtractFails(p)
  <2>1. pc'[p] \in {"discard", "release"} /\ outcome'[p] # "Ok"
    BY <1>7 DEF AuthenticationFails, LockedStepFails, HomeRefused,
         ExtractFails, Fail, FirstError
  <2> QED BY <2>1
<1>8. CASE Discard(p)
  BY <1>8 DEF CallsOK, Failing, Discard
<1>9. CASE SyncProfile(p)
  BY <1>9 DEF CallsOK, RightOperation, SyncProfile
<1>10. CASE Authenticate(p) \/ ReplaceManifest(p) \/ Unlock(p) \/ CreateHome(p)
  <2>1. pc'[p] \in {"rename", "sync", "home", "extract"}
    BY <1>10 DEF Authenticate, ReplaceManifest, Unlock, CreateHome
  <2> QED BY <2>1
<1>11. CASE \/ Spawn(p) \/ SpawnFails(p) \/ StartForwarder(p) \/ ForwarderFails(p)
            \/ ForwarderPanics(p)
            \/ ChildExits(p)
  BY <1>11 DEF Spawn, SpawnFails, StartForwarder, ForwarderFails, ForwarderPanics, ChildExits, Dir
<1> QED BY <1>1, <1>2, <1>3, <1>4, <1>5, <1>6, <1>7, <1>8, <1>9, <1>10, <1>11
      DEF ProcessStep, LockedStep

\* Only a release adds to what has been promised, and it promises what the
\* profile holds.
LEMMA PromisesKept ==
    ASSUME TypeInv, ContentsInv, NEW p \in Procs, ProcessStep(p), UNCHANGED dirs
    PROVE  NoLostUpdate'
<1>1. CASE UNCHANGED acked
  BY <1>1 DEF ContentsInv, NoLostUpdate
<1>2. CASE Release(p) /\ outcome[p] = "Ok" /\ Acknowledge(p) /\ job[p].op = "run"
  <2>1. Dir(p) \in Profiles /\ dirs[Dir(p)] # None
    BY <1>2, Caller DEF Release, TypeInv, CallsOK, ProfileExists, Holding
  <2>2. Contents(p) = draft[p].contents
    BY <1>2 DEF ContentsInv, Progress, Release
  <2>3. acked' = [acked EXCEPT ![Dir(p)] = @ \cup draft[p].contents]
    BY <1>2 DEF Acknowledge
  <2> QED BY <2>1, <2>2, <2>3 DEF TypeInv, TypeOK, ContentsInv, NoLostUpdate, Contents
<1> QED
  BY <1>1, <1>2 DEF ProcessStep, UnlockedStep, LockedStep, history, Acknowledge,
     AddUser, Publish, PublishFails, BeginRotation, BeginRun, LockRefused,
     AcquireLock, Release, Crash, AuthenticationFails, LockedStepFails,
     Authenticate, ReplaceManifest, SyncProfile, Unlock, CreateHome,
     HomeRefused, Extract, ExtractFails, Discard, Spawn, SpawnFails,
     StartForwarder, ForwarderFails, ForwarderPanics, Edit, ChildExits, Seal, ReplaceState,
     SealFails, Cleanup, CleanupFails

\* A new state file contains the old one, a new manifest leaves it alone.
LEMMA WritesContents ==
    ASSUME TypeInv, ContentsInv, NEW p \in Procs,
           Publish(p) \/ ReplaceManifest(p) \/ ReplaceState(p)
    PROVE  NoLostUpdate' /\ Progress(p)'
<1>0. Dir(p) \in Profiles /\ Progress(p)
  BY Caller DEF Publish, ReplaceManifest, ReplaceState, ContentsInv
<1>1. CASE Publish(p)
  <2>1. acked[Dir(p)] = {}
    BY <1>0, <1>1 DEF Publish, MayPublish, ContentsInv, NoLostUpdate
  <2> QED BY <1>0, <1>1, <2>1 DEF TypeInv, TypeOK, Publish, Write, Return,
            history, ContentsInv, NoLostUpdate, Progress, Running
<1>2. CASE ReplaceManifest(p)
  <2>1. dirs[Dir(p)] \in Dirs
    BY <1>2 DEF TypeInv, CallsOK, ProfileExists, ReplaceManifest, Holding, Rotating
  <2>2. /\ dirs'[Dir(p)] # None
        /\ dirs'[Dir(p)].state = dirs[Dir(p)].state
        /\ \A d \in Profiles \ {Dir(p)} : dirs'[d] = dirs[d]
    <3>1. /\ dirs'[Dir(p)] = [dirs[Dir(p)] EXCEPT
                                !.manifest = Rotated(seen[p], job[p].fresh)]
          /\ \A d \in Profiles \ {Dir(p)} : dirs'[d] = dirs[d]
      BY <1>0, <1>2 DEF TypeInv, TypeOK, ReplaceManifest, Write
    <3>2. dirs'[Dir(p)] # None
      <4>1. /\ seen[p] \in Manifests
            /\ job[p].fresh \in Strong
        BY <1>2 DEF TypeInv, CallsOK, Remembers, RightOperation,
             ReplaceManifest, Rotating
      <4>2. dirs'[Dir(p)] \in Dirs
        BY <2>1, <3>1, <4>1 DEF Dirs, Manifests, Rotated
      <4> QED BY <4>2
    <3> QED BY <2>1, <3>1, <3>2 DEF Dirs
  <2> QED BY <1>0, <1>2, <2>1, <2>2 DEF TypeInv, TypeOK, ReplaceManifest, Goto,
            ContentsInv, NoLostUpdate, Progress, Running
<1>3. CASE ReplaceState(p)
  <2>1. /\ dirs[Dir(p)] \in Dirs
        /\ draft[p] \in Sealed
    BY <1>3 DEF TypeInv, CallsOK, ProfileExists, Remembers, ReplaceState,
         Holding, Housed
  <2>2. /\ dirs'[Dir(p)] = [dirs[Dir(p)] EXCEPT !.state = draft[p]]
        /\ \A d \in Profiles \ {Dir(p)} : dirs'[d] = dirs[d]
    BY <1>0, <1>3 DEF TypeInv, TypeOK, ReplaceState, Write
  <2>3. dirs'[Dir(p)] \in Dirs /\ dirs'[Dir(p)].state = draft[p]
    BY <2>1, <2>2 DEF Dirs
  <2>4. /\ Contents(p) \subseteq draft[p].contents
        /\ home[p] \notin strays => draft[p].contents = runtime[home[p]]
    BY <1>0, <1>3 DEF ReplaceState, Progress
  <2>5. NoLostUpdate'
    BY <1>0, <1>3, <2>2, <2>3, <2>4 DEF ReplaceState, history, ContentsInv,
         NoLostUpdate, Contents
  <2>6. Progress(p)'
    BY <1>3, <2>3, <2>4 DEF TypeInv, TypeOK, ReplaceState, Goto, Progress,
         Contents, Dir, Running
  <2> QED BY <2>5, <2>6
<1> QED BY <1>1, <1>2, <1>3

\* What a Codex without its codex-vault, or a person, does to a directory that
\* is in use: only a stray may add to it.
LEMMA LeftoverAdds ==
    ASSUME TypeInv, NEW path \in Paths, Leftover(path), NEW q \in Procs, pc[q] \in Housed
    PROVE  /\ runtime[home[q]] \subseteq runtime'[home[q]]
           /\ home[q] \notin strays => runtime'[home[q]] = runtime[home[q]]
<1>1. home[q] \in Paths /\ runtime[home[q]] # None
  BY DEF TypeInv, HomesOK, HomeExists
<1>2. CASE OrphanEdits(path)
  <2>1. PICK edit \in Edits : runtime' = [runtime EXCEPT ![path] = Found(path) \cup {edit}]
    BY <1>2 DEF OrphanEdits
  <2>2. CASE home[q] = path
    <3>1. path \in strays
      BY <1>2, <2>2 DEF OrphanEdits, TypeInv, HomesOK, OrphansApart
    <3>2. Found(path) = runtime[path]
      BY <1>1, <2>2 DEF Found
    <3> QED BY <2>1, <2>2, <3>1, <3>2 DEF TypeInv, TypeOK
  <2>3. CASE home[q] # path
    BY <1>1, <2>1, <2>3 DEF TypeInv, TypeOK
  <2> QED BY <2>2, <2>3
<1>3. CASE OrphanExits(path)
  BY <1>3 DEF OrphanExits
<1>4. CASE Recover(path)
  BY <1>1, <1>4 DEF Recover, TypeInv, TypeOK
<1> QED BY <1>2, <1>3, <1>4 DEF Leftover

\* A Codex that was cut loose is never known to be gone.
LEMMA StraysStay ==
    ASSUME NEW p \in Procs, ProcessStep(p)
    PROVE  strays \subseteq strays'
BY DEF ProcessStep, UnlockedStep, LockedStep, AddUser, Publish, PublishFails,
   BeginRotation, BeginRun, AcquireLock, LockRefused, AuthenticationFails,
   LockedStepFails, Authenticate, ReplaceManifest, SyncProfile, Unlock, CreateHome,
   HomeRefused, Extract, ExtractFails, Discard, Spawn, SpawnFails, StartForwarder,
   ForwarderFails, ForwarderPanics, Edit, ChildExits, Seal, ReplaceState, SealFails,
   Cleanup, CleanupFails, Release, Crash

LEMMA ContentsStep ==
    ASSUME TypeInv, LockInv, ContentsInv, Next
    PROVE  ContentsInv'
<1>1. ASSUME NEW p \in Procs, ProcessStep(p) PROVE ContentsInv'
  <2>0. strays \subseteq strays'
    BY <1>1, StraysStay
  <2>1. \A q \in Procs \ {p} : Progress(q)'
    BY <1>1, <2>0, OthersUndisturbed, ProgressUndisturbed DEF ContentsInv
  <2>2. CASE Publish(p) \/ ReplaceManifest(p) \/ ReplaceState(p)
    BY <2>1, <2>2, WritesContents DEF ContentsInv
  <2>3. CASE UNCHANGED dirs /\ ~ReplaceState(p)
    BY <1>1, <2>1, <2>3, ProgressOwn, PromisesKept DEF ContentsInv
  <2> QED
    BY <1>1, <2>2, <2>3 DEF ProcessStep, UnlockedStep, LockedStep, disk, AddUser,
       PublishFails, BeginRotation, BeginRun, AcquireLock, LockRefused,
       AuthenticationFails, LockedStepFails, Authenticate, SyncProfile, Unlock,
       CreateHome, HomeRefused, Extract, ExtractFails, Discard, Spawn,
       SpawnFails, StartForwarder, ForwarderFails, ForwarderPanics, Edit, ChildExits, Seal,
       SealFails, Cleanup, CleanupFails, Release, Crash
<1>2. ASSUME NEW path \in Paths, Leftover(path) PROVE ContentsInv'
  <2>1. UNCHANGED <<disk, strays, process, history>>
    BY <1>2 DEF Leftover, OrphanEdits, OrphanExits, Recover
  <2>2. \A q \in Procs : pc[q] \in Housed =>
          /\ runtime[home[q]] \subseteq runtime'[home[q]]
          /\ home[q] \notin strays => runtime'[home[q]] = runtime[home[q]]
    BY <1>2, LeftoverAdds
  <2>3. ASSUME NEW q \in Procs PROVE Progress(q)'
    <3>1. Progress(q) BY DEF ContentsInv
    <3> QED BY <2>1, <2>2, <3>1 DEF disk, process, Progress, Contents, Dir, Housed, Running
  <2> QED BY <2>1, <2>3 DEF disk, history, ContentsInv, NoLostUpdate
<1>3. ASSUME PowerLoss PROVE ContentsInv'
  <2>1. NoLostUpdate'
    BY <1>3 DEF PowerLoss, NoLostUpdate
  <2>2. \A p \in Procs : Progress(p)'
    BY <1>3 DEF PowerLoss, Progress, Running
  <2> QED BY <2>1, <2>2 DEF ContentsInv
<1> QED BY <1>1, <1>2, <1>3, NextCases DEF ProcessStep

LEMMA ContentsInvariant == Spec => []ContentsInv
<1>1. Init => ContentsInv
  BY DEF Init, ContentsInv, NoLostUpdate, Progress, Running
<1>2. ContentsInv /\ UNCHANGED vars => ContentsInv'
  BY DEF ContentsInv, NoLostUpdate, Progress, Contents, Dir, vars, disk,
         process, history
<1> QED BY <1>1, <1>2, ContentsStep, TypeInvariant, LockInvariant, PTL DEF Spec

\* No session that returned Ok loses its edits to a later or concurrent call
\* of any kind.
THEOREM UpdatesKept == Spec => []NoLostUpdate
BY ContentsInvariant, PTL DEF ContentsInv

\* close() removes a runtime directory only when its contents are sealed,
\* unless it goes on to report an error or a stray writes there as well.
THEOREM SealedBeforeRemoval == Spec => []SavedBeforeRemoved
<1>1. ContentsInv => SavedBeforeRemoved
  BY DEF ContentsInv, Progress, Contents, SavedBeforeRemoved
<1> QED BY <1>1, ContentsInvariant, PTL

-----------------------------------------------------------------------------
(***************************************************************************)
(* Identity.  All the versions of a profile are versions of the same one.  *)
(***************************************************************************)
Kin(v, w) ==
    /\ v.manifest.id  = w.manifest.id
    /\ v.manifest.key = w.manifest.key

IdentityInv ==
    \A d \in Profiles :
        /\ dirs[d] = None => images[d] = {None}
        /\ dirs[d] # None =>
             \A version \in images[d] : version # None => Kin(version, dirs[d])

LEMMA WritesKin ==
    ASSUME TypeInv, WholeInv, NEW p \in Procs, ProcessStep(p),
           NEW d \in Profiles, dirs[d] # None
    PROVE  dirs'[d] # None /\ Kin(dirs'[d], dirs[d])
<1>1. CASE dirs'[d] = dirs[d]
  BY <1>1 DEF Kin
<1>2. CASE d = Dir(p) /\ ReplaceManifest(p)
  <2>1. /\ seen[p] = dirs[d].manifest
        /\ seen[p] \in Manifests
        /\ dirs[d] \in Dirs
        /\ job[p].fresh \in Strong
    BY <1>2 DEF WholeInv, Fits, Current, TypeInv, CallsOK, Remembers,
         RightOperation, ProfileExists, ReplaceManifest, Holding, Rotating
  <2>2. dirs'[d] = [dirs[d] EXCEPT !.manifest = Rotated(seen[p], job[p].fresh)]
    BY <1>2 DEF TypeInv, TypeOK, ReplaceManifest, Write
  <2>3. dirs'[d] \in Dirs /\ dirs'[d].manifest = Rotated(seen[p], job[p].fresh)
    BY <2>1, <2>2 DEF Dirs, Manifests, Rotated
  <2> QED BY <2>1, <2>3 DEF Kin, Rotated, Manifests
<1>3. CASE d = Dir(p) /\ ReplaceState(p)
  <2>1. dirs[d] \in Dirs /\ draft[p] \in Sealed
    BY <1>3 DEF TypeInv, CallsOK, Remembers, ProfileExists, ReplaceState,
         Holding, Housed
  <2>2. dirs'[d] = [dirs[d] EXCEPT !.state = draft[p]]
    BY <1>3 DEF TypeInv, TypeOK, ReplaceState, Write
  <2>3. dirs'[d] \in Dirs /\ dirs'[d].manifest = dirs[d].manifest
    BY <2>1, <2>2 DEF Dirs
  <2> QED BY <2>3 DEF Kin
<1>4. CASE (Publish(p) \/ ReplaceManifest(p) \/ ReplaceState(p)) /\ d # Dir(p)
  BY <1>1, <1>4, WritesWhole
<1>5. CASE Publish(p) /\ d = Dir(p)
  BY <1>5 DEF Publish, MayPublish
<1> QED
  BY <1>1, <1>2, <1>3, <1>4, <1>5 DEF ProcessStep, UnlockedStep, LockedStep,
     disk, AddUser, PublishFails, BeginRotation, BeginRun, AcquireLock,
     LockRefused, AuthenticationFails, LockedStepFails, Authenticate,
     SyncProfile, Unlock, CreateHome, HomeRefused, Extract, ExtractFails,
     Discard, Spawn, SpawnFails, StartForwarder, ForwarderFails, ForwarderPanics, Edit,
     ChildExits, Seal, SealFails, Cleanup, CleanupFails, Release, Crash

LEMMA IdentityStep ==
    ASSUME TypeInv, WholeInv, IdentityInv, Next
    PROVE  /\ IdentityInv'
           /\ \A d \in Profiles :
                dirs[d] # None /\ dirs'[d] # None => Kin(dirs'[d], dirs[d])
<1>1. ASSUME NEW p \in Procs, ProcessStep(p),
             NEW d \in Profiles
      PROVE  /\ dirs'[d] = None => images'[d] = {None}
             /\ dirs'[d] # None =>
                  \A version \in images'[d] :
                      version # None => Kin(version, dirs'[d])
             /\ dirs[d] # None /\ dirs'[d] # None => Kin(dirs'[d], dirs[d])
  <2>1. dirs'[d] \in images'[d] /\ images'[d] \subseteq images[d] \cup {dirs'[d]}
    BY <1>1, NewImages DEF WholeInv
  <2>2. CASE dirs[d] = None
    BY <2>1, <2>2 DEF IdentityInv, Kin
  <2>3. CASE dirs[d] # None
    <3>1. dirs'[d] # None /\ Kin(dirs'[d], dirs[d])
      BY <1>1, <2>3, WritesKin
    <3> QED BY <2>1, <2>3, <3>1 DEF IdentityInv, Kin
  <2> QED BY <2>2, <2>3
<1>2. ASSUME NEW path \in Paths, Leftover(path) PROVE UNCHANGED disk
  BY <1>2 DEF Leftover, OrphanEdits, OrphanExits, Recover
<1>3. ASSUME PowerLoss, NEW d \in Profiles
      PROVE  /\ images'[d] = {dirs'[d]}
             /\ dirs[d] # None /\ dirs'[d] # None => Kin(dirs'[d], dirs[d])
  BY <1>3 DEF PowerLoss, IdentityInv
<1>4. CASE \E p \in Procs : ProcessStep(p)
  BY <1>1, <1>4 DEF IdentityInv
<1>5. CASE \E path \in Paths : Leftover(path)
  BY <1>2, <1>5 DEF IdentityInv, Kin, disk
<1>6. CASE PowerLoss
  BY <1>3, <1>6 DEF IdentityInv, Kin
<1> QED BY <1>4, <1>5, <1>6, NextCases DEF ProcessStep

LEMMA IdentityInvariant == Spec => []IdentityInv
<1>1. Init => IdentityInv
  BY DEF Init, IdentityInv
<1>2. IdentityInv /\ UNCHANGED vars => IdentityInv'
  BY DEF IdentityInv, Kin, vars, disk
<1> QED BY <1>1, <1>2, IdentityStep, TypeInvariant, WholeInvariant, PTL DEF Spec

\* A profile keeps its identity and its data key for as long as it exists, so
\* what was sealed yesterday opens today whatever was rotated in between.
THEOREM IdentitiesStable == Spec => IdentityStable
<1> DEFINE Stable ==
      \A d \in Profiles : dirs[d] # None /\ dirs'[d] # None =>
         /\ dirs'[d].manifest.id  = dirs[d].manifest.id
         /\ dirs'[d].manifest.key = dirs[d].manifest.key
<1>1. TypeInv /\ WholeInv /\ IdentityInv /\ [Next]_vars => [Stable]_vars
  BY IdentityStep DEF Kin
<1>2. [][Stable]_vars => IdentityStable
  BY DEF IdentityStable
<1> HIDE DEF Stable
<1> QED BY <1>1, <1>2, TypeInvariant, WholeInvariant, IdentityInvariant, PTL DEF Spec

-----------------------------------------------------------------------------
\* Plaintext that a killed process left behind is never touched by another
\* call: TempDir creates exclusively and removes only what it created.
THEOREM LeftoversUntouched == Spec => LeftoversPreserved
<1> DEFINE Preserved ==
      \A path \in Paths :
         runtime[path] # None /\ ~Owned(path) /\ runtime'[path] # runtime[path]
            => Leftover(path) \/ PowerLoss
<1>1. ASSUME TypeInv, Next PROVE Preserved
  <2>1. CASE \E p \in Procs : ProcessStep(p)
    BY <1>1, <2>1, OwnHome DEF Owned
  <2>2. ASSUME NEW path \in Paths, Leftover(path) PROVE Preserved
    <3>1. \A other \in Paths \ {path} : runtime'[other] = runtime[other]
      BY <1>1, <2>2 DEF TypeInv, TypeOK, Leftover, OrphanEdits, OrphanExits, Recover
    <3> QED BY <2>2, <3>1
  <2>3. CASE PowerLoss
    BY <2>3
  <2> QED BY <1>1, <2>1, <2>2, <2>3, NextCases DEF ProcessStep
<1>2. TypeInv /\ [Next]_vars => [Preserved]_vars
  BY <1>1
<1>3. [][Preserved]_vars => LeftoversPreserved
  BY DEF LeftoversPreserved
<1> HIDE DEF Preserved
<1> QED BY <1>2, <1>3, TypeInvariant, PTL DEF Spec

=============================================================================
