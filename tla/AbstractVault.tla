---------------------------- MODULE AbstractVault ----------------------------
(***************************************************************************)
(* What the profile store promises its callers, without the steps it takes *)
(* (README.md and docs/ARCHITECTURE.md; the operations are those of        *)
(* src/src/store.rs).  A profile has an identity, a password and contents. *)
(* Only the holder of a profile may change it.  It changes the password or *)
(* adds to the contents, never both at once, and never the identity.  What *)
(* a power loss falls back to is a version the profile had, and once a new *)
(* password is confirmed it is no version older than that password.        *)
(***************************************************************************)
CONSTANTS Profiles, Holders, Ids, Secrets, Work, LosesPower, None

Versions == [id: Ids, password: Secrets, contents: SUBSET Work]

VARIABLES
    profile,   \* profile -> its present version, or None
    fallback,  \* profile -> what it may be after a power loss
    holder     \* profile -> who has it unlocked

vars == <<profile, fallback, holder>>

TypeOK ==
    /\ profile  \in [Profiles -> Versions \cup {None}]
    /\ fallback \in [Profiles -> SUBSET (Versions \cup {None})]
    /\ holder   \in [Profiles -> Holders \cup {None}]

Init ==
    /\ profile  = [d \in Profiles |-> None]
    /\ fallback = [d \in Profiles |-> {None}]
    /\ holder   = [d \in Profiles |-> None]

\* Versions accumulate until a confirmation or a power loss settles them.
Become(d, version) ==
    /\ profile'  = [profile EXCEPT ![d] = version]
    /\ fallback' = [fallback EXCEPT ![d] =
                      IF LosesPower THEN @ \cup {version} ELSE {version}]

Create(d) ==
    /\ profile[d] = None
    /\ \E id \in Ids, password \in Secrets :
         /\ \A other \in Profiles : \A version \in fallback[other] :
              version # None => version.id # id
         /\ Become(d, [id |-> id, password |-> password, contents |-> {}])
    /\ UNCHANGED holder

Open(d, c) ==
    /\ profile[d] # None
    /\ holder[d] = None
    /\ holder' = [holder EXCEPT ![d] = c]
    /\ UNCHANGED <<profile, fallback>>

ChangePassword(d) ==
    /\ holder[d] # None
    /\ \E password \in Secrets :
         Become(d, [profile[d] EXCEPT !.password = password])
    /\ UNCHANGED holder

\* From here on a power loss does not bring an older password back.
ConfirmPassword(d) ==
    /\ holder[d] # None
    /\ fallback' = [fallback EXCEPT ![d] = {profile[d]} \cup (@ \cap {None})]
    /\ UNCHANGED <<profile, holder>>

Save(d) ==
    /\ holder[d] # None
    /\ \E contents \in SUBSET Work :
         /\ profile[d].contents \subseteq contents
         /\ Become(d, [profile[d] EXCEPT !.contents = contents])
    /\ UNCHANGED holder

\* The call ends or its process dies.
Close(d) ==
    /\ holder[d] # None
    /\ holder' = [holder EXCEPT ![d] = None]
    /\ UNCHANGED <<profile, fallback>>

PowerLoss ==
    /\ LosesPower
    /\ profile' \in [Profiles -> UNION {fallback[d] : d \in Profiles}]
    /\ \A d \in Profiles : profile'[d] \in fallback[d]
    /\ fallback' = [d \in Profiles |-> {profile'[d]}]
    /\ holder'   = [d \in Profiles |-> None]

Next ==
    \/ \E d \in Profiles :
         \/ Create(d)
         \/ \E c \in Holders : Open(d, c)
         \/ ChangePassword(d) \/ ConfirmPassword(d) \/ Save(d)
         \/ Close(d)
    \/ PowerLoss

Spec == Init /\ [][Next]_vars
=============================================================================
