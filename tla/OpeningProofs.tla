---------------------------- MODULE OpeningProofs ----------------------------
(***************************************************************************)
(* Proofs about Opening: the associated data determines the header, and    *)
(* what follows from it for every storage, any number of profiles and      *)
(* invocations, and every list of candidates.                              *)
(***************************************************************************)
EXTENDS Opening, SequenceTheorems, TLAPS

\* Two concatenations agree whose first parts have one length: so do the parts.
LEMMA SameFront ==
    ASSUME NEW a \in Text, NEW b \in Text, NEW s \in Text, NEW t \in Text,
           Len(a) = Len(b), a \o s = b \o t
    PROVE  a = b /\ s = t
<1>1. Len(s) = Len(t)
  <2>1. Len(a \o s) = Len(a) + Len(s) /\ Len(b \o t) = Len(b) + Len(t)
    BY ConcatProperties DEF Text
  <2> QED BY <2>1 DEF Text
<1>2. ASSUME NEW i \in 1 .. Len(a) PROVE a[i] = b[i]
  BY <1>2, ConcatProperties DEF Text
<1>3. ASSUME NEW i \in 1 .. Len(s) PROVE s[i] = t[i]
  <2>1. Len(a) + i \in 1 .. Len(a) + Len(s) /\ ~(Len(a) + i <= Len(a))
        /\ (Len(a) + i) - Len(a) = i
    BY DEF Text
  <2> DEFINE k == Len(a) + i
  <2>2. (a \o s)[Len(a) + i] = s[i]
    <3>1. (a \o s)[k] = IF k <= Len(a) THEN a[k] ELSE s[k - Len(a)]
      <4>1. k \in 1 .. Len(a) + Len(s)
        BY <2>1
      <4> HIDE DEF k
      <4> QED BY <4>1, ConcatProperties DEF Text
    <3> QED BY <2>1, <3>1
  <2>3. Len(b) + i \in 1 .. Len(b) + Len(t) /\ ~(Len(b) + i <= Len(b))
        /\ (Len(b) + i) - Len(b) = i
    BY <1>1, <2>1
  <2>4. (b \o t)[Len(b) + i] = t[i]
    BY <2>3, ConcatProperties DEF Text
  <2> QED BY <2>2, <2>4
<1> QED BY <1>1, <1>2, <1>3, SeqEqual DEF Text

Agree(x1, y1, x2, y2) == x1 = y1 /\ x2 = y2

\* Field keeps two values apart, whatever follows them: its length comes first.
LEMMA FieldsAgree ==
    ASSUME NEW a \in Text, NEW b \in Text, NEW s \in Text, NEW t \in Text,
           Field(a) \o s = Field(b) \o t
    PROVE  Agree(a, b, s, t)
<1>1. /\ <<Len(a)>> \in Text /\ <<Len(b)>> \in Text
      /\ Field(a) \in Text /\ Field(b) \in Text
  BY DEF Text, Field
<1>2. Field(a) = <<Len(a)>> \o a /\ Field(b) = <<Len(b)>> \o b
  BY DEF Field
<1>3. <<Len(a)>> \o (a \o s) = <<Len(b)>> \o (b \o t)
  <2>1. (<<Len(a)>> \o a) \o s = <<Len(a)>> \o (a \o s)
    BY SMTT(30), <1>1, ConcatAssociative DEF Text
  <2>2. (<<Len(b)>> \o b) \o t = <<Len(b)>> \o (b \o t)
    BY SMTT(30), <1>1, ConcatAssociative DEF Text
  <2> QED BY <1>2, <2>1, <2>2
<1>4. <<Len(a)>> = <<Len(b)>> /\ a \o s = b \o t
  <2>1. a \o s \in Text /\ b \o t \in Text
    BY ConcatProperties DEF Text
  <2>2. Len(<<Len(a)>>) = Len(<<Len(b)>>)
    OBVIOUS
  <2> DEFINE f == <<Len(a)>>  g == <<Len(b)>>  u == a \o s  v == b \o t
  <2>3. /\ f \in Text /\ g \in Text /\ u \in Text /\ v \in Text
        /\ Len(f) = Len(g) /\ f \o u = g \o v
    BY <1>1, <1>3, <2>1, <2>2
  <2>4. f = g /\ u = v
    <3> HIDE DEF f, g, u, v
    <3> QED BY <2>3, SameFront
  <2> QED BY <2>4
<1>5. Len(a) = Len(b)
  BY <1>4
<1>6. a = b /\ s = t
  BY <1>4, <1>5, SameFront
<1> QED BY <1>6 DEF Agree

\* A concatenation of texts, a field and a tuple of integers are texts.
LEMMA TextsClosed ==
    /\ \A s, t \in Text : s \o t \in Text
    /\ \A s \in Text : Len(s) \in Nat
    /\ \A s \in Text : Field(s) \in Text
    /\ \A n \in Nat : <<n>> \in Text
    /\ \A n, m, k, l \in Nat : <<n, m, k, l>> \in Text
<1>1. ASSUME NEW s \in Text, NEW t \in Text PROVE s \o t \in Text
  BY ConcatProperties DEF Text
<1>2. ASSUME NEW n \in Nat PROVE <<n>> \in Text
  BY DEF Text
<1>3. ASSUME NEW n \in Nat, NEW m \in Nat, NEW k \in Nat, NEW l \in Nat
      PROVE  <<n, m, k, l>> \in Text
  BY DEF Text
<1>4. ASSUME NEW s \in Text PROVE Field(s) \in Text
  <2>1. Len(s) \in Nat
    BY DEF Text
  <2> QED BY <1>1, <1>2, <2>1 DEF Field
<1>5. ASSUME NEW s \in Text PROVE Len(s) \in Nat
  BY DEF Text
<1> QED BY <1>1, <1>2, <1>3, <1>4, <1>5

\* The associated data of a header, cut after each field.
Rest6(h) == <<h.kdf.memory, h.kdf.time, h.kdf.parallelism, h.kdf.output>>
              \o Field(h.format)
Rest5(h) == Field(h.kdf.salt) \o Rest6(h)
Rest4(h) == Field(h.kdf.algorithm) \o Rest5(h)
Rest3(h) == <<h.createdAt>> \o Rest4(h)
Rest2(h) == Field(h.username) \o Rest3(h)
Rest1(h) == Field(h.id) \o Rest2(h)

LEMMA RestsAreTexts ==
    ASSUME NEW h \in Headers
    PROVE  /\ Rest1(h) \in Text /\ Rest2(h) \in Text /\ Rest3(h) \in Text
           /\ Rest4(h) \in Text /\ Rest5(h) \in Text /\ Rest6(h) \in Text
<1>1. /\ h.version \in Nat /\ h.id \in Text /\ h.username \in Text
      /\ h.createdAt \in Nat /\ h.kdf \in Kdfs /\ h.format \in Text
  BY DEF Headers
<1>2. /\ h.kdf.algorithm \in Text /\ h.kdf.salt \in Text /\ h.kdf.memory \in Nat
      /\ h.kdf.time \in Nat /\ h.kdf.parallelism \in Nat /\ h.kdf.output \in Nat
  BY <1>1 DEF Kdfs
<1>6. Rest6(h) \in Text
  BY <1>1, <1>2, TextsClosed DEF Rest6
<1>5. Rest5(h) \in Text
  BY <1>2, <1>6, TextsClosed DEF Rest5
<1>4. Rest4(h) \in Text
  BY <1>2, <1>5, TextsClosed DEF Rest4
<1>3. Rest3(h) \in Text
  BY <1>1, <1>4, TextsClosed DEF Rest3
<1>7. Rest2(h) \in Text
  BY <1>1, <1>3, TextsClosed DEF Rest2
<1>8. Rest1(h) \in Text
  BY <1>1, <1>7, TextsClosed DEF Rest1
<1> QED BY <1>3, <1>4, <1>5, <1>6, <1>7, <1>8

\* An integer in front, and four of them, are kept apart too.
LEMMA IntegerAgrees ==
    ASSUME NEW x1 \in Nat, NEW y1 \in Nat, NEW x2 \in Text, NEW y2 \in Text,
           <<x1>> \o x2 = <<y1>> \o y2
    PROVE  Agree(x1, y1, x2, y2)
<1> DEFINE u == <<x1>>  v == <<y1>>
<1>1. u \in Text /\ v \in Text /\ Len(u) = Len(v) /\ u \o x2 = v \o y2
  BY TextsClosed
<1>2. u = v /\ x2 = y2
  <2> HIDE DEF u, v
  <2> QED BY <1>1, SameFront
<1> QED BY <1>2 DEF Agree

LEMMA FourIntegersAgree ==
    ASSUME NEW x1 \in Nat, NEW x2 \in Nat, NEW x3 \in Nat, NEW x4 \in Nat,
           NEW y1 \in Nat, NEW y2 \in Nat, NEW y3 \in Nat, NEW y4 \in Nat,
           NEW x5 \in Text, NEW y5 \in Text,
           <<x1, x2, x3, x4>> \o x5 = <<y1, y2, y3, y4>> \o y5
    PROVE  Agree(<<x1, x2, x3, x4>>, <<y1, y2, y3, y4>>, x5, y5)
<1> DEFINE u == <<x1, x2, x3, x4>>  v == <<y1, y2, y3, y4>>
<1>1. u \in Text /\ v \in Text /\ Len(u) = Len(v) /\ u \o x5 = v \o y5
  BY TextsClosed
<1>2. u = v /\ x5 = y5
  <2> HIDE DEF u, v
  <2> QED BY <1>1, SameFront
<1> QED BY <1>2 DEF Agree

\* associated_data: two headers with the same associated data are the same, so
\* a wrapped key opens under no header but the one it was wrapped with.
THEOREM AssociatedDataInjective ==
    ASSUME NEW h \in Headers, NEW g \in Headers,
           AssociatedData(h) = AssociatedData(g)
    PROVE  h = g
<1>1. /\ h.version \in Nat /\ h.id \in Text /\ h.username \in Text
      /\ h.createdAt \in Nat /\ h.kdf \in Kdfs /\ h.format \in Text
      /\ h.kdf.algorithm \in Text /\ h.kdf.salt \in Text /\ h.kdf.memory \in Nat
      /\ h.kdf.time \in Nat /\ h.kdf.parallelism \in Nat /\ h.kdf.output \in Nat
  BY DEF Headers, Kdfs
<1>2. /\ g.version \in Nat /\ g.id \in Text /\ g.username \in Text
      /\ g.createdAt \in Nat /\ g.kdf \in Kdfs /\ g.format \in Text
      /\ g.kdf.algorithm \in Text /\ g.kdf.salt \in Text /\ g.kdf.memory \in Nat
      /\ g.kdf.time \in Nat /\ g.kdf.parallelism \in Nat /\ g.kdf.output \in Nat
  BY DEF Headers, Kdfs
<1>3. <<h.version>> \o Rest1(h) = <<g.version>> \o Rest1(g)
  BY DEF AssociatedData, Rest1, Rest2, Rest3, Rest4, Rest5, Rest6
<1>4. h.version = g.version /\ Rest1(h) = Rest1(g)
  <2> DEFINE a1 == h.version  b1 == g.version  s1 == Rest1(h)  t1 == Rest1(g)
  <2>1. a1 \in Nat /\ b1 \in Nat /\ s1 \in Text /\ t1 \in Text
    BY <1>1, <1>2, RestsAreTexts
  <2>2. <<a1>> \o s1 = <<b1>> \o t1
    BY <1>3
  <2>3. Agree(a1, b1, s1, t1)
    <3> HIDE DEF a1, b1, s1, t1
    <3> QED BY <2>1, <2>2, IntegerAgrees
  <2> QED BY <2>3 DEF Agree
<1>5. h.id = g.id /\ Rest2(h) = Rest2(g)
  <2> DEFINE a1 == h.id  b1 == g.id  s1 == Rest2(h)  t1 == Rest2(g)
  <2>1. a1 \in Text /\ b1 \in Text /\ s1 \in Text /\ t1 \in Text
    BY <1>1, <1>2, RestsAreTexts
  <2>2. Field(a1) \o s1 = Field(b1) \o t1
    BY <1>4 DEF Rest1
  <2>3. Agree(a1, b1, s1, t1)
    <3> HIDE DEF a1, b1, s1, t1
    <3> QED BY <2>1, <2>2, FieldsAgree
  <2> QED BY <2>3 DEF Agree
<1>6. h.username = g.username /\ Rest3(h) = Rest3(g)
  <2> DEFINE a1 == h.username  b1 == g.username  s1 == Rest3(h)  t1 == Rest3(g)
  <2>1. a1 \in Text /\ b1 \in Text /\ s1 \in Text /\ t1 \in Text
    BY <1>1, <1>2, RestsAreTexts
  <2>2. Field(a1) \o s1 = Field(b1) \o t1
    BY <1>5 DEF Rest2
  <2>3. Agree(a1, b1, s1, t1)
    <3> HIDE DEF a1, b1, s1, t1
    <3> QED BY <2>1, <2>2, FieldsAgree
  <2> QED BY <2>3 DEF Agree
<1>7. h.createdAt = g.createdAt /\ Rest4(h) = Rest4(g)
  <2> DEFINE a1 == h.createdAt  b1 == g.createdAt  s1 == Rest4(h)  t1 == Rest4(g)
  <2>1. a1 \in Nat /\ b1 \in Nat /\ s1 \in Text /\ t1 \in Text
    BY <1>1, <1>2, RestsAreTexts
  <2>2. <<a1>> \o s1 = <<b1>> \o t1
    BY <1>6 DEF Rest3
  <2>3. Agree(a1, b1, s1, t1)
    <3> HIDE DEF a1, b1, s1, t1
    <3> QED BY <2>1, <2>2, IntegerAgrees
  <2> QED BY <2>3 DEF Agree
<1>8. h.kdf.algorithm = g.kdf.algorithm /\ Rest5(h) = Rest5(g)
  <2> DEFINE a1 == h.kdf.algorithm  b1 == g.kdf.algorithm  s1 == Rest5(h)  t1 == Rest5(g)
  <2>1. a1 \in Text /\ b1 \in Text /\ s1 \in Text /\ t1 \in Text
    BY <1>1, <1>2, RestsAreTexts
  <2>2. Field(a1) \o s1 = Field(b1) \o t1
    BY <1>7 DEF Rest4
  <2>3. Agree(a1, b1, s1, t1)
    <3> HIDE DEF a1, b1, s1, t1
    <3> QED BY <2>1, <2>2, FieldsAgree
  <2> QED BY <2>3 DEF Agree
<1>9. h.kdf.salt = g.kdf.salt /\ Rest6(h) = Rest6(g)
  <2> DEFINE a1 == h.kdf.salt  b1 == g.kdf.salt  s1 == Rest6(h)  t1 == Rest6(g)
  <2>1. a1 \in Text /\ b1 \in Text /\ s1 \in Text /\ t1 \in Text
    BY <1>1, <1>2, RestsAreTexts
  <2>2. Field(a1) \o s1 = Field(b1) \o t1
    BY <1>8 DEF Rest5
  <2>3. Agree(a1, b1, s1, t1)
    <3> HIDE DEF a1, b1, s1, t1
    <3> QED BY <2>1, <2>2, FieldsAgree
  <2> QED BY <2>3 DEF Agree
<1>10. /\ h.kdf.memory = g.kdf.memory /\ h.kdf.time = g.kdf.time
       /\ h.kdf.parallelism = g.kdf.parallelism /\ h.kdf.output = g.kdf.output
       /\ Field(h.format) = Field(g.format)
  <2> DEFINE a1 == h.kdf.memory       b1 == h.kdf.time
             c1 == h.kdf.parallelism  d1 == h.kdf.output
             a2 == g.kdf.memory       b2 == g.kdf.time
             c2 == g.kdf.parallelism  d2 == g.kdf.output
             s1 == Field(h.format)    t1 == Field(g.format)
  <2>1. /\ a1 \in Nat /\ b1 \in Nat /\ c1 \in Nat /\ d1 \in Nat
        /\ a2 \in Nat /\ b2 \in Nat /\ c2 \in Nat /\ d2 \in Nat
    BY <1>1, <1>2
  <2>2. s1 \in Text /\ t1 \in Text
    BY <1>1, <1>2, TextsClosed
  <2>3. <<a1, b1, c1, d1>> \o s1 = <<a2, b2, c2, d2>> \o t1
    BY <1>9 DEF Rest6
  <2>4. Agree(<<a1, b1, c1, d1>>, <<a2, b2, c2, d2>>, s1, t1)
    <3> HIDE DEF a1, b1, c1, d1, a2, b2, c2, d2, s1, t1
    <3> QED BY <2>1, <2>2, <2>3, FourIntegersAgree
  <2>5. a1 = a2 /\ b1 = b2 /\ c1 = c2 /\ d1 = d2 /\ s1 = t1
    <3> HIDE DEF a1, b1, c1, d1, a2, b2, c2, d2, s1, t1
    <3> QED BY <2>4 DEF Agree
  <2> QED BY <2>5
<1>11. h.format = g.format
  <2> DEFINE a1 == Len(h.format)  b1 == Len(g.format)  s1 == h.format  t1 == g.format
  <2>1. a1 \in Nat /\ b1 \in Nat /\ s1 \in Text /\ t1 \in Text
    BY <1>1, <1>2, TextsClosed
  <2>2. <<a1>> \o s1 = <<b1>> \o t1
    BY <1>10 DEF Field
  <2>3. Agree(a1, b1, s1, t1)
    <3> HIDE DEF a1, b1, s1, t1
    <3> QED BY <2>1, <2>2, IntegerAgrees
  <2> QED BY <2>3 DEF Agree
<1>12. h.kdf = g.kdf
  BY <1>8, <1>9, <1>10 DEF Headers, Kdfs
<1> QED BY <1>4, <1>5, <1>6, <1>7, <1>11, <1>12 DEF Headers

-----------------------------------------------------------------------------
(***************************************************************************)
(* The inductive invariant.                                                *)
(***************************************************************************)
\* What add_user and rotate_password write; all manifests of a profile agree.
WellWritten(record) ==
    /\ record.manifest.wrapped.sealed =
          [key   |-> record.key,
           under |-> DeriveKey(record.password, record.manifest.header.kdf),
           aad   |-> AssociatedData(record.manifest.header)]
    /\ Validate(record.manifest)
    /\ Derivable(record.manifest.header.kdf)
    /\ Fold[record.manifest.header.username] = record.profile
    /\ disk[record.profile] # None
Related(one, other) ==
    one.profile = other.profile =>
        /\ one.manifest.header.id = other.manifest.header.id
        /\ one.key = other.key
Written ==
    /\ \A record \in written : WellWritten(record)
    /\ \A one, other \in written : Related(one, other)

\* The storage makes no wrapped key of its own.
Sealed(sealed) ==
    \/ sealed = Damaged
    \/ \E record \in written : record.manifest.wrapped.sealed = sealed
Stored == \A profile \in Profiles :
              disk[profile] # None => Sealed(disk[profile].wrapped.sealed)

\* How far a selection is, as long as nobody has interfered: the candidates
\* before the present one are of no use, and stay so.
Useless(path) == path \notin Absolute \/ root[path] = "unfit"
Passed(env, i) == \A j \in 1 .. i - 1 : Useless(Candidates[env][j])
Selected(p) ==
    pc[p] # "idle" =>
        /\ pc[p] # "look" => Path(p) \in Absolute
        /\ ~disturbed =>
              /\ Passed(call[p].env, attempt[p])
              /\ pc[p] = "create" => root[Path(p)] # "unfit"
              /\ pc[p] = "check" => root[Path(p)] # "absent"
              /\ pc[p] \in {"resolve", "home", "open"} => root[Path(p)] = "private"

\* Where the runtime directories of the sessions so far are.
Placed(h) ==
    /\ \E record \in written :
          record.profile = h.profile /\ record.manifest.header.id = h.id
    /\ \E i \in 1 .. Len(Candidates[h.env]) :
          /\ h.root = Candidates[h.env][i]
          /\ ~disturbed => /\ Passed(h.env, i)
                           /\ h.root \in Absolute
                           /\ root[h.root] = "private"

IInv ==
    /\ TypeOK
    /\ Written
    /\ Stored
    /\ OpenedAsWritten
    /\ \A p \in Procs : Selected(p)
    /\ \A h \in homes : Placed(h)

-----------------------------------------------------------------------------
LEMMA AssociatedDataIsText ==
    ASSUME NEW h \in Headers PROVE AssociatedData(h) \in Text
<1>1. h.version \in Nat
  BY DEF Headers
<1>2. AssociatedData(h) = <<h.version>> \o Rest1(h)
  BY DEF AssociatedData, Rest1, Rest2, Rest3, Rest4, Rest5, Rest6
<1> QED BY <1>1, <1>2, RestsAreTexts, TextsClosed

LEMMA ManifestType ==
    ASSUME NEW header \in Headers, NEW k \in Keys, NEW password \in Passwords
    PROVE  Manifest(header, k, password) \in Manifests
<1>1. header.kdf \in Kdfs
  BY DEF Headers
<1>2. DeriveKey(password, header.kdf) \in Derived
  BY <1>1 DEF DeriveKey, Derived
<1>3. WrapDataKey(k, DeriveKey(password, header.kdf), AssociatedData(header)) \in Wrapped
  BY <1>2, AssociatedDataIsText DEF WrapDataKey, Wrapped, Sealings
<1> QED BY <1>3 DEF Manifest, Manifests

LEMMA DefaultKdfType == \A salt \in Salts : DefaultKdf(salt) \in Kdfs
  BY TextAssumption DEF DefaultKdf, Kdfs

LEMMA DefaultKdfDerivable == \A salt \in Salts : Derivable(DefaultKdf(salt))
<1>1. /\ 64 * 1024 \in 16 * 1024 .. 256 * 1024
      /\ 3 \in 1 .. 10 /\ 1 \in 1 .. 16
  OBVIOUS
<1> QED BY <1>1 DEF DefaultKdf, Derivable, ValidParameters

LEMMA HeaderType ==
    ASSUME NEW name \in DOMAIN Fold, NEW id \in Uuids, NEW time \in Times,
           NEW salt \in Salts
    PROVE  NewHeader(id, name, time, DefaultKdf(salt)) \in Headers
  BY FoldAssumption, TextAssumption, StorageAssumption, DefaultKdfType
     DEF NewHeader, Headers

\* Whoever authenticates a manifest holds what was written with it.
LEMMA AuthenticatedIsWritten ==
    ASSUME TypeOK, Written, Stored,
           NEW profile \in Profiles, NEW password \in Passwords,
           disk[profile] # None, Authenticates(disk[profile], profile, password)
    PROVE  \E record \in written :
              /\ record.manifest.header = disk[profile].header
              /\ record.key      = disk[profile].wrapped.sealed.key
              /\ record.password = password
              /\ record.profile  = profile
<1> DEFINE m == disk[profile]
<1>1. m \in Manifests /\ m.header \in Headers
  BY DEF TypeOK, Manifests
<1>2. m.wrapped.sealed # Damaged
  BY DEF Authenticates, Unwraps
<1>3. PICK record \in written : record.manifest.wrapped.sealed = m.wrapped.sealed
  BY <1>2 DEF Stored, Sealed
<1>4. /\ m.wrapped.sealed.under = DeriveKey(password, m.header.kdf)
      /\ m.wrapped.sealed.aad = AssociatedData(m.header)
      /\ Fold[m.header.username] = profile
  BY DEF Authenticates, Unwraps
<1>5. /\ m.wrapped.sealed.key = record.key
      /\ m.wrapped.sealed.under = DeriveKey(record.password, record.manifest.header.kdf)
      /\ m.wrapped.sealed.aad = AssociatedData(record.manifest.header)
      /\ Fold[record.manifest.header.username] = record.profile
  <2>1. WellWritten(record)
    BY DEF Written
  <2>2. /\ record.manifest.wrapped.sealed.key = record.key
        /\ record.manifest.wrapped.sealed.under =
              DeriveKey(record.password, record.manifest.header.kdf)
        /\ record.manifest.wrapped.sealed.aad = AssociatedData(record.manifest.header)
        /\ Fold[record.manifest.header.username] = record.profile
    BY <2>1 DEF WellWritten
  <2> QED BY <1>3, <2>2
<1>6. record.manifest.header \in Headers
  BY DEF TypeOK, Records, Manifests
<1>7. record.manifest.header = m.header
  BY <1>1, <1>4, <1>5, <1>6, AssociatedDataInjective
<1>8. record.password = password
  BY <1>4, <1>5 DEF DeriveKey
<1> QED BY <1>4, <1>5, <1>7, <1>8

\* A wrapping opens for one manifest, one profile and one password: whatever else
\* it is combined with is refused (key_wrap.rs, manifest.rs).  Who reads two
\* manifests with the same wrapped key, and can open both, has read one.
THEOREM OneManifestPerWrapping ==
    ASSUME NEW m \in Manifests, NEW n \in Manifests,
           m.wrapped.sealed = n.wrapped.sealed,
           NEW profile, NEW password, Authenticates(m, profile, password),
           NEW other, NEW guess, Authenticates(n, other, guess)
    PROVE  m = n /\ profile = other /\ password = guess
<1>1. /\ m.header \in Headers /\ m.wrapped \in Wrapped
      /\ n.header \in Headers /\ n.wrapped \in Wrapped
      /\ m = [header |-> m.header, wrapped |-> m.wrapped]
      /\ n = [header |-> n.header, wrapped |-> n.wrapped]
  BY DEF Manifests
<1>2. AssociatedData(m.header) = AssociatedData(n.header)
  BY DEF Authenticates, Unwraps
<1>3. m.header = n.header
  BY <1>1, <1>2, AssociatedDataInjective
<1>4. /\ m.wrapped = [algorithm |-> m.wrapped.algorithm, sealed |-> m.wrapped.sealed]
      /\ n.wrapped = [algorithm |-> n.wrapped.algorithm, sealed |-> n.wrapped.sealed]
      /\ m.wrapped.algorithm = n.wrapped.algorithm
  BY <1>1 DEF Wrapped, Authenticates, Validate
<1>5. DeriveKey(password, m.header.kdf) = DeriveKey(guess, m.header.kdf)
  BY <1>3 DEF Authenticates, Unwraps
<1>6. password = guess
  BY <1>5 DEF DeriveKey
<1> QED BY <1>1, <1>3, <1>4, <1>6 DEF Authenticates

-----------------------------------------------------------------------------
(***************************************************************************)
(* Types, in three parts: the storage, the roots and the processes.        *)
(***************************************************************************)
StoreOK ==
    /\ disk    \in [Profiles -> Manifests \cup {None}]
    /\ altered \in 0 .. MaxAlterations
    /\ written \in SUBSET Records
RootOK ==
    /\ root      \in [Absolute -> Kinds]
    /\ disturbed \in BOOLEAN
    /\ homes     \in SUBSET Homes
Placing(p) ==
    pc[p] # "idle" =>
        /\ call[p] # None
        /\ opened[p] # None
        /\ attempt[p] \in 1 .. Len(Candidates[call[p].env])
ProcOK ==
    /\ pc      \in [Procs -> Steps]
    /\ call    \in [Procs -> Calls \cup {None}]
    /\ opened  \in [Procs -> Manifests \cup {None}]
    /\ key     \in [Procs -> Keys \cup {None}]
    /\ attempt \in [Procs -> Nat]
    /\ \A p \in Procs : Placing(p)

LEMMA TypeParts == TypeOK <=> StoreOK /\ RootOK /\ ProcOK
  BY DEF TypeOK, StoreOK, RootOK, ProcOK, Placing

LEMMA CandidatesLists ==
    ASSUME NEW env \in Environments
    PROVE  /\ Len(Candidates[env]) \in Nat
           /\ 1 \in 1 .. Len(Candidates[env])
           /\ \A i \in 1 .. Len(Candidates[env]) : Candidates[env][i] \in Roots
<1>1. Candidates[env] \in Seq(Roots) /\ Candidates[env] # <<>>
  BY RootsAssumption
<1> QED BY <1>1

LEMMA PathType ==
    ASSUME ProcOK, NEW p \in Procs, pc[p] # "idle"
    PROVE  /\ call[p] \in Calls
           /\ call[p].env \in Environments /\ call[p].profile \in Profiles
           /\ attempt[p] \in 1 .. Len(Candidates[call[p].env])
           /\ Path(p) \in Roots
<1>1. call[p] \in Calls /\ attempt[p] \in 1 .. Len(Candidates[call[p].env])
  BY DEF ProcOK, Placing
<1>2. call[p].env \in Environments /\ call[p].profile \in Profiles
  BY <1>1 DEF Calls
<1> QED BY <1>1, <1>2, CandidatesLists DEF Path

\* The ways in which a process in a call moves.
Moves(p) ==
    \/ \E step \in Steps \ {"idle"} : Goto(p, step)
    \/ TryNext(p)
    \/ End(p)

LEMMA MovesType ==
    ASSUME ProcOK, NEW p \in Procs, pc[p] # "idle", Moves(p)
    PROVE  ProcOK'
<1>1. CASE \E step \in Steps \ {"idle"} : Goto(p, step)
  <2>1. PICK step \in Steps \ {"idle"} : Goto(p, step)
    BY <1>1
  <2>2. /\ pc' = [pc EXCEPT ![p] = step] /\ call' = call /\ opened' = opened
        /\ key' = key /\ attempt' = attempt
    BY <2>1 DEF Goto, local
  <2>3. ASSUME NEW q \in Procs PROVE Placing(q)'
    <3>1. pc'[q] # "idle" => pc[q] # "idle"
      BY <2>2 DEF ProcOK
    <3> QED BY <2>2, <3>1 DEF ProcOK, Placing
  <2> QED BY <2>2, <2>3 DEF ProcOK
<1>2. CASE TryNext(p)
  <2>1. /\ pc' = [pc EXCEPT ![p] = "look"] /\ call' = call /\ opened' = opened
        /\ key' = key /\ attempt' = [attempt EXCEPT ![p] = attempt[p] + 1]
        /\ attempt[p] < Len(Candidates[call[p].env])
    BY <1>2 DEF TryNext, local
  <2>2. /\ attempt[p] \in 1 .. Len(Candidates[call[p].env])
        /\ Len(Candidates[call[p].env]) \in Nat
    BY PathType, CandidatesLists
  <2>3. ASSUME NEW q \in Procs PROVE Placing(q)'
    <3>1. CASE q = p
      <4>1. attempt'[p] \in 1 .. Len(Candidates[call[p].env])
        BY <2>1, <2>2 DEF ProcOK
      <4> QED BY <2>1, <3>1, <4>1 DEF ProcOK, Placing
    <3>2. CASE q # p
      BY <2>1, <3>2 DEF ProcOK, Placing
    <3> QED BY <3>1, <3>2
  <2>4. "look" \in Steps
    BY DEF Steps, Selecting
  <2>5. attempt[p] + 1 \in Nat
    BY <2>2
  <2> QED BY <2>1, <2>3, <2>4, <2>5 DEF ProcOK
<1>3. CASE End(p)
  <2>1. /\ pc' = [pc EXCEPT ![p] = "idle"] /\ call' = [call EXCEPT ![p] = None]
        /\ opened' = [opened EXCEPT ![p] = None] /\ key' = [key EXCEPT ![p] = None]
        /\ attempt' = [attempt EXCEPT ![p] = 0]
    BY <1>3 DEF End
  <2>2. ASSUME NEW q \in Procs PROVE Placing(q)'
    <3>1. CASE q = p
      BY <2>1, <3>1 DEF ProcOK, Placing
    <3>2. CASE q # p
      BY <2>1, <3>2 DEF ProcOK, Placing
    <3> QED BY <3>1, <3>2
  <2>3. "idle" \in Steps
    BY DEF Steps
  <2> QED BY <2>1, <2>2, <2>3 DEF ProcOK
<1> QED BY <1>1, <1>2, <1>3 DEF Moves

-----------------------------------------------------------------------------
(***************************************************************************)
(* The steps of a process in a call, in three kinds: those that leave the  *)
(* roots alone, Create, and MakeHome.                                      *)
(***************************************************************************)
Quiet(p) ==
    \/ Relative(p) \/ Look(p) \/ Check(p) \/ Resolve(p)
    \/ CallFails(p) \/ HomeFails(p) \/ Close(p)

LEMMA QuietShape ==
    ASSUME NEW p \in Procs, Quiet(p)
    PROVE  /\ pc[p] # "idle" /\ Moves(p)
           /\ root' = root /\ homes' = homes
           /\ disturbed' = disturbed \/ disturbed' = TRUE
           /\ UNCHANGED store
<1>1. Reject(p) => Moves(p)
  BY DEF Reject, NoneLeft, Moves
<1>2. "create" \in Steps \ {"idle"} /\ "check" \in Steps \ {"idle"}
      /\ "resolve" \in Steps \ {"idle"} /\ "home" \in Steps \ {"idle"}
  BY DEF Steps, Selecting
<1>3. CASE Relative(p)
  BY <1>1, <1>3 DEF Relative
<1>4. CASE Look(p)
  BY <1>2, <1>4 DEF Look, Moves
<1>5. CASE Check(p)
  BY <1>1, <1>2, <1>5 DEF Check, Moves
<1>6. CASE Resolve(p)
  BY <1>1, <1>2, <1>6 DEF Resolve, Moves
<1>7. CASE CallFails(p)
  BY <1>1, <1>7 DEF CallFails, Selecting
<1>8. CASE HomeFails(p)
  BY <1>8 DEF HomeFails, Moves
<1>9. CASE Close(p)
  BY <1>9 DEF Close, Moves
<1> QED BY <1>3, <1>4, <1>5, <1>6, <1>7, <1>8, <1>9 DEF Quiet

LEMMA CreateShape ==
    ASSUME NEW p \in Procs, Create(p)
    PROVE  pc[p] = "create" /\ Moves(p) /\ UNCHANGED <<store, disturbed, homes>>
<1>1. "check" \in Steps \ {"idle"}
  BY DEF Steps, Selecting
<1> QED BY <1>1 DEF Create, Moves

LEMMA MakeHomeShape ==
    ASSUME NEW p \in Procs, MakeHome(p)
    PROVE  pc[p] = "home" /\ Moves(p) /\ UNCHANGED <<store, root, disturbed>>
<1>1. "open" \in Steps \ {"idle"}
  BY DEF Steps
<1> QED BY <1>1 DEF MakeHome, Moves

\* Next, by what its steps leave unchanged.
LEMMA StepKinds ==
    ASSUME [Next]_vars
    PROVE  \/ \E name \in DOMAIN Fold, password \in Passwords : Add(name, password)
           \/ \E profile \in Profiles, current, new \in Passwords :
                 Rotate(profile, current, new)
           \/ \E profile \in Profiles : Alter(profile)
           \/ \E path \in Absolute : Occupy(path) \/ Remove(path)
           \/ \E p \in Procs, profile \in Profiles, password \in Passwords,
                 env \in Environments : Unlock(p, profile, password, env)
           \/ \E p \in Procs : Quiet(p) \/ Create(p) \/ MakeHome(p)
           \/ UNCHANGED vars
  BY DEF Next, Others, Store, Opens, Quiet

\* What Add and Rotate write has the types of the storage.
LEMMA RecordType ==
    ASSUME TypeOK, NEW profile \in Profiles, NEW header \in Headers,
           NEW k \in Keys, NEW password \in Passwords,
           Record(profile, Manifest(header, k, password), password, k)
    PROVE  TypeOK'
<1>1. Manifest(header, k, password) \in Manifests
  BY ManifestType
<1>2. [profile |-> profile, manifest |-> Manifest(header, k, password),
       password |-> password, key |-> k] \in Records
  BY <1>1 DEF Records
<1>3. StoreOK'
  BY <1>1, <1>2 DEF TypeOK, StoreOK, Record
<1>4. RootOK' /\ ProcOK'
  BY TypeParts DEF Record, local, RootOK, ProcOK, Placing
<1> QED BY <1>3, <1>4, TypeParts DEF TypeOK, StoreOK, RootOK, ProcOK, Placing

\* A step of Add and of Rotate is a Record of a manifest like the ones before.
LEMMA AddRecords ==
    ASSUME NEW name \in DOMAIN Fold, NEW password \in Passwords, Add(name, password)
    PROVE  \E id \in Uuids, k \in Keys, salt \in Salts, time \in Times :
              /\ NewHeader(id, name, time, DefaultKdf(salt)) \in Headers
              /\ Record(Fold[name],
                        Manifest(NewHeader(id, name, time, DefaultKdf(salt)), k, password),
                        password, k)
<1>1. PICK id \in Uuids, k \in Keys, salt \in Salts, time \in Times :
         Record(Fold[name],
                Manifest(NewHeader(id, name, time, DefaultKdf(salt)), k, password),
                password, k)
  BY DEF Add
<1>2. NewHeader(id, name, time, DefaultKdf(salt)) \in Headers
  BY HeaderType
<1> QED BY <1>1, <1>2

NewParameters(header, salt) == [header EXCEPT !.kdf = DefaultKdf(salt)]

LEMMA RotateRecords ==
    ASSUME TypeOK, NEW profile \in Profiles, NEW current \in Passwords,
           NEW new \in Passwords, Rotate(profile, current, new)
    PROVE  /\ disk[profile].wrapped.sealed.key \in Keys
           /\ disk[profile] # None
           /\ Authenticates(disk[profile], profile, current)
           /\ \E salt \in Salts :
                 /\ NewParameters(disk[profile].header, salt) \in Headers
                 /\ Record(profile,
                           Manifest(NewParameters(disk[profile].header, salt),
                                    disk[profile].wrapped.sealed.key, new),
                           new, disk[profile].wrapped.sealed.key)
<1>1. /\ disk[profile] # None
      /\ Authenticates(disk[profile], profile, current)
  BY DEF Rotate
<1>2. disk[profile] \in Manifests /\ disk[profile].header \in Headers
  BY <1>1 DEF TypeOK, Manifests
<1>3. disk[profile].wrapped.sealed # Damaged
  BY <1>1 DEF Authenticates, Unwraps
<1>4. disk[profile].wrapped.sealed.key \in Keys
  <2>1. disk[profile].wrapped.sealed \in Sealings
    BY <1>2, <1>3 DEF Manifests, Wrapped
  <2> QED BY <2>1 DEF Sealings
<1>5. PICK salt \in Salts :
         Record(profile, Rewrapped(disk[profile], salt, new), new,
                disk[profile].wrapped.sealed.key)
  BY DEF Rotate
<1>6. NewParameters(disk[profile].header, salt) \in Headers
  BY <1>2, DefaultKdfType DEF NewParameters, Headers
<1>7. Rewrapped(disk[profile], salt, new) =
         Manifest(NewParameters(disk[profile].header, salt),
                  disk[profile].wrapped.sealed.key, new)
  BY DEF Rewrapped, NewParameters
<1> QED BY <1>1, <1>4, <1>5, <1>6, <1>7

LEMMA InitType == Init => TypeOK
<1> SUFFICES ASSUME Init PROVE TypeOK
  OBVIOUS
<1>1. "idle" \in Steps /\ 0 \in 0 .. MaxAlterations /\ 0 \in Nat
  BY StorageAssumption DEF Steps
<1> QED BY <1>1 DEF Init, TypeOK

LEMMA AlterType ==
    ASSUME TypeOK, NEW profile \in Profiles, Alter(profile)
    PROVE  TypeOK'
<1>1. PICK header \in Returned \cup {record.manifest.header : record \in written},
           sealed \in {record.manifest.wrapped.sealed : record \in written} \cup {Damaged} :
         disk' = [disk EXCEPT ![profile] =
                    [header |-> header,
                     wrapped |-> [algorithm |-> "aes-256-gcm", sealed |-> sealed]]]
  BY DEF Alter
<1>2. \A record \in written : record.manifest \in Manifests
  BY DEF TypeOK, Records
<1>3. header \in Headers /\ sealed \in Sealings \cup {Damaged}
  BY <1>2, StorageAssumption DEF Manifests, Wrapped
<1>4. [header |-> header,
       wrapped |-> [algorithm |-> "aes-256-gcm", sealed |-> sealed]] \in Manifests
  BY <1>3 DEF Manifests, Wrapped
<1>5. altered' \in 0 .. MaxAlterations
  BY StorageAssumption DEF Alter, TypeOK
<1>6. StoreOK'
  BY <1>1, <1>4, <1>5 DEF Alter, TypeOK, StoreOK
<1>7. RootOK' /\ ProcOK'
  BY TypeParts DEF Alter, local, RootOK, ProcOK, Placing
<1> QED BY <1>6, <1>7, TypeParts DEF TypeOK, StoreOK, RootOK, ProcOK, Placing

LEMMA UnlockType ==
    ASSUME TypeOK, NEW p \in Procs, NEW profile \in Profiles,
           NEW password \in Passwords, NEW env \in Environments,
           Unlock(p, profile, password, env)
    PROVE  TypeOK'
<1> DEFINE c == [profile |-> profile, password |-> password, env |-> env]
<1>1. /\ pc' = [pc EXCEPT ![p] = "look"] /\ call' = [call EXCEPT ![p] = c]
      /\ opened' = [opened EXCEPT ![p] = disk[profile]]
      /\ key' = [key EXCEPT ![p] = disk[profile].wrapped.sealed.key]
      /\ attempt' = [attempt EXCEPT ![p] = 1]
      /\ disk[profile] # None
      /\ Authenticates(disk[profile], profile, password)
  BY DEF Unlock
<1>2. c \in Calls /\ c # None /\ c.env = env
  BY NoneAssumption DEF Calls
<1>3. disk[profile] \in Manifests /\ disk[profile].wrapped.sealed \in Sealings
  <2>1. disk[profile].wrapped.sealed # Damaged
    BY <1>1 DEF Authenticates, Unwraps
  <2> QED BY <1>1, <2>1 DEF TypeOK, Manifests, Wrapped
<1>4. disk[profile].wrapped.sealed.key \in Keys
  BY <1>3 DEF Sealings
<1>5. "look" \in Steps /\ 1 \in Nat
  BY DEF Steps, Selecting
<1>6. ProcOK
  BY TypeParts
<1>7. ASSUME NEW q \in Procs PROVE Placing(q)'
  <2>1. CASE q = p
    <3>1. 1 \in 1 .. Len(Candidates[env])
      BY CandidatesLists
    <3> HIDE DEF c
    <3> QED BY <1>1, <1>2, <1>6, <2>1, <3>1 DEF ProcOK, Placing
  <2>2. CASE q # p
    BY <1>1, <1>6, <2>2 DEF ProcOK, Placing
  <2> QED BY <2>1, <2>2
<1>8. ProcOK'
  <2> HIDE DEF c
  <2> QED BY <1>1, <1>2, <1>3, <1>4, <1>5, <1>6, <1>7 DEF ProcOK
<1>9. StoreOK' /\ RootOK'
  BY TypeParts DEF Unlock, store, StoreOK, RootOK
<1> QED BY <1>8, <1>9, TypeParts DEF TypeOK, StoreOK, RootOK, ProcOK, Placing

LEMMA CreateType ==
    ASSUME TypeOK, NEW p \in Procs, Create(p)
    PROVE  TypeOK'
<1>1. /\ pc[p] # "idle" /\ Moves(p) /\ UNCHANGED <<store, disturbed, homes>>
  BY CreateShape
<1>2. ProcOK'
  BY <1>1, MovesType, TypeParts
<1>3. root' \in [Absolute -> Kinds]
  <2>1. root \in [Absolute -> Kinds] /\ "private" \in Kinds
    BY DEF TypeOK, Kinds
  <2> QED BY <2>1 DEF Create
<1>4. StoreOK' /\ RootOK'
  BY <1>1, <1>3, TypeParts DEF store, StoreOK, RootOK
<1> QED BY <1>2, <1>4, TypeParts DEF TypeOK, StoreOK, RootOK, ProcOK, Placing

LEMMA MakeHomeType ==
    ASSUME TypeOK, NEW p \in Procs, MakeHome(p)
    PROVE  TypeOK'
<1>1. /\ pc[p] # "idle" /\ Moves(p) /\ UNCHANGED <<store, root, disturbed>>
  BY MakeHomeShape
<1>2. ProcOK'
  BY <1>1, MovesType, TypeParts
<1>3. opened[p].header.id \in Text
  BY <1>1 DEF TypeOK, Manifests, Headers
<1>4. /\ call[p].profile \in Profiles /\ call[p].env \in Environments
      /\ Path(p) \in Roots
  BY <1>1, PathType, TypeParts
<1>5. [profile |-> call[p].profile, env |-> call[p].env,
       root |-> Path(p), id |-> opened[p].header.id] \in Homes
  BY <1>3, <1>4 DEF Homes
<1>6. homes' \in SUBSET Homes
  BY <1>5 DEF MakeHome, TypeOK
<1>7. StoreOK' /\ RootOK'
  BY <1>1, <1>6, TypeParts DEF store, StoreOK, RootOK
<1> QED BY <1>2, <1>7, TypeParts DEF TypeOK, StoreOK, RootOK, ProcOK, Placing

LEMMA QuietType ==
    ASSUME TypeOK, NEW p \in Procs, Quiet(p)
    PROVE  TypeOK'
<1>1. /\ pc[p] # "idle" /\ Moves(p) /\ root' = root /\ homes' = homes
      /\ disturbed' = disturbed \/ disturbed' = TRUE
      /\ UNCHANGED store
  BY QuietShape
<1>2. ProcOK'
  BY <1>1, MovesType, TypeParts
<1>3. StoreOK' /\ RootOK'
  BY <1>1, TypeParts DEF store, StoreOK, RootOK
<1> QED BY <1>2, <1>3, TypeParts DEF TypeOK, StoreOK, RootOK, ProcOK, Placing

LEMMA OthersType ==
    ASSUME TypeOK, NEW path \in Absolute, Occupy(path) \/ Remove(path)
    PROVE  TypeOK'
<1>1. root' \in [Absolute -> Kinds] /\ disturbed' = TRUE
  BY DEF Occupy, Remove, TypeOK, Kinds
<1>2. StoreOK' /\ RootOK' /\ ProcOK'
  BY <1>1, TypeParts DEF Occupy, Remove, store, local, StoreOK, RootOK, ProcOK, Placing
<1> QED BY <1>2, TypeParts DEF TypeOK, StoreOK, RootOK, ProcOK, Placing

LEMMA TypeStep == TypeOK /\ [Next]_vars => TypeOK'
<1> SUFFICES ASSUME TypeOK, [Next]_vars PROVE TypeOK'
  OBVIOUS
<1>1. ASSUME NEW name \in DOMAIN Fold, NEW password \in Passwords, Add(name, password)
      PROVE  TypeOK'
  <2>1. Fold[name] \in Profiles
    BY DEF Profiles
  <2> QED BY <1>1, <2>1, AddRecords, RecordType
<1>2. ASSUME NEW profile \in Profiles, NEW current \in Passwords,
             NEW new \in Passwords, Rotate(profile, current, new)
      PROVE  TypeOK'
  BY <1>2, RotateRecords, RecordType
<1>3. CASE UNCHANGED vars
  BY <1>3 DEF vars, TypeOK
<1> QED BY <1>1, <1>2, <1>3, StepKinds, AlterType, UnlockType, CreateType,
           MakeHomeType, QuietType, OthersType

-----------------------------------------------------------------------------
(***************************************************************************)
(* The manifests: Written and Stored.                                      *)
(***************************************************************************)
LEMMA RecordKeeps ==
    ASSUME TypeOK, Written, Stored,
           NEW profile \in Profiles, NEW header \in Headers,
           NEW k \in Keys, NEW password \in Passwords,
           Record(profile, Manifest(header, k, password), password, k),
           Validate(Manifest(header, k, password)), Derivable(header.kdf),
           Fold[header.username] = profile,
           \A other \in written : other.profile = profile =>
              other.manifest.header.id = header.id /\ other.key = k
    PROVE  Written' /\ Stored'
<1> DEFINE m == Manifest(header, k, password)
           r == [profile |-> profile, manifest |-> m, password |-> password, key |-> k]
<1>1. /\ disk' = [disk EXCEPT ![profile] = m]
      /\ written' = written \cup {r}
  BY DEF Record
<1>2. m \in Manifests /\ m # None
  BY ManifestType, NoneAssumption
<1>3. /\ m.header = header
      /\ m.wrapped.sealed = [key |-> k, under |-> DeriveKey(password, header.kdf),
                             aad |-> AssociatedData(header)]
  BY DEF Manifest, WrapDataKey
<1>4. /\ r.profile = profile /\ r.manifest = m /\ r.password = password /\ r.key = k
  OBVIOUS
<1>5. Validate(m) /\ Derivable(header.kdf) /\ Fold[header.username] = profile
  OBVIOUS
<1>6. disk \in [Profiles -> Manifests \cup {None}]
  BY DEF TypeOK
<1>7. \A other \in written : other.profile \in Profiles
  BY DEF TypeOK, Records
<1> HIDE DEF m, r
<1>8. ASSUME NEW record \in written' PROVE WellWritten(record)'
  <2>1. CASE record = r
    <3>1. disk'[profile] # None
      BY <1>1, <1>2, <1>6
    <3> QED BY <1>3, <1>4, <1>5, <2>1, <3>1 DEF WellWritten
  <2>2. CASE record \in written
    <3>1. WellWritten(record) /\ record.profile \in Profiles
      BY <1>7, <2>2 DEF Written
    <3>2. disk'[record.profile] # None
      BY <1>1, <1>2, <1>6, <3>1 DEF WellWritten
    <3> QED BY <3>1, <3>2 DEF WellWritten
  <2> QED BY <1>1, <2>1, <2>2
<1>9. ASSUME NEW one \in written', NEW other \in written' PROVE Related(one, other)
  <2>1. one \in written \/ one = r
    BY <1>1
  <2>2. other \in written \/ other = r
    BY <1>1
  <2>3. \A record \in written : Related(record, r) /\ Related(r, record)
    BY <1>3, <1>4 DEF Related
  <2>4. Related(r, r)
    BY DEF Related
  <2> QED BY <2>1, <2>2, <2>3, <2>4 DEF Written
<1>10. ASSUME NEW other \in Profiles, disk'[other] # None
       PROVE  Sealed(disk[other].wrapped.sealed)'
  <2>1. CASE other = profile
    <3>1. disk'[other] = m /\ r \in written' /\ r.manifest = m
      BY <1>1, <1>4, <1>6, <2>1
    <3> QED BY <3>1 DEF Sealed
  <2>2. CASE other # profile
    <3>1. disk'[other] = disk[other]
      BY <1>1, <1>6, <2>2
    <3>2. Sealed(disk[other].wrapped.sealed)
      BY <1>10, <3>1 DEF Stored
    <3> QED BY <1>1, <3>1, <3>2 DEF Sealed
  <2> QED BY <2>1, <2>2
<1> QED BY <1>8, <1>9, <1>10 DEF Written, Stored, Related

LEMMA AddKeeps ==
    ASSUME TypeOK, Written, Stored,
           NEW name \in DOMAIN Fold, NEW password \in Passwords, Add(name, password)
    PROVE  Written' /\ Stored'
<1>1. PICK id \in Uuids, k \in Keys, salt \in Salts, time \in Times :
         /\ NewHeader(id, name, time, DefaultKdf(salt)) \in Headers
         /\ Record(Fold[name],
                   Manifest(NewHeader(id, name, time, DefaultKdf(salt)), k, password),
                   password, k)
  BY AddRecords
<1> DEFINE h == NewHeader(id, name, time, DefaultKdf(salt))
<1>2. Fold[name] \in Profiles /\ disk[Fold[name]] = None
  BY DEF Profiles, Add
<1>3. /\ h.version = 1 /\ h.id = id /\ h.username = name /\ h.createdAt = time
      /\ h.kdf = DefaultKdf(salt) /\ h.format = VaultFormat
  BY DEF NewHeader
<1>4. Manifest(h, k, password).header = h
      /\ Manifest(h, k, password).wrapped.algorithm = "aes-256-gcm"
  BY DEF Manifest, WrapDataKey
<1>5. time # 0
  BY StorageAssumption
<1>6. Validate(Manifest(h, k, password)) /\ Derivable(h.kdf) /\ Fold[h.username] = Fold[name]
  BY <1>3, <1>4, <1>5, DefaultKdfDerivable DEF Validate, IsValidUsername
<1>7. \A other \in written : other.profile # Fold[name]
  BY <1>2 DEF Written, WellWritten
<1> HIDE DEF h
<1>8. h \in Headers /\ Record(Fold[name], Manifest(h, k, password), password, k)
  BY <1>1 DEF h
<1> QED BY <1>2, <1>6, <1>7, <1>8, RecordKeeps

LEMMA RotateKeeps ==
    ASSUME TypeOK, Written, Stored, NEW profile \in Profiles,
           NEW current \in Passwords, NEW new \in Passwords,
           Rotate(profile, current, new)
    PROVE  Written' /\ Stored'
<1> DEFINE k == disk[profile].wrapped.sealed.key
<1>1. /\ k \in Keys /\ disk[profile] # None
      /\ Authenticates(disk[profile], profile, current)
  BY RotateRecords
<1>2. PICK salt \in Salts :
         /\ NewParameters(disk[profile].header, salt) \in Headers
         /\ Record(profile, Manifest(NewParameters(disk[profile].header, salt), k, new),
                   new, k)
  BY RotateRecords
<1>3. PICK record \in written :
         /\ record.manifest.header = disk[profile].header
         /\ record.key = k
         /\ record.profile = profile
  BY <1>1, AuthenticatedIsWritten
<1> DEFINE h == NewParameters(disk[profile].header, salt)
<1>4. disk[profile].header \in Headers
  BY <1>1 DEF TypeOK, Manifests
<1>5. /\ h.version = disk[profile].header.version /\ h.id = disk[profile].header.id
      /\ h.username = disk[profile].header.username
      /\ h.createdAt = disk[profile].header.createdAt
      /\ h.kdf = DefaultKdf(salt) /\ h.format = disk[profile].header.format
  BY <1>4 DEF NewParameters, Headers
<1>6. Manifest(h, k, new).header = h
      /\ Manifest(h, k, new).wrapped.algorithm = "aes-256-gcm"
  BY DEF Manifest, WrapDataKey
<1>7. Validate(disk[profile]) /\ Fold[disk[profile].header.username] = profile
  BY <1>1 DEF Authenticates
<1> HIDE DEF h, k
<1>8. Validate(Manifest(h, k, new)) /\ Derivable(h.kdf) /\ Fold[h.username] = profile
  BY <1>5, <1>6, <1>7, DefaultKdfDerivable DEF Validate
<1>9. ASSUME NEW other \in written, other.profile = profile
      PROVE  other.manifest.header.id = h.id /\ other.key = k
  <2>1. Related(record, other)
    BY DEF Written
  <2> QED BY <1>3, <1>5, <1>9, <2>1 DEF Related
<1>10. h \in Headers /\ Record(profile, Manifest(h, k, new), new, k)
  BY <1>2 DEF h
<1> QED BY <1>1, <1>8, <1>9, <1>10, RecordKeeps

LEMMA AlterKeeps ==
    ASSUME TypeOK, Written, Stored, NEW profile \in Profiles, Alter(profile)
    PROVE  Written' /\ Stored'
<1>1. PICK header \in Returned \cup {record.manifest.header : record \in written},
           sealed \in {record.manifest.wrapped.sealed : record \in written} \cup {Damaged} :
         disk' = [disk EXCEPT ![profile] =
                    [header |-> header,
                     wrapped |-> [algorithm |-> "aes-256-gcm", sealed |-> sealed]]]
  BY DEF Alter
<1> DEFINE m == [header |-> header,
                 wrapped |-> [algorithm |-> "aes-256-gcm", sealed |-> sealed]]
<1>2. m.wrapped.sealed = sealed /\ Sealed(sealed)
  BY DEF Sealed
<1>3. m # None
  <2>1. disk' \in [Profiles -> Manifests \cup {None}]
    BY AlterType DEF TypeOK
  <2>2. \A record \in written : record.manifest \in Manifests
    BY DEF TypeOK, Records
  <2>3. header \in Headers /\ sealed \in Sealings \cup {Damaged}
    BY <2>2, StorageAssumption DEF Manifests, Wrapped
  <2>4. m \in Manifests
    BY <2>3 DEF Manifests, Wrapped
  <2> QED BY <2>4, NoneAssumption
<1>4. written' = written /\ disk \in [Profiles -> Manifests \cup {None}]
  BY DEF Alter, TypeOK
<1>5. disk' = [disk EXCEPT ![profile] = m]
  BY <1>1
<1> HIDE DEF m
<1>6. ASSUME NEW record \in written PROVE WellWritten(record)'
  <2>1. WellWritten(record) /\ record.profile \in Profiles
    BY DEF Written, TypeOK, Records
  <2>2. disk'[record.profile] # None
    BY <1>3, <1>4, <1>5, <2>1 DEF WellWritten
  <2> QED BY <2>1, <2>2 DEF WellWritten
<1>7. ASSUME NEW other \in Profiles, disk'[other] # None
      PROVE  Sealed(disk[other].wrapped.sealed)'
  <2>1. CASE other = profile
    <3>1. disk'[other].wrapped.sealed = sealed
      BY <1>2, <1>4, <1>5, <2>1
    <3> QED BY <1>2, <1>4, <3>1 DEF Sealed
  <2>2. CASE other # profile
    <3>1. disk'[other] = disk[other]
      BY <1>4, <1>5, <2>2
    <3>2. Sealed(disk[other].wrapped.sealed)
      BY <1>7, <3>1 DEF Stored
    <3> QED BY <1>4, <3>1, <3>2 DEF Sealed
  <2> QED BY <2>1, <2>2
<1> QED BY <1>4, <1>6, <1>7 DEF Written, Stored, Related

\* All other steps leave the storage alone.
LEMMA StoreStep ==
    ASSUME TypeOK, Written, Stored, [Next]_vars
    PROVE  Written' /\ Stored'
<1>1. ASSUME UNCHANGED store PROVE Written' /\ Stored'
  BY <1>1 DEF store, Written, WellWritten, Related, Stored, Sealed
<1>2. CASE UNCHANGED vars
  BY <1>1, <1>2 DEF vars, store
<1>3. ASSUME NEW path \in Absolute, Occupy(path) \/ Remove(path)
      PROVE  UNCHANGED store
  BY <1>3 DEF Occupy, Remove
<1>4. ASSUME NEW p \in Procs, NEW profile \in Profiles, NEW password \in Passwords,
             NEW env \in Environments, Unlock(p, profile, password, env)
      PROVE  UNCHANGED store
  BY <1>4 DEF Unlock
<1>5. ASSUME NEW p \in Procs, Quiet(p) \/ Create(p) \/ MakeHome(p)
      PROVE  UNCHANGED store
  BY <1>5, QuietShape, CreateShape, MakeHomeShape DEF store
<1> QED BY <1>1, <1>2, <1>3, <1>4, <1>5, StepKinds, AddKeeps, RotateKeeps, AlterKeeps

-----------------------------------------------------------------------------
(***************************************************************************)
(* What the processes hold.                                                *)
(***************************************************************************)
Holds(p) ==
    pc[p] # "idle" =>
        \E record \in written :
            /\ record.manifest.header = opened[p].header
            /\ record.key      = key[p]
            /\ record.password = call[p].password
            /\ record.profile  = call[p].profile

\* Nothing written is forgotten.
LEMMA WrittenGrows ==
    ASSUME [Next]_vars
    PROVE  written \subseteq written'
<1>1. ASSUME UNCHANGED store PROVE written' = written
  BY <1>1 DEF store
<1>2. ASSUME NEW name \in DOMAIN Fold, NEW password \in Passwords, Add(name, password)
      PROVE  written \subseteq written'
  BY <1>2 DEF Add, Record
<1>3. ASSUME NEW profile \in Profiles, NEW current \in Passwords,
             NEW new \in Passwords, Rotate(profile, current, new)
      PROVE  written \subseteq written'
  BY <1>3 DEF Rotate, Record
<1>4. ASSUME NEW profile \in Profiles, Alter(profile) PROVE written' = written
  BY <1>4 DEF Alter
<1>5. ASSUME NEW path \in Absolute, Occupy(path) \/ Remove(path)
      PROVE  written' = written
  BY <1>1, <1>5 DEF Occupy, Remove
<1>6. ASSUME NEW p \in Procs, NEW profile \in Profiles, NEW password \in Passwords,
             NEW env \in Environments, Unlock(p, profile, password, env)
      PROVE  written' = written
  BY <1>1, <1>6 DEF Unlock
<1>7. ASSUME NEW p \in Procs, Quiet(p) \/ Create(p) \/ MakeHome(p)
      PROVE  written' = written
  BY <1>1, <1>7, QuietShape, CreateShape, MakeHomeShape
<1>8. CASE UNCHANGED vars
  BY <1>8 DEF vars
<1> QED BY <1>2, <1>3, <1>4, <1>5, <1>6, <1>7, <1>8, StepKinds

LEMMA OpenedStep ==
    ASSUME TypeOK, Written, Stored, OpenedAsWritten, [Next]_vars
    PROVE  OpenedAsWritten'
<1>1. \A p \in Procs : Holds(p)
  BY DEF OpenedAsWritten, Holds
<1>2. written \subseteq written'
  BY WrittenGrows
<1>3. ASSUME NEW q \in Procs, pc'[q] = pc[q], opened'[q] = opened[q],
             key'[q] = key[q], call'[q] = call[q]
      PROVE  Holds(q)'
  BY <1>1, <1>2, <1>3 DEF Holds
<1>4. ASSUME UNCHANGED <<pc, local>>
      PROVE  \A q \in Procs : Holds(q)'
  BY <1>3, <1>4 DEF local
<1>5. ASSUME NEW p \in Procs, pc[p] # "idle", Moves(p), NEW q \in Procs
      PROVE  Holds(q)'
  <2>1. CASE q # p
    <3>1. pc'[q] = pc[q] /\ opened'[q] = opened[q] /\ key'[q] = key[q]
          /\ call'[q] = call[q]
      BY <1>5, <2>1 DEF TypeOK, Moves, Goto, TryNext, End, local
    <3> QED BY <1>3, <3>1
  <2>2. CASE q = p /\ End(p)
    BY <2>2 DEF End, Holds, TypeOK
  <2>3. CASE q = p /\ ~End(p)
    <3>1. UNCHANGED local
      BY <1>5, <2>3 DEF Moves, Goto, TryNext
    <3> QED BY <1>1, <1>2, <1>5, <2>3, <3>1 DEF Holds, local
  <2> QED BY <2>1, <2>2, <2>3
<1>6. ASSUME NEW p \in Procs, NEW profile \in Profiles, NEW password \in Passwords,
             NEW env \in Environments, Unlock(p, profile, password, env), NEW q \in Procs
      PROVE  Holds(q)'
  <2> DEFINE c == [profile |-> profile, password |-> password, env |-> env]
  <2>1. /\ pc' = [pc EXCEPT ![p] = "look"] /\ call' = [call EXCEPT ![p] = c]
        /\ opened' = [opened EXCEPT ![p] = disk[profile]]
        /\ key' = [key EXCEPT ![p] = disk[profile].wrapped.sealed.key]
        /\ disk[profile] # None
        /\ Authenticates(disk[profile], profile, password)
    BY <1>6 DEF Unlock
  <2>2. c.profile = profile /\ c.password = password
    OBVIOUS
  <2> HIDE DEF c
  <2>3. CASE q # p
    <3>1. pc'[q] = pc[q] /\ opened'[q] = opened[q] /\ key'[q] = key[q]
          /\ call'[q] = call[q]
      BY <2>1, <2>3 DEF TypeOK
    <3> QED BY <1>3, <3>1
  <2>4. CASE q = p
    <3>1. /\ opened'[p] = disk[profile]
          /\ key'[p] = disk[profile].wrapped.sealed.key
          /\ call'[p] = c
      BY <2>1 DEF TypeOK
    <3>2. PICK record \in written :
              /\ record.manifest.header = disk[profile].header
              /\ record.key      = disk[profile].wrapped.sealed.key
              /\ record.password = password
              /\ record.profile  = profile
      BY <2>1, AuthenticatedIsWritten
    <3>3. record \in written'
      BY <1>2
    <3> QED BY <2>2, <2>4, <3>1, <3>2, <3>3 DEF Holds
  <2> QED BY <2>3, <2>4
<1>7. ASSUME NEW name \in DOMAIN Fold, NEW password \in Passwords, Add(name, password)
      PROVE  UNCHANGED <<pc, local>>
  BY <1>7 DEF Add, Record
<1>8. ASSUME NEW profile \in Profiles, NEW current \in Passwords,
             NEW new \in Passwords, Rotate(profile, current, new)
      PROVE  UNCHANGED <<pc, local>>
  BY <1>8 DEF Rotate, Record
<1>9. ASSUME NEW profile \in Profiles, Alter(profile) PROVE UNCHANGED <<pc, local>>
  BY <1>9 DEF Alter
<1>10. ASSUME NEW path \in Absolute, Occupy(path) \/ Remove(path)
       PROVE  UNCHANGED <<pc, local>>
  BY <1>10 DEF Occupy, Remove
<1>11. ASSUME NEW p \in Procs, Quiet(p) \/ Create(p) \/ MakeHome(p), NEW q \in Procs
       PROVE  Holds(q)'
  BY <1>5, <1>11, QuietShape, CreateShape, MakeHomeShape
<1>12. ASSUME UNCHANGED vars PROVE UNCHANGED <<pc, local>>
  BY <1>12 DEF vars, local
<1>13. \A q \in Procs : Holds(q)'
  BY <1>4, <1>6, <1>7, <1>8, <1>9, <1>10, <1>11, <1>12, StepKinds
<1> QED BY <1>13 DEF OpenedAsWritten, Holds

-----------------------------------------------------------------------------
(***************************************************************************)
(* The selection of the root.                                              *)
(***************************************************************************)
\* Without interference a root only appears, and it is private.
Calm ==
    \/ disturbed' = TRUE
    \/ /\ disturbed' = disturbed
       /\ \A path \in Absolute :
             \/ root'[path] = root[path]
             \/ root[path] = "absent" /\ root'[path] = "private"

LEMMA CalmStep ==
    ASSUME TypeOK, [Next]_vars
    PROVE  Calm
<1>1. ASSUME UNCHANGED <<root, disturbed>> PROVE Calm
  BY <1>1 DEF Calm
<1>2. ASSUME NEW name \in DOMAIN Fold, NEW password \in Passwords, Add(name, password)
      PROVE  UNCHANGED <<root, disturbed>>
  BY <1>2 DEF Add, Record
<1>3. ASSUME NEW profile \in Profiles, NEW current \in Passwords,
             NEW new \in Passwords, Rotate(profile, current, new)
      PROVE  UNCHANGED <<root, disturbed>>
  BY <1>3 DEF Rotate, Record
<1>4. ASSUME NEW profile \in Profiles, Alter(profile)
      PROVE  UNCHANGED <<root, disturbed>>
  BY <1>4 DEF Alter
<1>5. ASSUME NEW path \in Absolute, Occupy(path) \/ Remove(path) PROVE Calm
  BY <1>5 DEF Occupy, Remove, Calm
<1>6. ASSUME NEW p \in Procs, NEW profile \in Profiles, NEW password \in Passwords,
             NEW env \in Environments, Unlock(p, profile, password, env)
      PROVE  UNCHANGED <<root, disturbed>>
  BY <1>6 DEF Unlock
<1>7. ASSUME NEW p \in Procs, Quiet(p) \/ MakeHome(p) PROVE Calm
  BY <1>7, QuietShape, MakeHomeShape DEF Calm
<1>8. ASSUME NEW p \in Procs, Create(p) PROVE Calm
  <2>1. /\ root' = [root EXCEPT ![Path(p)] =
                      IF root[Path(p)] = "absent" THEN "private" ELSE root[Path(p)]]
        /\ disturbed' = disturbed
    BY <1>8 DEF Create
  <2>2. root \in [Absolute -> Kinds]
    BY DEF TypeOK
  <2>3. ASSUME NEW path \in Absolute
        PROVE  \/ root'[path] = root[path]
               \/ root[path] = "absent" /\ root'[path] = "private"
    <3>1. CASE path = Path(p)
      BY <2>1, <2>2, <3>1
    <3>2. CASE path # Path(p)
      BY <2>1, <2>2, <3>2
    <3> QED BY <3>1, <3>2
  <2> QED BY <2>1, <2>3 DEF Calm
<1>9. ASSUME UNCHANGED vars PROVE UNCHANGED <<root, disturbed>>
  BY <1>9 DEF vars
<1> QED BY <1>1, <1>2, <1>3, <1>4, <1>5, <1>6, <1>7, <1>8, <1>9, StepKinds

LEMMA PassedKeeps ==
    ASSUME TypeOK, Calm, disturbed' # TRUE, NEW env \in Environments,
           NEW i \in 1 .. Len(Candidates[env]), Passed(env, i)
    PROVE  Passed(env, i)'
<1>1. ASSUME NEW path \in Roots, Useless(path) PROVE Useless(path)'
  BY <1>1 DEF Useless, Calm
<1>2. ASSUME NEW j \in 1 .. i - 1 PROVE Candidates[env][j] \in Roots
  <2>1. j \in 1 .. Len(Candidates[env])
    BY CandidatesLists
  <2> QED BY <2>1, CandidatesLists
<1>3. ASSUME NEW j \in 1 .. i - 1 PROVE Useless(Candidates[env][j])'
  <2>1. Useless(Candidates[env][j])
    BY DEF Passed
  <2> QED BY <1>1, <1>2, <2>1
<1> QED BY <1>3 DEF Passed

\* A process that does not move keeps what it has found.
LEMMA StillSelected ==
    ASSUME TypeOK, Calm, NEW q \in Procs, Selected(q),
           pc'[q] = pc[q], call'[q] = call[q], attempt'[q] = attempt[q]
    PROVE  Selected(q)'
<1> SUFFICES ASSUME pc[q] # "idle" PROVE Selected(q)'
  BY DEF Selected
<1>1. /\ call[q].env \in Environments
      /\ attempt[q] \in 1 .. Len(Candidates[call[q].env])
      /\ Path(q) \in Roots
  BY PathType, TypeParts
<1>2. Path(q)' = Path(q)
  BY DEF Path
<1>3. pc[q] # "look" => Path(q) \in Absolute
  BY DEF Selected
<1>4. CASE disturbed' = TRUE
  BY <1>2, <1>3, <1>4 DEF Selected
<1>5. CASE disturbed' # TRUE
  <2>1. /\ ~disturbed
        /\ \A path \in Absolute :
             \/ root'[path] = root[path]
             \/ root[path] = "absent" /\ root'[path] = "private"
    BY <1>5 DEF Calm, TypeOK
  <2>2. Passed(call[q].env, attempt[q])
    BY <2>1 DEF Selected
  <2>3. Passed(call[q].env, attempt[q])'
    <3> DEFINE e == call[q].env  i == attempt[q]
    <3>1. \A j \in 1 .. i - 1 : Useless(Candidates[e][j])'
      <4>1. e \in Environments /\ i \in 1 .. Len(Candidates[e]) /\ Passed(e, i)
        BY <1>1, <2>2
      <4>2. \A j \in 1 .. i - 1 : Useless(Candidates[e][j])
        BY <4>1 DEF Passed
      <4>3. ASSUME NEW j \in 1 .. i - 1 PROVE Candidates[e][j] \in Roots
        <5>1. j \in 1 .. Len(Candidates[e])
          BY <4>1, CandidatesLists
        <5> QED BY <4>1, <5>1, CandidatesLists
      <4>4. ASSUME NEW path \in Roots, Useless(path) PROVE Useless(path)'
        BY <2>1, <4>4 DEF Useless
      <4> QED BY <4>2, <4>3, <4>4
    <3> QED BY <3>1 DEF Passed
  <2>4. /\ pc[q] = "create" => root[Path(q)] # "unfit"
        /\ pc[q] = "check" => root[Path(q)] # "absent"
        /\ pc[q] \in {"resolve", "home", "open"} => root[Path(q)] = "private"
    BY <2>1 DEF Selected
  <2>5. /\ pc[q] = "create" => root'[Path(q)] # "unfit"
        /\ pc[q] = "check" => root'[Path(q)] # "absent"
        /\ pc[q] \in {"resolve", "home", "open"} => root'[Path(q)] = "private"
    BY <1>3, <2>1, <2>4
  <2> QED BY <1>2, <1>3, <2>3, <2>5 DEF Selected
<1>6. disturbed' = TRUE \/ disturbed' # TRUE
  OBVIOUS
<1> QED BY <1>4, <1>5, <1>6

\* A process that passes over a candidate: without interference that one is of
\* no use, and the ones before it still are of none.
LEMMA NextSelected ==
    ASSUME TypeOK, Calm, NEW p \in Procs, pc[p] # "idle", Selected(p), TryNext(p),
           disturbed' # TRUE => Useless(Path(p)) /\ root' = root
    PROVE  Selected(p)'
<1>1. /\ call[p].env \in Environments
      /\ attempt[p] \in 1 .. Len(Candidates[call[p].env])
  BY PathType, TypeParts
<1>2. /\ pc'[p] = "look" /\ call' = call /\ attempt'[p] = attempt[p] + 1
  BY DEF TryNext, local, TypeOK
<1>3. ASSUME disturbed' # TRUE PROVE Passed(call[p].env, attempt[p])'
  <2>1. ~disturbed /\ root' = root /\ Useless(Path(p))
    BY <1>3 DEF Calm, TypeOK
  <2>2. Passed(call[p].env, attempt[p])
    BY <2>1 DEF Selected
  <2> DEFINE e == call[p].env  i == attempt[p]
  <2>3. ASSUME NEW j \in 1 .. (i + 1) - 1 PROVE Useless(Candidates[e][j])'
    <3>1. CASE j = i
      BY <1>2, <2>1, <3>1 DEF Path, Useless
    <3>2. CASE j # i
      <4>1. j \in 1 .. i - 1
        BY <1>1, <3>2
      <4> QED BY <1>2, <2>1, <2>2, <4>1 DEF Passed, Useless
    <3> QED BY <3>1, <3>2
  <2>4. call'[p].env = e /\ attempt'[p] = i + 1
    BY <1>2
  <2> QED BY <2>3, <2>4 DEF Passed
<1> QED BY <1>2, <1>3 DEF Selected

LEMMA RejectSelected ==
    ASSUME TypeOK, Calm, NEW p \in Procs, pc[p] # "idle", Selected(p), Reject(p),
           disturbed' # TRUE => Useless(Path(p)) /\ root' = root
    PROVE  Selected(p)'
<1>1. CASE TryNext(p)
  BY <1>1, NextSelected
<1>2. CASE End(p)
  BY <1>2 DEF End, Selected, TypeOK
<1> QED BY <1>1, <1>2 DEF Reject, NoneLeft

\* A process that goes on with its candidate, with what it finds there.
LEMMA GotoSelected ==
    ASSUME TypeOK, Calm, NEW p \in Procs, pc[p] # "idle", Selected(p),
           NEW step \in Steps \ {"idle", "look"}, Goto(p, step), Path(p) \in Absolute,
           disturbed' # TRUE =>
              /\ step = "create" => root'[Path(p)] # "unfit"
              /\ step = "check" => root'[Path(p)] # "absent"
              /\ step \in {"resolve", "home", "open"} => root'[Path(p)] = "private"
    PROVE  Selected(p)'
<1>1. pc'[p] = step /\ call' = call /\ attempt' = attempt
  BY DEF Goto, local, TypeOK
<1>2. Path(p)' = Path(p)
  BY <1>1 DEF Path
<1>3. /\ call[p].env \in Environments
      /\ attempt[p] \in 1 .. Len(Candidates[call[p].env])
  BY PathType, TypeParts
<1>4. ASSUME disturbed' # TRUE PROVE Passed(call[p].env, attempt[p])'
  <2>1. /\ ~disturbed
        /\ \A path \in Absolute :
             \/ root'[path] = root[path]
             \/ root[path] = "absent" /\ root'[path] = "private"
    BY <1>4 DEF Calm, TypeOK
  <2> DEFINE e == call[p].env  i == attempt[p]
  <2>2. Passed(e, i)
    BY <2>1 DEF Selected
  <2>3. \A j \in 1 .. i - 1 : Useless(Candidates[e][j])'
    <3>1. ASSUME NEW j \in 1 .. i - 1
          PROVE  Candidates[e][j] \in Roots /\ Useless(Candidates[e][j])
      <4>1. j \in 1 .. Len(Candidates[e])
        BY <1>3, CandidatesLists
      <4> QED BY <1>3, <2>2, <4>1, CandidatesLists DEF Passed
    <3>2. ASSUME NEW path \in Roots, Useless(path) PROVE Useless(path)'
      BY <2>1, <3>2 DEF Useless
    <3> QED BY <1>1, <3>1, <3>2
  <2>4. call'[p].env = e /\ attempt'[p] = i
    BY <1>1
  <2> QED BY <2>3, <2>4 DEF Passed
<1> QED BY <1>1, <1>2, <1>4 DEF Selected

LEMMA ProcessSelected ==
    ASSUME TypeOK, Calm, NEW p \in Procs, Selected(p),
           Quiet(p) \/ Create(p) \/ MakeHome(p)
    PROVE  Selected(p)'
<1>1. pc[p] # "idle"
  BY QuietShape, CreateShape, MakeHomeShape
<1>2. pc[p] # "look" => Path(p) \in Absolute
  BY <1>1 DEF Selected
<1>3. {"create", "check", "resolve", "home", "open"} \subseteq Steps \ {"idle", "look"}
  BY DEF Steps, Selecting
<1>4. ~disturbed =>
         /\ pc[p] = "create" => root[Path(p)] # "unfit"
         /\ pc[p] = "check" => root[Path(p)] # "absent"
         /\ pc[p] \in {"resolve", "home", "open"} => root[Path(p)] = "private"
  BY <1>1 DEF Selected
<1>5. Path(p) \in Absolute => root[Path(p)] \in Kinds
  BY DEF TypeOK
<1>6. disturbed' # TRUE => ~disturbed
  BY DEF Calm, TypeOK
<1>7. CASE Relative(p)
  BY <1>1, <1>7, RejectSelected DEF Relative, Useless
<1>8. CASE Look(p)
  <2>1. root' = root /\ Path(p) \in Absolute
    BY <1>8 DEF Look
  <2>2. CASE root[Path(p)] = "absent" /\ Goto(p, "create")
    BY <1>1, <1>3, <2>1, <2>2, GotoSelected
  <2>3. CASE root[Path(p)] # "absent" /\ Goto(p, "check")
    BY <1>1, <1>3, <2>1, <2>3, GotoSelected
  <2> QED BY <1>8, <2>2, <2>3 DEF Look
<1>9. CASE Create(p)
  <2>1. pc[p] = "create" /\ Goto(p, "check")
        /\ root' = [root EXCEPT ![Path(p)] =
                      IF root[Path(p)] = "absent" THEN "private" ELSE root[Path(p)]]
    BY <1>9 DEF Create
  <2>2. root'[Path(p)] # "absent"
    BY <1>2, <2>1 DEF TypeOK
  <2> QED BY <1>1, <1>2, <1>3, <2>1, <2>2, GotoSelected
<1>10. CASE Check(p)
  <2>1. pc[p] = "check" /\ root' = root /\ disturbed' = disturbed
    BY <1>10 DEF Check
  <2>2. CASE root[Path(p)] = "private" /\ Goto(p, "resolve")
    BY <1>1, <1>2, <1>3, <2>1, <2>2, GotoSelected
  <2>3. CASE root[Path(p)] # "private" /\ Reject(p)
    <3>1. disturbed' # TRUE => Useless(Path(p))
      BY <1>2, <1>4, <1>5, <1>6, <2>1, <2>3 DEF Useless, Kinds
    <3> QED BY <1>1, <2>1, <2>3, <3>1, RejectSelected
  <2> QED BY <1>10, <2>2, <2>3 DEF Check
<1>11. CASE Resolve(p)
  <2>1. pc[p] = "resolve" /\ root' = root /\ disturbed' = disturbed
    BY <1>11 DEF Resolve
  <2>2. CASE Goto(p, "home")
    BY <1>1, <1>2, <1>3, <1>4, <1>6, <2>1, <2>2, GotoSelected
  <2>3. CASE root[Path(p)] = "absent" /\ Reject(p)
    <3>1. disturbed' # TRUE => FALSE
      BY <1>4, <1>6, <2>1, <2>3
    <3> QED BY <1>1, <2>1, <2>3, <3>1, RejectSelected
  <2> QED BY <1>11, <2>2, <2>3 DEF Resolve
<1>12. CASE CallFails(p)
  BY <1>1, <1>12, RejectSelected DEF CallFails
<1>13. CASE HomeFails(p) \/ Close(p)
  BY <1>13 DEF HomeFails, Close, End, Selected, TypeOK
<1>14. CASE MakeHome(p)
  <2>1. pc[p] = "home" /\ root' = root /\ disturbed' = disturbed /\ Goto(p, "open")
    BY <1>14 DEF MakeHome
  <2> QED BY <1>1, <1>2, <1>3, <1>4, <1>6, <2>1, GotoSelected
<1> QED BY <1>7, <1>8, <1>9, <1>10, <1>11, <1>12, <1>13, <1>14 DEF Quiet

LEMMA SelectedStep ==
    ASSUME TypeOK, \A p \in Procs : Selected(p), [Next]_vars, NEW q \in Procs
    PROVE  Selected(q)'
<1>1. Calm
  BY CalmStep
<1>2. ASSUME pc'[q] = pc[q], call'[q] = call[q], attempt'[q] = attempt[q]
      PROVE  Selected(q)'
  BY <1>1, <1>2, StillSelected
<1>3. ASSUME UNCHANGED <<pc, local, attempt>> PROVE Selected(q)'
  BY <1>2, <1>3 DEF local
<1>4. ASSUME NEW p \in Procs, Quiet(p) \/ Create(p) \/ MakeHome(p)
      PROVE  Selected(q)'
  <2>1. CASE q = p
    BY <1>1, <1>4, <2>1, ProcessSelected
  <2>2. CASE q # p
    <3>1. Moves(p)
      BY <1>4, QuietShape, CreateShape, MakeHomeShape
    <3>2. pc'[q] = pc[q] /\ call'[q] = call[q] /\ attempt'[q] = attempt[q]
      BY <2>2, <3>1 DEF TypeOK, Moves, Goto, TryNext, End, local
    <3> QED BY <1>2, <3>2
  <2> QED BY <2>1, <2>2
<1>5. ASSUME NEW p \in Procs, NEW profile \in Profiles, NEW password \in Passwords,
             NEW env \in Environments, Unlock(p, profile, password, env)
      PROVE  Selected(q)'
  <2>1. /\ pc' = [pc EXCEPT ![p] = "look"] /\ attempt' = [attempt EXCEPT ![p] = 1]
        /\ call' = [call EXCEPT ![p] =
                      [profile |-> profile, password |-> password, env |-> env]]
    BY <1>5 DEF Unlock
  <2>2. CASE q # p
    <3>1. pc'[q] = pc[q] /\ call'[q] = call[q] /\ attempt'[q] = attempt[q]
      BY <2>1, <2>2 DEF TypeOK
    <3> QED BY <1>2, <3>1
  <2>3. CASE q = p
    <3>1. pc'[q] = "look" /\ attempt'[q] = 1
      BY <2>1, <2>3 DEF TypeOK
    <3>2. Passed(call[q].env, attempt[q])'
      BY <3>1 DEF Passed
    <3> QED BY <3>1, <3>2 DEF Selected
  <2> QED BY <2>2, <2>3
<1>6. ASSUME NEW name \in DOMAIN Fold, NEW password \in Passwords, Add(name, password)
      PROVE  UNCHANGED <<pc, local, attempt>>
  BY <1>6 DEF Add, Record
<1>7. ASSUME NEW profile \in Profiles, NEW current \in Passwords,
             NEW new \in Passwords, Rotate(profile, current, new)
      PROVE  UNCHANGED <<pc, local, attempt>>
  BY <1>7 DEF Rotate, Record
<1>8. ASSUME NEW profile \in Profiles, Alter(profile)
      PROVE  UNCHANGED <<pc, local, attempt>>
  BY <1>8 DEF Alter
<1>9. ASSUME NEW path \in Absolute, Occupy(path) \/ Remove(path)
      PROVE  UNCHANGED <<pc, local, attempt>>
  BY <1>9 DEF Occupy, Remove
<1>10. ASSUME UNCHANGED vars PROVE UNCHANGED <<pc, local, attempt>>
  BY <1>10 DEF vars, local
<1> QED BY <1>3, <1>4, <1>5, <1>6, <1>7, <1>8, <1>9, <1>10, StepKinds

LEMMA PlacedKeeps ==
    ASSUME TypeOK, [Next]_vars, NEW h \in homes, Placed(h)
    PROVE  Placed(h)'
<1>1. Calm /\ written \subseteq written'
  BY CalmStep, WrittenGrows
<1>2. h.env \in Environments
  BY DEF TypeOK, Homes
<1>3. PICK i \in 1 .. Len(Candidates[h.env]) :
          /\ h.root = Candidates[h.env][i]
          /\ ~disturbed => /\ Passed(h.env, i)
                           /\ h.root \in Absolute
                           /\ root[h.root] = "private"
  BY DEF Placed
<1>4. ASSUME disturbed' # TRUE
      PROVE  Passed(h.env, i)' /\ h.root \in Absolute /\ root'[h.root] = "private"
  <2>1. ~disturbed
    BY <1>1, <1>4 DEF Calm, TypeOK
  <2>2. Passed(h.env, i)'
    BY <1>1, <1>2, <1>3, <1>4, <2>1, PassedKeeps
  <2>3. root'[h.root] = "private"
    BY <1>1, <1>3, <1>4, <2>1 DEF Calm
  <2> QED BY <1>3, <2>1, <2>2, <2>3
<1>5. \E record \in written' :
          record.profile = h.profile /\ record.manifest.header.id = h.id
  BY <1>1 DEF Placed
<1> QED BY <1>3, <1>4, <1>5 DEF Placed

LEMMA MakeHomePlaces ==
    ASSUME TypeOK, OpenedAsWritten, NEW p \in Procs, Selected(p), MakeHome(p),
           NEW h \in homes' \ homes
    PROVE  Placed(h)'
<1>1. /\ pc[p] = "home"
      /\ h = [profile |-> call[p].profile, env |-> call[p].env,
              root |-> Path(p), id |-> opened[p].header.id]
      /\ UNCHANGED <<root, disturbed, written>>
  BY DEF MakeHome, store
<1>2. /\ call[p].env \in Environments
      /\ attempt[p] \in 1 .. Len(Candidates[call[p].env])
  BY <1>1, PathType, TypeParts
<1>3. /\ h.profile = call[p].profile /\ h.env = call[p].env
      /\ h.root = Path(p) /\ h.id = opened[p].header.id
  BY <1>1
<1>4. PICK record \in written :
          /\ record.manifest.header = opened[p].header
          /\ record.profile = call[p].profile
  BY <1>1 DEF OpenedAsWritten
<1>5. \E rec \in written' : rec.profile = h.profile /\ rec.manifest.header.id = h.id
  BY <1>1, <1>3, <1>4
<1>6. Path(p) \in Absolute
      /\ (~disturbed => Passed(call[p].env, attempt[p]) /\ root[Path(p)] = "private")
  BY <1>1 DEF Selected
<1> DEFINE i == attempt[p]
<1>7. PICK n \in 1 .. Len(Candidates[h.env]) : n = i
  BY <1>2, <1>3
<1>8. h.root = Candidates[h.env][n]
  BY <1>3, <1>7 DEF Path
<1>9. ~disturbed' => Passed(h.env, n)' /\ h.root \in Absolute /\ root'[h.root] = "private"
  BY <1>1, <1>3, <1>6, <1>7 DEF Passed, Useless
<1> QED BY <1>5, <1>8, <1>9 DEF Placed

LEMMA PlacedStep ==
    ASSUME TypeOK, OpenedAsWritten, \A p \in Procs : Selected(p),
           \A h \in homes : Placed(h), [Next]_vars, NEW g \in homes'
    PROVE  Placed(g)'
<1>1. CASE g \in homes
  BY <1>1, PlacedKeeps
<1>2. CASE g \notin homes
  <2>1. ASSUME NEW name \in DOMAIN Fold, NEW password \in Passwords, Add(name, password)
        PROVE  homes' = homes
    BY <2>1 DEF Add, Record
  <2>2. ASSUME NEW profile \in Profiles, NEW current \in Passwords,
               NEW new \in Passwords, Rotate(profile, current, new)
        PROVE  homes' = homes
    BY <2>2 DEF Rotate, Record
  <2>3. ASSUME NEW profile \in Profiles, Alter(profile) PROVE homes' = homes
    BY <2>3 DEF Alter
  <2>4. ASSUME NEW path \in Absolute, Occupy(path) \/ Remove(path) PROVE homes' = homes
    BY <2>4 DEF Occupy, Remove
  <2>5. ASSUME NEW p \in Procs, NEW profile \in Profiles, NEW password \in Passwords,
               NEW env \in Environments, Unlock(p, profile, password, env)
        PROVE  homes' = homes
    BY <2>5 DEF Unlock
  <2>6. ASSUME NEW p \in Procs, Quiet(p) \/ Create(p) PROVE homes' = homes
    BY <2>6, QuietShape, CreateShape
  <2>7. ASSUME UNCHANGED vars PROVE homes' = homes
    BY <2>7 DEF vars
  <2>8. PICK p \in Procs : MakeHome(p)
    BY <1>2, <2>1, <2>2, <2>3, <2>4, <2>5, <2>6, <2>7, StepKinds
  <2> QED BY <1>2, <2>8, MakeHomePlaces
<1> QED BY <1>1, <1>2

-----------------------------------------------------------------------------
(***************************************************************************)
(* The theorems.                                                           *)
(***************************************************************************)
\* The manifests, the processes and the roots fit together in every state.
THEOREM Invariant == Spec => []IInv
<1>1. Init => IInv
  <2> SUFFICES ASSUME Init PROVE IInv
    OBVIOUS
  <2>1. TypeOK
    BY InitType
  <2> QED BY <2>1 DEF Init, IInv, Written, Stored, OpenedAsWritten, Selected
<1>2. IInv /\ [Next]_vars => IInv'
  <2> SUFFICES ASSUME IInv, [Next]_vars PROVE IInv'
    OBVIOUS
  <2>1. TypeOK'
    BY TypeStep DEF IInv
  <2>2. Written' /\ Stored'
    BY StoreStep DEF IInv
  <2>3. OpenedAsWritten'
    BY OpenedStep DEF IInv
  <2>4. \A p \in Procs : Selected(p)'
    BY SelectedStep DEF IInv
  <2>5. \A h \in homes' : Placed(h)'
    BY PlacedStep DEF IInv
  <2> QED BY <2>1, <2>2, <2>3, <2>4, <2>5 DEF IInv
<1> QED BY <1>1, <1>2, PTL DEF Spec

\* Type correctness of unlock, rotate_password and the selection of the root.
THEOREM TypeCorrect == Spec => []TypeOK
<1>1. IInv => TypeOK
  BY DEF IInv
<1> QED BY <1>1, Invariant, PTL

\* unlock accepts a manifest only as it was written, with the data key and the
\* password it was written for, whatever the storage returns.
THEOREM OnlyAsWritten == Spec => []OpenedAsWritten
<1>1. IInv => OpenedAsWritten
  BY DEF IInv
<1> QED BY <1>1, Invariant, PTL

\* Each manifest of add_user and rotate_password opens with its password and
\* yields the data key of the profile.
THEOREM EveryWrittenOpens == Spec => []WrittenOpens
<1>1. IInv => WrittenOpens
  <2> SUFFICES ASSUME IInv, NEW record \in written
               PROVE  /\ Authenticates(record.manifest, record.profile, record.password)
                      /\ \A other \in written :
                            other.profile = record.profile =>
                               /\ other.manifest.header.id = record.manifest.header.id
                               /\ other.key = record.manifest.wrapped.sealed.key
    BY DEF WrittenOpens
  <2>1. WellWritten(record) /\ record.manifest \in Manifests /\ record \in Records
    BY DEF IInv, Written, TypeOK, Records
  <2>2. /\ record.manifest.wrapped.sealed.under =
              DeriveKey(record.password, record.manifest.header.kdf)
        /\ record.manifest.wrapped.sealed.aad = AssociatedData(record.manifest.header)
        /\ record.manifest.wrapped.sealed.key = record.key
    BY <2>1 DEF WellWritten
  <2>3. record.manifest.wrapped.sealed # Damaged
    <3>1. record.manifest.header \in Headers /\ record.password \in Passwords
          /\ record.key \in Keys
      BY <2>1 DEF Manifests, Records
    <3>2. record.manifest.header.kdf \in Kdfs
      BY <3>1 DEF Headers
    <3>3. record.manifest.wrapped.sealed \in Sealings
      BY <2>1, <3>1, <3>2, AssociatedDataIsText
         DEF WellWritten, Sealings, Derived, DeriveKey
    <3> QED BY <3>3, DamagedAssumption
  <2>4. Authenticates(record.manifest, record.profile, record.password)
    BY <2>1, <2>2, <2>3 DEF Authenticates, Unwraps, WellWritten
  <2>5. ASSUME NEW other \in written, other.profile = record.profile
        PROVE  /\ other.manifest.header.id = record.manifest.header.id
               /\ other.key = record.manifest.wrapped.sealed.key
    <3>1. Related(other, record)
      BY DEF IInv, Written
    <3> QED BY <2>2, <2>5, <3>1 DEF Related
  <2> QED BY <2>4, <2>5
<1> QED BY <1>1, Invariant, PTL

\* The path of a profile's sessions does not change under an override, nor
\* under any environment while nobody interferes with the candidates.
THEOREM HomeIsStable == Spec => []StableHome
<1>1. IInv => StableHome
  <2> SUFFICES ASSUME IInv, NEW one \in homes, NEW other \in homes,
                      one.profile = other.profile, one.env = other.env,
                      one.env \in Overriding \/ ~disturbed
               PROVE  one.root = other.root /\ one.id = other.id
    BY DEF StableHome
  <2>1. Placed(one) /\ Placed(other) /\ one.env \in Environments
    BY DEF IInv, TypeOK, Homes
  <2>2. one.id = other.id
    <3>1. PICK r1 \in written : r1.profile = one.profile /\ r1.manifest.header.id = one.id
      BY <2>1 DEF Placed
    <3>2. PICK r2 \in written :
             r2.profile = other.profile /\ r2.manifest.header.id = other.id
      BY <2>1 DEF Placed
    <3>3. Related(r1, r2)
      BY DEF IInv, Written
    <3> QED BY <3>1, <3>2, <3>3 DEF Related
  <2>3. PICK i \in 1 .. Len(Candidates[one.env]) :
            /\ one.root = Candidates[one.env][i]
            /\ ~disturbed => /\ Passed(one.env, i)
                             /\ one.root \in Absolute
                             /\ root[one.root] = "private"
    BY <2>1 DEF Placed
  <2>4. PICK j \in 1 .. Len(Candidates[one.env]) :
            /\ other.root = Candidates[one.env][j]
            /\ ~disturbed => /\ Passed(one.env, j)
                             /\ other.root \in Absolute
                             /\ root[other.root] = "private"
    BY <2>1 DEF Placed
  <2>5. CASE one.env \in Overriding
    <3>1. i = 1 /\ j = 1
      <4>1. Len(Candidates[one.env]) = 1
        BY <2>5, RootsAssumption
      <4>2. i \in 1 .. 1 /\ j \in 1 .. 1
        BY <4>1
      <4> QED BY <4>2
    <3> QED BY <2>2, <2>3, <2>4, <3>1
  <2>6. CASE ~disturbed
    <3>1. ~(i < j)
      <4>1. i < j => i \in 1 .. j - 1
        BY <2>1, CandidatesLists
      <4> QED BY <2>3, <2>4, <2>6, <4>1 DEF Passed, Useless
    <3>2. ~(j < i)
      <4>1. j < i => j \in 1 .. i - 1
        BY <2>1, CandidatesLists
      <4> QED BY <2>3, <2>4, <2>6, <4>1 DEF Passed, Useless
    <3>3. i = j
      BY <2>1, <3>1, <3>2, CandidatesLists
    <3> QED BY <2>2, <2>3, <2>4, <3>3
  <2> QED BY <2>5, <2>6
<1> QED BY <1>1, Invariant, PTL

=============================================================================
