------------------------ MODULE KnowledgeStoreProofs ------------------------
(***************************************************************************)
(* Proofs about KnowledgeStore, for every set of families, bodies and      *)
(* saves and for every bound: what its releases promise, and then what its *)
(* conflict register does.                                                 *)
(***************************************************************************)
EXTENDS KnowledgeStore, SequenceTheorems, TLAPS

-----------------------------------------------------------------------------
(* Types. *)

(* A record of the register has the type of a record. *)
LEMMA ConflictAt ==
  ASSUME TypeOK, NEW i \in DOMAIN conflicts
  PROVE  i \in 1..Len(conflicts) /\ conflicts[i] \in Conflict
<1>1. conflicts \in Seq(Conflict)
  BY DEF TypeOK
<1> QED BY <1>1, LenProperties, ElementOfSeq

(* The current version of a family is a number, and its versions are rows. *)
LEMMA CurrentNat ==
  ASSUME TypeOK, NEW f \in Family
  PROVE  Current(f) \in Nat
BY LenProperties DEF TypeOK, Current

(* A save is itself a version row. *)
LEMMA PayloadIsVersion == Payload \subseteq Version
BY PayloadAssumption DEF Version

(* What saveDocTx makes of the versions of a family: one more version, the
   saved one, and the others as they were but for a demotion. *)
LEMMA SavedFacts ==
  ASSUME TypeOK, NEW f \in Family, NEW p \in Payload
  PROVE  /\ Saved(f, p) \in Seq(Version)
         /\ Len(Saved(f, p)) = Current(f) + 1
         /\ Saved(f, p)[Current(f) + 1] = p
         /\ \A v \in 1..Current(f) :
              Saved(f, p)[v] =
                IF p.status = "active" /\ docs[f][v].status = "active"
                  THEN [docs[f][v] EXCEPT !.status = "superseded"]
                  ELSE docs[f][v]
<1>1. docs[f] \in Seq(Version) /\ Current(f) \in Nat
  BY DEF TypeOK, Current
<1>2. p \in Version
  BY PayloadIsVersion
<1>3. \A v \in 1..Current(f) :
        docs[f][v] \in Version
  BY <1>1 DEF Current
<1>4. \A w \in Version : [w EXCEPT !.status = "superseded"] \in Version
  BY DEF Version
<1>5. \A v \in 1..Current(f) + 1 : Saved(f, p)[v] \in Version
  <2> SUFFICES ASSUME NEW v \in 1..Current(f) + 1 PROVE Saved(f, p)[v] \in Version
    OBVIOUS
  <2>1. CASE v = Current(f) + 1
    BY <2>1, <1>2 DEF Saved
  <2>2. CASE v # Current(f) + 1
    <3>1. v \in 1..Current(f)
      BY <2>2, <1>1
    <3> QED BY <3>1, <2>2, <1>3, <1>4 DEF Saved
  <2> QED BY <2>1, <2>2
<1>6. Saved(f, p) \in [1..Current(f) + 1 -> Version]
  BY <1>5 DEF Saved
<1>7. Saved(f, p) \in Seq(Version)
  BY <1>1, <1>6, SeqDef
<1>8. Len(Saved(f, p)) = Current(f) + 1
  <2>1. DOMAIN Saved(f, p) = 1..Current(f) + 1
    BY DEF Saved
  <2> QED BY <2>1, <1>1, <1>7, LenProperties
<1> QED BY <1>1, <1>7, <1>8 DEF Saved

(* The document table after any step: a family is as it was, or one save
   was made to it. *)
DocsStep ==
  \A f \in Family : \/ docs'[f] = docs[f]
                    \/ \E p \in Payload : docs'[f] = Saved(f, p)

(* saveDocTx saves one payload as the next version of one family. *)
LEMMA SaveTxStep ==
  ASSUME TypeOK, NEW f \in Family, NEW p \in Payload, NEW base, SaveTx(f, base, p)
  PROVE  DocsStep
BY DEF SaveTx, DocsStep, TypeOK

(* Whatever the operation, a family gains at most one saved version. *)
LEMMA NextDocsStep ==
  ASSUME TypeOK, [Next]_vars
  PROVE  DocsStep
<1>1. CASE UNCHANGED vars
  BY <1>1 DEF vars, DocsStep
<1>2. ASSUME NEW f \in Family, NEW base \in Base, NEW p \in Payload,
             SaveDoc(f, base, p) \/ SaveStale(f, base, p)
      PROVE  DocsStep
  BY <1>2, SaveTxStep DEF SaveDoc, SaveStale, DocsStep
<1>3. CASE CutRefused
  BY <1>3 DEF CutRefused, DocsStep
<1>4. ASSUME NEW h \in Hash, CutRelease(h) PROVE DocsStep
  BY <1>4 DEF CutRelease, DocsStep
<1>5. ASSUME NEW f \in Family, NEW other \in Family \cup {None}, FlagClaim(f, other)
      PROVE  DocsStep
  BY <1>5 DEF FlagClaim, DocsStep
<1>6. ASSUME NEW i \in DOMAIN conflicts, NEW seen \in 1..MaxAttempts, ResolveKeep(i, seen)
      PROVE  DocsStep
  BY <1>6 DEF ResolveKeep, DocsStep
<1>7. ASSUME NEW i \in DOMAIN conflicts, NEW seen \in 1..MaxAttempts,
             NEW base \in Base, NEW p \in Payload, ResolveSave(i, seen, base, p)
      PROVE  DocsStep
  <2>1. conflicts[i].family \in Family
    BY ConflictAt DEF Conflict
  <2> QED BY <1>7, <2>1, SaveTxStep DEF ResolveSave
<1> QED BY <1>1, <1>2, <1>3, <1>4, <1>5, <1>6, <1>7 DEF Next

(* An inserted record keeps the type of the register. *)
LEMMA InsertType ==
  ASSUME TypeOK, NEW row \in Conflict, Insert(row)
  PROVE  conflicts' \in Seq(Conflict)
BY DEF TypeOK, Insert

(* So does a record that is replaced by another one. *)
LEMMA RewriteType ==
  ASSUME TypeOK, NEW i \in DOMAIN conflicts, NEW row \in Conflict,
         conflicts' = [conflicts EXCEPT ![i] = row]
  PROVE  conflicts' \in Seq(Conflict)
BY ConflictAt, ExceptSeq DEF TypeOK

(* A record as it is opened has the type of a record. *)
LEMMA OpenedType ==
  ASSUME NEW kind \in {"edit", "claim", "policy"}, NEW f \in Family,
         NEW other \in Family \cup {None}, NEW base \in Nat, NEW their \in Nat,
         NEW attempted \in Payload \cup {None}
  PROVE  Opened(kind, f, other, base, their, attempted) \in Conflict
BY DEF Opened, Conflict

(* An open record refreshed with a later attempt is still a record. *)
LEMMA RefreshType ==
  ASSUME NEW c \in Conflict, NEW base \in Nat, NEW their \in Nat,
         NEW attempted \in Payload \cup {None}
  PROVE  [c EXCEPT !.base = base, !.their = their,
                   !.attempts = @ + 1, !.attempted = attempted] \in Conflict
<1>1. [c EXCEPT !.base = base] \in Conflict
  BY DEF Conflict
<1> DEFINE c1 == [c EXCEPT !.base = base]
<1>2. [c1 EXCEPT !.their = their] \in Conflict
  <2>1. \A x \in Conflict : [x EXCEPT !.their = their] \in Conflict
    BY DEF Conflict
  <2> QED BY <1>1, <2>1
<1> DEFINE c2 == [c1 EXCEPT !.their = their]
<1>3. [c2 EXCEPT !.attempts = @ + 1] \in Conflict
  <2>1. \A x \in Conflict : [x EXCEPT !.attempts = @ + 1] \in Conflict
    BY DEF Conflict
  <2> HIDE DEF c2
  <2> QED BY <1>2, <2>1 DEF c2
<1> DEFINE c3 == [c2 EXCEPT !.attempts = @ + 1]
<1>4. [c3 EXCEPT !.attempted = attempted] \in Conflict
  <2>1. \A x \in Conflict : [x EXCEPT !.attempted = attempted] \in Conflict
    BY DEF Conflict
  <2> HIDE DEF c3
  <2> QED BY <1>3, <2>1 DEF c3
<1>5. [c3 EXCEPT !.attempted = attempted]
        = [c EXCEPT !.base = base, !.their = their,
                    !.attempts = @ + 1, !.attempted = attempted]
  OBVIOUS
<1> QED BY <1>4, <1>5

(* Opening or refreshing a record keeps the type of the register. *)
LEMMA UpsertType ==
  ASSUME TypeOK, NEW kind \in {"edit", "policy"}, NEW f \in Family,
         NEW base \in Nat, NEW their \in Nat, NEW attempted \in Payload \cup {None},
         Upsert(kind, f, base, their, attempted)
  PROVE  conflicts' \in Seq(Conflict)
<1>1. CASE Insert(Opened(kind, f, None, base, their, attempted))
  BY <1>1, OpenedType, InsertType
<1>2. ASSUME NEW i \in OpenRows(kind, f),
             conflicts' = [conflicts EXCEPT ![i].base = base,
                                            ![i].their = their,
                                            ![i].attempts = @ + 1,
                                            ![i].attempted = attempted]
      PROVE  conflicts' \in Seq(Conflict)
  <2> DEFINE row == [conflicts[i] EXCEPT !.base = base, !.their = their,
                                         !.attempts = @ + 1, !.attempted = attempted]
  <2>1. i \in DOMAIN conflicts
    BY DEF OpenRows
  <2>2. row \in Conflict
    BY <2>1, ConflictAt, RefreshType
  <2>3. conflicts' = [conflicts EXCEPT ![i] = row]
    BY <1>2
  <2> QED BY <2>1, <2>2, <2>3, RewriteType
<1> QED BY <1>1, <1>2 DEF Upsert

(* So does resolving one. *)
LEMMA ResolveType ==
  ASSUME TypeOK, NEW i \in DOMAIN conflicts, NEW winning \in Nat, Resolve(i, winning)
  PROVE  conflicts' \in Seq(Conflict)
<1> DEFINE row == [conflicts[i] EXCEPT !.status = "resolved", !.winning = winning]
<1>1. row \in Conflict
  BY ConflictAt DEF Conflict
<1>2. conflicts' = [conflicts EXCEPT ![i] = row]
  BY DEF Resolve
<1> QED BY <1>1, <1>2, RewriteType

(* The rows a release takes are version rows. *)
LEMMA CandidateType ==
  ASSUME TypeOK
  PROVE  /\ Candidate \subseteq DocRef
         /\ \A d \in Candidate : /\ d.version \in 1..Current(d.family)
                                 /\ docs[d.family][d.version] \in Version
                                 /\ docs[d.family][d.version].status = "active"
<1> SUFFICES ASSUME NEW d \in Candidate
    PROVE /\ d \in DocRef
          /\ d.version \in 1..Current(d.family)
          /\ docs[d.family][d.version] \in Version
          /\ docs[d.family][d.version].status = "active"
  OBVIOUS
<1>1. /\ d \in [family : Family, version : 1..MaxVersion]
      /\ Status(d) = "active"
  BY DEF Candidate
<1>2. d \in DocRef
  BY <1>1, BoundAssumption DEF DocRef
<1>3. d.version \in DOMAIN docs[d.family] /\ docs[d.family][d.version].status = "active"
  BY <1>1 DEF Status
<1>4. docs[d.family] \in Seq(Version)
  BY <1>1 DEF TypeOK
<1>5. d.version \in 1..Current(d.family)
  BY <1>3, <1>4, LenProperties DEF Current
<1>6. docs[d.family][d.version] \in Version
  BY <1>4, <1>5, ElementOfSeq DEF Current
<1> QED BY <1>2, <1>3, <1>5, <1>6

(* The version of a family in a manifest is a number. *)
LEMMA ManifestVersionType ==
  ASSUME NEW ds \in SUBSET DocRef, NEW f
  PROVE  ManifestVersion(ds, f) \in Nat
<1>1. CASE \E d \in ds : d.family = f
  <2> DEFINE e == CHOOSE d \in ds : d.family = f
  <2>1. e \in ds
    BY <1>1
  <2> QED BY <1>1, <2>1 DEF ManifestVersion, DocRef
<1>2. CASE ~\E d \in ds : d.family = f
  BY <1>2 DEF ManifestVersion
<1> QED BY <1>1, <1>2

(* A cut that clears the policy conflicts keeps the types of both tables. *)
LEMMA CutType ==
  ASSUME TypeOK, NEW h, CutRelease(h)
  PROVE  releases' \in Seq(Release) /\ conflicts' \in Seq(Conflict)
<1> DEFINE rel == [docs |-> Candidate, content |-> Content(Candidate)]
<1>1. rel \in Release
  <2>1. Content(Candidate) \subseteq Family \X Body
    BY CandidateType DEF Content, BodyOf, Version, DocRef
  <2> QED BY <2>1, CandidateType DEF Release
<1>2. releases' \in Seq(Release)
  BY <1>1 DEF CutRelease, TypeOK
<1> DEFINE id == Len(releases) + 1
<1>3. id \in Nat
  BY LenProperties DEF TypeOK
<1>4. \A i \in DOMAIN conflicts : Cleared(conflicts[i], Candidate, id) \in Conflict
  <2> TAKE i \in DOMAIN conflicts
  <2>1. conflicts[i] \in Conflict
    BY ConflictAt
  <2>2. ManifestVersion(Candidate, conflicts[i].family) \in Nat
    BY CandidateType, ManifestVersionType
  <2> QED BY <2>1, <2>2, <1>3 DEF Cleared, Conflict
<1>5. conflicts' = [i \in DOMAIN conflicts |-> Cleared(conflicts[i], Candidate, id)]
  BY DEF CutRelease
<1>6. /\ DOMAIN conflicts = 1..Len(conflicts)
      /\ Len(conflicts) \in Nat
  BY LenProperties DEF TypeOK
<1>7. conflicts' \in [1..Len(conflicts) -> Conflict]
  BY <1>4, <1>5, <1>6
<1>8. conflicts' \in Seq(Conflict)
  BY <1>6, <1>7, SeqDef
<1> QED BY <1>2, <1>8

(* saveDocTx keeps the type of the documents. *)
LEMMA SaveTxType ==
  ASSUME TypeOK, NEW f \in Family, NEW p \in Payload, NEW base, SaveTx(f, base, p)
  PROVE  docs' \in [Family -> Seq(Version)]
BY SavedFacts DEF SaveTx, TypeOK

(* Every operation keeps the types. *)
LEMMA TypeStep ==
  ASSUME TypeOK, [Next]_vars
  PROVE  TypeOK'
<1>1. CASE UNCHANGED vars
  BY <1>1 DEF vars, TypeOK
<1>2. ASSUME NEW f \in Family, NEW base \in Base, NEW p \in Payload, SaveDoc(f, base, p)
      PROVE  TypeOK'
  BY <1>2, SaveTxType DEF SaveDoc, TypeOK
<1>3. ASSUME NEW f \in Family, NEW base \in Base, NEW p \in Payload, SaveStale(f, base, p)
      PROVE  TypeOK'
  <2>1. base \in Nat
    BY <1>3, BoundAssumption DEF SaveStale, Base
  <2>2. conflicts' \in Seq(Conflict)
    BY <1>3, <2>1, CurrentNat, UpsertType DEF SaveStale
  <2> QED BY <1>3, <2>2 DEF SaveStale, TypeOK
<1>4. CASE CutRefused
  <2>1. PICK d \in Offenders : Upsert("policy", d.family, 0, d.version, None)
    BY <1>4 DEF CutRefused
  <2>2. d \in DocRef
    BY CandidateType DEF Offenders, OverCap, BadLinks
  <2>3. conflicts' \in Seq(Conflict)
    BY <2>1, <2>2, UpsertType DEF DocRef
  <2> QED BY <1>4, <2>3 DEF CutRefused, TypeOK
<1>5. ASSUME NEW h \in Hash, CutRelease(h) PROVE TypeOK'
  BY <1>5, CutType DEF CutRelease, TypeOK
<1>6. ASSUME NEW f \in Family, NEW other \in Family \cup {None}, FlagClaim(f, other)
      PROVE  TypeOK'
  <2> DEFINE swap == other # None /\ Rank[other] < Rank[f]
             primary == IF swap THEN other ELSE f
             second == IF swap THEN f ELSE other
             their == IF second = None THEN 0 ELSE Current(second)
  <2>1. primary \in Family /\ second \in Family \cup {None}
    OBVIOUS
  <2>2. Current(primary) \in Nat /\ their \in Nat
    BY <2>1, CurrentNat
  <2>3. Insert(Opened("claim", primary, second, Current(primary), their, None))
    BY <1>6 DEF FlagClaim
  <2> HIDE DEF primary, second, their
  <2>4. conflicts' \in Seq(Conflict)
    BY <2>1, <2>2, <2>3, OpenedType, InsertType
  <2> QED BY <1>6, <2>4 DEF FlagClaim, TypeOK
<1>7. ASSUME NEW i \in DOMAIN conflicts, NEW seen \in 1..MaxAttempts, ResolveKeep(i, seen)
      PROVE  TypeOK'
  <2>1. conflicts[i].family \in Family
    BY ConflictAt DEF Conflict
  <2>2. (IF conflicts[i].kind = "policy" THEN 0 ELSE Current(conflicts[i].family)) \in Nat
    BY <2>1, CurrentNat
  <2>3. conflicts' \in Seq(Conflict)
    BY <1>7, <2>2, ResolveType DEF ResolveKeep
  <2> QED BY <1>7, <2>3 DEF ResolveKeep, TypeOK
<1>8. ASSUME NEW i \in DOMAIN conflicts, NEW seen \in 1..MaxAttempts,
             NEW base \in Base, NEW p \in Payload, ResolveSave(i, seen, base, p)
      PROVE  TypeOK'
  <2>1. conflicts[i].family \in Family
    BY ConflictAt DEF Conflict
  <2>2. Current(conflicts[i].family) + 1 \in Nat
    BY <2>1, CurrentNat
  <2>3. conflicts' \in Seq(Conflict)
    BY <1>8, <2>2, ResolveType DEF ResolveSave
  <2>4. docs' \in [Family -> Seq(Version)]
    BY <1>8, <2>1, SaveTxType DEF ResolveSave
  <2> QED BY <1>8, <2>3, <2>4 DEF ResolveSave, TypeOK
<1> QED BY <1>1, <1>2, <1>3, <1>4, <1>5, <1>6, <1>7, <1>8 DEF Next

(* The empty store has the types. *)
LEMMA TypeInit == Init => TypeOK
BY EmptySeq DEF Init, TypeOK

(* The tables keep their types: every conflict row has counted attempts and a
   family that exists, whichever operations wrote it. *)
THEOREM TypeCorrect == Spec => []TypeOK
<1>1. TypeOK /\ [Next]_vars => TypeOK'
  BY TypeStep
<1> QED BY <1>1, TypeInit, PTL DEF Spec

-----------------------------------------------------------------------------
(* Documents: what a save keeps. *)

(* An active version is a version of its family. *)
LEMMA ActiveVersionsFacts ==
  ASSUME TypeOK, NEW f \in Family
  PROVE  /\ DOMAIN docs[f] = 1..Current(f)
         /\ Current(f) \in Nat
         /\ \A v \in 1..Current(f) : docs[f][v] \in Version
         /\ ActiveVersions(f) = {v \in 1..Current(f) : docs[f][v].status = "active"}
<1>1. docs[f] \in Seq(Version)
  BY DEF TypeOK
<1> QED BY <1>1, LenProperties, ElementOfSeq DEF Current, ActiveVersions

(* The same in terms of the saved family, for the state after a step. *)
LEMMA DocsStepFacts ==
  ASSUME TypeOK, TypeOK', DocsStep, NEW f \in Family
  PROVE  \/ Current(f)' = Current(f) /\ docs'[f] = docs[f]
         \/ \E p \in Payload :
              /\ Current(f)' = Current(f) + 1
              /\ docs'[f][Current(f) + 1] = p
              /\ \A v \in 1..Current(f) :
                   docs'[f][v] = IF p.status = "active" /\ docs[f][v].status = "active"
                                   THEN [docs[f][v] EXCEPT !.status = "superseded"]
                                   ELSE docs[f][v]
BY SavedFacts DEF DocsStep, Current

(* No version is lost and none changes its body or links. *)
LEMMA VersionsKept ==
  ASSUME TypeOK, TypeOK', DocsStep, NEW f \in Family, NEW v \in 1..Current(f)
  PROVE  /\ v \in 1..Current(f)'
         /\ docs'[f][v].body = docs[f][v].body
         /\ docs'[f][v].links = docs[f][v].links
<1>1. Current(f) \in Nat /\ docs[f][v] \in Version
  BY ActiveVersionsFacts
<1>2. CASE Current(f)' = Current(f) /\ docs'[f] = docs[f]
  BY <1>2
<1>3. ASSUME NEW p \in Payload,
             Current(f)' = Current(f) + 1,
             docs'[f][v] = IF p.status = "active" /\ docs[f][v].status = "active"
                             THEN [docs[f][v] EXCEPT !.status = "superseded"]
                             ELSE docs[f][v]
      PROVE  /\ v \in 1..Current(f)'
             /\ docs'[f][v].body = docs[f][v].body
             /\ docs'[f][v].links = docs[f][v].links
  <2>1. v \in 1..Current(f)'
    BY <1>1, <1>3
  <2>2. \A x \in Version : LET y == [x EXCEPT !.status = "superseded"]
                           IN  y.body = x.body /\ y.links = x.links
    BY DEF Version
  <2> QED BY <1>1, <1>3, <2>1, <2>2
<1> QED BY <1>2, <1>3, DocsStepFacts

(* A family with an active version keeps one, at the same place or later. *)
LEMMA ActiveKept ==
  ASSUME TypeOK, TypeOK', DocsStep, NEW f \in Family, NEW v \in ActiveVersions(f)
  PROVE  \E w \in ActiveVersions(f)' : w >= v
<1>1. /\ Current(f) \in Nat
      /\ v \in 1..Current(f)
      /\ docs[f][v].status = "active"
  BY ActiveVersionsFacts
<1>2. ActiveVersions(f)' = {w \in 1..Current(f)' : docs'[f][w].status = "active"}
  BY ActiveVersionsFacts DEF ActiveVersions, TypeOK, Current
<1>3. CASE Current(f)' = Current(f) /\ docs'[f] = docs[f]
  BY <1>1, <1>2, <1>3
<1>4. ASSUME NEW p \in Payload,
             Current(f)' = Current(f) + 1,
             docs'[f][Current(f) + 1] = p,
             docs'[f][v] = IF p.status = "active" /\ docs[f][v].status = "active"
                             THEN [docs[f][v] EXCEPT !.status = "superseded"]
                             ELSE docs[f][v]
      PROVE  \E w \in ActiveVersions(f)' : w >= v
  <2>1. CASE p.status = "active"
    BY <1>1, <1>2, <1>4, <2>1
  <2>2. CASE p.status # "active"
    BY <1>1, <1>2, <1>4, <2>2
  <2> QED BY <2>1, <2>2
<1> QED BY <1>1, <1>3, <1>4, DocsStepFacts

(* A save leaves one active version, the one it saved or the one there was. *)
LEMMA ActiveSupersedesStep ==
  ASSUME TypeOK, TypeOK', DocsStep, ActiveSupersedes
  PROVE  ActiveSupersedes'
<1> SUFFICES ASSUME NEW f \in Family
             PROVE  /\ \A v, w \in ActiveVersions(f)' : v = w
                    /\ \A v \in DOMAIN docs'[f] :
                         docs'[f][v].status = "superseded" =>
                           \E w \in ActiveVersions(f)' : w > v
  BY DEF ActiveSupersedes
<1>1. /\ Current(f) \in Nat
      /\ DOMAIN docs[f] = 1..Current(f)
      /\ \A v \in 1..Current(f) : docs[f][v] \in Version
      /\ ActiveVersions(f) = {v \in 1..Current(f) : docs[f][v].status = "active"}
  BY ActiveVersionsFacts
<1>2. /\ DOMAIN docs'[f] = 1..Current(f)'
      /\ ActiveVersions(f)' = {v \in 1..Current(f)' : docs'[f][v].status = "active"}
  <2>1. docs'[f] \in Seq(Version)
    BY DEF TypeOK
  <2> QED BY <2>1, LenProperties DEF Current, ActiveVersions
<1>3. /\ \A v, w \in ActiveVersions(f) : v = w
      /\ \A v \in DOMAIN docs[f] : docs[f][v].status = "superseded" =>
           \E w \in ActiveVersions(f) : w > v
  BY DEF ActiveSupersedes
<1>4. CASE Current(f)' = Current(f) /\ docs'[f] = docs[f]
  BY <1>1, <1>2, <1>3, <1>4
<1>5. ASSUME NEW p \in Payload,
             Current(f)' = Current(f) + 1,
             docs'[f][Current(f) + 1] = p,
             \A v \in 1..Current(f) :
               docs'[f][v] = IF p.status = "active" /\ docs[f][v].status = "active"
                               THEN [docs[f][v] EXCEPT !.status = "superseded"]
                               ELSE docs[f][v]
      PROVE  /\ \A v, w \in ActiveVersions(f)' : v = w
             /\ \A v \in DOMAIN docs'[f] :
                  docs'[f][v].status = "superseded" => \E w \in ActiveVersions(f)' : w > v
  <2>1. \A x \in Version : [x EXCEPT !.status = "superseded"].status = "superseded"
    BY DEF Version
  <2>2. p.status \in {"draft", "active"}
    BY PayloadAssumption
  <2>3. CASE p.status = "active"
    <3>2. \A v \in 1..Current(f) : docs'[f][v].status # "active"
      BY <1>1, <1>5, <2>1, <2>3
    <3>3. docs'[f][Current(f) + 1].status = "active"
      BY <1>5, <2>3
    <3>1. ActiveVersions(f)' = {Current(f) + 1}
      BY <1>1, <1>2, <1>5, <3>2, <3>3
    <3> QED BY <1>1, <1>2, <1>5, <3>1
  <2>4. CASE p.status = "draft"
    <3>1. \A v \in 1..Current(f) : docs'[f][v] = docs[f][v]
      BY <1>5, <2>4
    <3>2. docs'[f][Current(f) + 1].status = "draft"
      BY <1>5, <2>4
    <3>3. DOMAIN docs'[f] = 1..Current(f) + 1
      BY <1>2, <1>5
    <3>4. ActiveVersions(f)' = ActiveVersions(f)
      BY <1>1, <1>2, <1>5, <3>1, <3>2
    <3>5. \A v, w \in ActiveVersions(f)' : v = w
      BY <1>3, <3>4
    <3>6. ASSUME NEW v \in DOMAIN docs'[f], docs'[f][v].status = "superseded"
          PROVE  \E w \in ActiveVersions(f)' : w > v
      <4>1. v \in 1..Current(f)
        BY <1>1, <3>2, <3>3, <3>6
      <4>2. docs[f][v].status = "superseded"
        BY <3>1, <3>6, <4>1
      <4> QED BY <1>1, <1>3, <3>4, <4>1, <4>2
    <3> QED BY <3>5, <3>6
  <2> QED BY <2>2, <2>3, <2>4
<1> QED BY <1>4, <1>5, DocsStepFacts

-----------------------------------------------------------------------------
(* Releases. *)

(* Everything a release took is still there: an active version of the family
   is at least as new. *)
ReleasedStillActive ==
  \A r \in DOMAIN releases : \A d \in releases[r].docs :
    /\ d.version \in 1..Current(d.family)
    /\ \E w \in ActiveVersions(d.family) : w >= d.version

(* The inductive invariant of the release history.  ReleasedStillActive is
   what ties a cut, which looks at the documents only, to the releases cut
   before it. *)
ReleaseInv ==
  /\ TypeOK
  /\ \A f \in Family : Current(f) <= MaxVersion
  /\ ActiveSupersedes
  /\ ReleasedStillActive
  /\ ReleaseClosed
  /\ ReleasesMoveForward
  /\ ArchiveMatchesHash

(* A release of the log has the type of a release. *)
LEMMA ReleaseAt ==
  ASSUME TypeOK, NEW r \in DOMAIN releases
  PROVE  /\ r \in 1..Len(releases)
         /\ releases[r] \in Release
         /\ \A d \in releases[r].docs : d \in DocRef /\ d.family \in Family
<1>1. releases \in Seq(Release)
  BY DEF TypeOK
<1>2. r \in 1..Len(releases) /\ releases[r] \in Release
  BY <1>1, LenProperties, ElementOfSeq
<1> QED BY <1>2 DEF Release, DocRef

(* An active version is a row of the candidate. *)
LEMMA ActiveIsCandidate ==
  ASSUME TypeOK, NEW f \in Family, Current(f) <= MaxVersion,
         NEW w \in ActiveVersions(f)
  PROVE  [family |-> f, version |-> w] \in Candidate
<1>1. /\ w \in DOMAIN docs[f]
      /\ docs[f][w].status = "active"
      /\ w \in 1..Current(f)
      /\ Current(f) \in Nat
  BY ActiveVersionsFacts
<1>2. w \in 1..MaxVersion
  BY <1>1, BoundAssumption
<1> QED BY <1>1, <1>2 DEF Candidate, Status

(* A step that cuts no release keeps the history: versions keep their body
   and links, and active families stay active. *)
LEMMA HistoryFrame ==
  ASSUME ReleaseInv, TypeOK', DocsStep, releases' = releases
  PROVE  /\ ReleasedStillActive'
         /\ ReleaseClosed'
         /\ ReleasesMoveForward'
         /\ ArchiveMatchesHash'
<1> USE DEF ReleaseInv
<1>1. \A r \in DOMAIN releases : \A d \in releases[r].docs :
        /\ d.family \in Family
        /\ d.version \in 1..Current(d.family)
        /\ d.version \in 1..Current(d.family)'
        /\ docs'[d.family][d.version].body = docs[d.family][d.version].body
        /\ docs'[d.family][d.version].links = docs[d.family][d.version].links
  BY ReleaseAt, VersionsKept DEF ReleasedStillActive
<1>2. ReleasedStillActive'
  <2> SUFFICES ASSUME NEW r \in DOMAIN releases, NEW d \in releases[r].docs
               PROVE  \E w \in ActiveVersions(d.family)' : w >= d.version
    BY <1>1 DEF ReleasedStillActive, ActiveVersions, Current
  <2>1. PICK v \in ActiveVersions(d.family) : v >= d.version
    BY DEF ReleasedStillActive
  <2>2. PICK w \in ActiveVersions(d.family)' : w >= v
    BY <1>1, ActiveKept
  <2>3. /\ d.version \in Nat /\ v \in Nat
        /\ ActiveVersions(d.family)' \subseteq Nat
    <3>1. ActiveVersions(d.family) \subseteq Nat
      BY <1>1, ActiveVersionsFacts
    <3>2. docs'[d.family] \in Seq(Version)
      BY <1>1 DEF TypeOK
    <3>3. ActiveVersions(d.family)' \subseteq Nat
      BY <3>2, LenProperties DEF ActiveVersions
    <3> QED BY <1>1, <3>1, <3>3
  <2> QED BY <2>1, <2>2, <2>3
<1>3. ReleaseClosed'
  <2> SUFFICES ASSUME NEW r \in DOMAIN releases, NEW d \in releases[r].docs,
                      NEW l \in docs'[d.family][d.version].links
               PROVE  \E e \in releases[r].docs :
                        /\ e.family = l.to.family
                        /\ IF l.relation = "reference" THEN e.version = l.to.version
                                                       ELSE e.version > l.to.version
    BY DEF ReleaseClosed
  <2>1. l \in docs[d.family][d.version].links
    BY <1>1
  <2> QED BY <2>1 DEF ReleaseClosed
<1>4. ReleasesMoveForward'
  BY DEF ReleasesMoveForward
<1>5. ArchiveMatchesHash'
  <2>1. \A r \in DOMAIN releases : Content(releases[r].docs)' = Content(releases[r].docs)
    BY <1>1 DEF Content, BodyOf
  <2> QED BY <2>1 DEF ArchiveMatchesHash
<1> QED BY <1>2, <1>3, <1>4, <1>5

(* A cut appends the candidate. *)
LEMMA CutFacts ==
  ASSUME TypeOK, NEW h, CutRelease(h)
  PROVE  LET n == Len(releases) IN
         /\ n \in Nat
         /\ docs' = docs
         /\ DOMAIN releases = 1..n
         /\ DOMAIN releases' = 1..n + 1
         /\ \A r \in 1..n : releases'[r] = releases[r]
         /\ releases'[n + 1] = [docs |-> Candidate, content |-> Content(Candidate)]
         /\ BadLinks = {}
<1>1. releases \in Seq(Release) /\ releases' \in Seq(Release)
  BY CutType DEF TypeOK
<1>2. Len(releases) \in Nat /\ DOMAIN releases = 1..Len(releases)
  BY <1>1, LenProperties
<1>3. releases' = Append(releases, [docs |-> Candidate, content |-> Content(Candidate)])
  BY DEF CutRelease
<1> DEFINE rel == [docs |-> Candidate, content |-> Content(Candidate)]
<1>4. rel \in Release
  <2>1. Content(Candidate) \subseteq Family \X Body
    BY CandidateType DEF Content, BodyOf, Version, DocRef
  <2> QED BY <2>1, CandidateType DEF Release
<1> HIDE DEF rel
<1>5. /\ Len(releases') = Len(releases) + 1
      /\ \A r \in 1..Len(releases) : releases'[r] = releases[r]
      /\ releases'[Len(releases) + 1] = rel
  BY <1>1, <1>2, <1>3, <1>4 DEF rel
<1>6. DOMAIN releases' = 1..Len(releases) + 1
  BY <1>1, <1>5, LenProperties
<1> QED BY <1>2, <1>5, <1>6 DEF rel, CutRelease, Cuttable

(* The links of a candidate that passes the link lint end in the candidate. *)
LEMMA CandidateClosed ==
  ASSUME ReleaseInv, BadLinks = {}, NEW d \in Candidate,
         NEW l \in docs[d.family][d.version].links
  PROVE  \E e \in Candidate :
           /\ e.family = l.to.family
           /\ IF l.relation = "reference" THEN e.version = l.to.version
                                          ELSE e.version > l.to.version
<1> USE DEF ReleaseInv
<1>1. /\ l \in Link
      /\ l.relation \in {"reference", "supersedes"}
      /\ l.to \in DocRef /\ l.to.family \in Family /\ l.to.version \in Nat \ {0}
  BY CandidateType DEF Version, Link, DocRef
<1>2. ~LinkBroken(l)
  BY DEF BadLinks
<1>3. CASE l.relation = "reference"
  <2>1. Status(l.to) = "active"
    BY <1>2, <1>3 DEF LinkBroken
  <2>2. l.to.version \in ActiveVersions(l.to.family)
    BY <2>1 DEF Status, ActiveVersions
  <2>3. [family |-> l.to.family, version |-> l.to.version] \in Candidate
    BY <1>1, <2>2, ActiveIsCandidate
  <2> QED BY <1>3, <2>3
<1>4. CASE l.relation = "supersedes"
  <2>1. Status(l.to) = "superseded"
    BY <1>2, <1>4 DEF LinkBroken
  <2>2. PICK w \in ActiveVersions(l.to.family) : w > l.to.version
    BY <1>1, <2>1 DEF Status, ActiveSupersedes
  <2>3. [family |-> l.to.family, version |-> w] \in Candidate
    BY <1>1, ActiveIsCandidate
  <2> QED BY <1>4, <2>2, <2>3
<1> QED BY <1>1, <1>3, <1>4

(* A cut keeps the release invariant: its candidate is what is active now. *)
LEMMA CutStep ==
  ASSUME ReleaseInv, TypeOK', NEW h, CutRelease(h)
  PROVE  /\ ReleasedStillActive'
         /\ ReleaseClosed'
         /\ ReleasesMoveForward'
         /\ ArchiveMatchesHash'
<1> USE DEF ReleaseInv
<1> DEFINE n == Len(releases)
<1>1. /\ n \in Nat
      /\ docs' = docs
      /\ DOMAIN releases = 1..n
      /\ DOMAIN releases' = 1..n + 1
      /\ \A r \in 1..n : releases'[r] = releases[r]
      /\ releases'[n + 1] = [docs |-> Candidate, content |-> Content(Candidate)]
      /\ BadLinks = {}
  BY CutFacts
<1> HIDE DEF n
<1>2. \A d \in Candidate : /\ d \in DocRef
                           /\ d.family \in Family
                           /\ d.version \in ActiveVersions(d.family)
                           /\ d.version \in 1..Current(d.family)
  <2> TAKE d \in Candidate
  <2>1. d \in DocRef /\ d.family \in Family
    BY CandidateType DEF DocRef
  <2> QED BY <2>1, CandidateType, ActiveVersionsFacts
<1>3. ReleasedStillActive'
  <2> SUFFICES ASSUME NEW r \in 1..n + 1, NEW d \in releases'[r].docs
               PROVE  /\ d.version \in 1..Current(d.family)
                      /\ \E w \in ActiveVersions(d.family) : w >= d.version
    BY <1>1 DEF ReleasedStillActive, ActiveVersions, Current
  <2>1. CASE r \in 1..n
    BY <1>1, <2>1 DEF ReleasedStillActive
  <2>2. CASE r = n + 1
    <3>1. d \in Candidate
      BY <1>1, <2>2
    <3>2. d.version >= d.version
      BY <1>2, <3>1 DEF DocRef
    <3> QED BY <1>2, <3>1, <3>2
  <2> QED BY <1>1, <2>1, <2>2
<1>4. ReleaseClosed'
  <2> SUFFICES ASSUME NEW r \in 1..n + 1, NEW d \in releases'[r].docs,
                      NEW l \in docs[d.family][d.version].links
               PROVE  \E e \in releases'[r].docs :
                        /\ e.family = l.to.family
                        /\ IF l.relation = "reference" THEN e.version = l.to.version
                                                       ELSE e.version > l.to.version
    BY <1>1 DEF ReleaseClosed
  <2>1. CASE r \in 1..n
    BY <1>1, <2>1 DEF ReleaseClosed
  <2>2. CASE r = n + 1
    BY <1>1, <2>2, CandidateClosed
  <2> QED BY <1>1, <2>1, <2>2
<1>5. ReleasesMoveForward'
  <2> SUFFICES ASSUME NEW r \in 1..n + 1, NEW s \in 1..n + 1, r <= s,
                      NEW d \in releases'[r].docs
               PROVE  \E e \in releases'[s].docs :
                        e.family = d.family /\ e.version >= d.version
    BY <1>1 DEF ReleasesMoveForward
  <2>1. CASE s \in 1..n
    <3>1. r \in 1..n
      BY <1>1, <2>1
    <3> QED BY <1>1, <2>1, <3>1 DEF ReleasesMoveForward
  <2>2. CASE s = n + 1 /\ r \in 1..n
    <3>1. d \in releases[r].docs /\ d.family \in Family
      BY <1>1, <2>2, ReleaseAt
    <3>2. PICK w \in ActiveVersions(d.family) : w >= d.version
      BY <1>1, <2>2, <3>1 DEF ReleasedStillActive
    <3>3. [family |-> d.family, version |-> w] \in Candidate
      BY <3>1, ActiveIsCandidate
    <3> QED BY <1>1, <2>2, <3>2, <3>3
  <2>3. CASE s = n + 1 /\ r = n + 1
    <3>1. d \in Candidate /\ d.version >= d.version
      BY <1>1, <1>2, <2>3 DEF DocRef
    <3> QED BY <1>1, <2>3, <3>1
  <2> QED BY <1>1, <2>1, <2>2, <2>3
<1>6. ArchiveMatchesHash'
  <2>1. \A ds : Content(ds)' = Content(ds)
    BY <1>1 DEF Content, BodyOf
  <2> SUFFICES ASSUME NEW r \in 1..n + 1
               PROVE  /\ Content(releases'[r].docs) = releases'[r].content
                      /\ \A d, e \in releases'[r].docs : d.family = e.family => d = e
    BY <1>1, <2>1 DEF ArchiveMatchesHash, Content, BodyOf
  <2>2. CASE r \in 1..n
    BY <1>1, <2>2 DEF ArchiveMatchesHash
  <2>3. CASE r = n + 1
    <3>1. \A d, e \in Candidate : d.family = e.family => d = e
      <4> SUFFICES ASSUME NEW d \in Candidate, NEW e \in Candidate, d.family = e.family
                   PROVE  d = e
        OBVIOUS
      <4>1. d.version = e.version
        BY <1>2 DEF ActiveSupersedes
      <4> QED BY <1>2, <4>1 DEF DocRef
    <3> QED BY <1>1, <2>3, <3>1
  <2> QED BY <1>1, <2>2, <2>3
<1> QED BY <1>3, <1>4, <1>5, <1>6

(* No family outgrows its bound. *)
LEMMA BoundStep ==
  ASSUME TypeOK, [Next]_vars, \A f \in Family : Current(f) <= MaxVersion
  PROVE  \A f \in Family : Current(f)' <= MaxVersion
<1>1. ASSUME NEW g \in Family, NEW base, NEW p \in Payload, SaveTx(g, base, p)
      PROVE  \A f \in Family : Current(f)' <= MaxVersion
  <2> TAKE f \in Family
  <2>1. CASE f = g
    <3>1. Current(f)' = Current(g) + 1
      BY <1>1, <2>1, SavedFacts DEF SaveTx, Current, TypeOK
    <3>2. Current(g) < MaxVersion
      BY <1>1 DEF SaveTx
    <3> QED BY <3>1, <3>2, CurrentNat, BoundAssumption
  <2>2. CASE f # g
    BY <1>1, <2>2 DEF SaveTx, Current, TypeOK
  <2> QED BY <2>1, <2>2
<1>2. CASE docs' = docs
  BY <1>2 DEF Current
<1>3. ASSUME NEW i \in DOMAIN conflicts, NEW seen \in 1..MaxAttempts,
             NEW base \in Base, NEW p \in Payload, ResolveSave(i, seen, base, p)
      PROVE  \A f \in Family : Current(f)' <= MaxVersion
  <2>1. conflicts[i].family \in Family
    BY ConflictAt DEF Conflict
  <2> QED BY <1>1, <1>3, <2>1 DEF ResolveSave
<1> QED
  BY <1>1, <1>2, <1>3
  DEF Next, vars, SaveDoc, SaveStale, CutRefused, CutRelease, FlagClaim, ResolveKeep

(* The empty store satisfies the release invariant. *)
LEMMA ReleaseInit == Init => ReleaseInv
<1> SUFFICES ASSUME Init PROVE ReleaseInv
  OBVIOUS
<1>1. TypeOK
  BY TypeInit
<1>2. \A f \in Family : docs[f] = <<>> /\ Current(f) = 0 /\ DOMAIN docs[f] = {}
  <2> TAKE f \in Family
  <2>1. docs[f] = <<>>
    BY DEF Init
  <2>2. Len(docs[f]) = 0 /\ docs[f] \in Seq(Version)
    BY <2>1, EmptySeq
  <2>3. DOMAIN docs[f] = 1..0
    BY <2>2, LenProperties
  <2> QED BY <2>1, <2>2, <2>3 DEF Current
<1>3. releases = <<>> /\ DOMAIN releases = {}
  BY DEF Init
<1> QED
  BY <1>1, <1>2, <1>3, BoundAssumption
  DEF ReleaseInv, ActiveSupersedes, ActiveVersions, ReleasedStillActive,
      ReleaseClosed, ReleasesMoveForward, ArchiveMatchesHash

(* Every operation keeps the release invariant. *)
LEMMA ReleaseStep ==
  ASSUME ReleaseInv, [Next]_vars
  PROVE  ReleaseInv'
<1>1. TypeOK' /\ DocsStep
  BY TypeStep, NextDocsStep DEF ReleaseInv
<1>2. ActiveSupersedes' /\ \A f \in Family : Current(f)' <= MaxVersion
  BY <1>1, ActiveSupersedesStep, BoundStep DEF ReleaseInv
<1>3. CASE releases' = releases
  BY <1>1, <1>2, <1>3, HistoryFrame DEF ReleaseInv
<1>4. ASSUME NEW h, CutRelease(h) PROVE ReleaseInv'
  BY <1>1, <1>2, <1>4, CutStep DEF ReleaseInv
<1> QED
  BY <1>3, <1>4
  DEF Next, vars, SaveDoc, SaveStale, CutRefused, FlagClaim, ResolveKeep, ResolveSave

(* The release side of the store, with what makes it inductive: every family that
   was ever released is still active, at that version or a later one. *)
THEOREM ReleaseInvariant == Spec => []ReleaseInv
<1>1. ReleaseInv /\ [Next]_vars => ReleaseInv'
  BY ReleaseStep
<1> QED BY <1>1, ReleaseInit, PTL DEF Spec

(* One active version per family at most, and what is superseded is
   superseded by it. *)
THEOREM ActiveSupersedesAlways == Spec => []ActiveSupersedes
<1>1. ReleaseInv => ActiveSupersedes
  BY DEF ReleaseInv
<1> QED BY <1>1, ReleaseInvariant, PTL

(* Every release ever cut is closed under its links. *)
THEOREM ReleaseClosedAlways == Spec => []ReleaseClosed
<1>1. ReleaseInv => ReleaseClosed
  BY DEF ReleaseInv
<1> QED BY <1>1, ReleaseInvariant, PTL

(* A released family is in every later release, never at an older version. *)
THEOREM ReleasesMoveForwardAlways == Spec => []ReleasesMoveForward
<1>1. ReleaseInv => ReleasesMoveForward
  BY DEF ReleaseInv
<1> QED BY <1>1, ReleaseInvariant, PTL

(* The archive of a release keeps hashing to its content hash. *)
THEOREM ArchiveMatchesHashAlways == Spec => []ArchiveMatchesHash
<1>1. ReleaseInv => ArchiveMatchesHash
  BY DEF ReleaseInv
<1> QED BY <1>1, ReleaseInvariant, PTL

-----------------------------------------------------------------------------
(* Steps. *)

(* No step leaves a family that has an active version without one. *)
THEOREM ActiveStaysActiveAlways == Spec => ActiveStaysActive
<1>1. ASSUME TypeOK, TypeOK', [Next]_vars
      PROVE  [\A f \in Family : ActiveVersions(f) # {} =>
                \E v \in DOMAIN docs'[f] : docs'[f][v].status = "active"]_vars
  <2>1. ASSUME NEW f \in Family, NEW v \in ActiveVersions(f)
        PROVE  \E w \in DOMAIN docs'[f] : docs'[f][w].status = "active"
    <3>1. PICK w \in ActiveVersions(f)' : w >= v
      BY <1>1, <2>1, NextDocsStep, ActiveKept
    <3> QED BY <3>1 DEF ActiveVersions
  <2> QED BY <2>1
<1> QED BY <1>1, TypeCorrect, PTL DEF Spec, ActiveStaysActive

(* What the store serves after a cut is what it served before, and one more
   archive, which has every path the last one had. *)
LEMMA CutPublishes ==
  ASSUME ReleaseInv, ReleaseInv', NEW h, CutRelease(h)
  PROVE  Log!Publish
<1> USE DEF ReleaseInv
<1> DEFINE n == Len(releases)
           a == Content(Candidate)
<1>1. /\ n \in Nat
      /\ docs' = docs
      /\ DOMAIN releases = 1..n
      /\ DOMAIN releases' = 1..n + 1
      /\ \A r \in 1..n : releases'[r] = releases[r]
      /\ releases'[n + 1] = [docs |-> Candidate, content |-> Content(Candidate)]
  BY CutFacts
<1>2. \A ds : Content(ds)' = Content(ds)
  BY <1>1 DEF Content, BodyOf
<1>3. a \in SUBSET (Family \X Body)
  BY CandidateType DEF Content, BodyOf, Version, DocRef
<1>4. \A r \in 1..n : Content(releases[r].docs) \in SUBSET (Family \X Body)
  BY <1>1, ReleaseAt DEF ArchiveMatchesHash, Release
<1>5. Served \in Seq(SUBSET (Family \X Body)) /\ Len(Served) = n
  <2>1. Served \in [1..n -> SUBSET (Family \X Body)]
    BY <1>1, <1>4 DEF Served
  <2>2. Served \in Seq(SUBSET (Family \X Body))
    BY <1>1, <2>1, SeqDef
  <2> QED BY <1>1, <2>1, <2>2, LenProperties
<1>6. Served' \in Seq(SUBSET (Family \X Body)) /\ Len(Served') = n + 1
  <2>1. Served' \in [1..n + 1 -> SUBSET (Family \X Body)]
    BY <1>1, <1>2, <1>3, <1>4 DEF Served
  <2>2. Served' \in Seq(SUBSET (Family \X Body))
    BY <1>1, <2>1, SeqDef
  <2> QED BY <1>1, <2>1, <2>2, LenProperties
<1>7. \A r \in 1..n : Served'[r] = Served[r]
  BY <1>1, <1>2 DEF Served
<1>8. Served'[n + 1] = a
  BY <1>1, <1>2 DEF Served
<1> HIDE DEF n, a
<1>9. Served' = Append(Served, a)
  <2>1. /\ Append(Served, a) \in Seq(SUBSET (Family \X Body))
        /\ Len(Append(Served, a)) = n + 1
        /\ \A r \in 1..n : Append(Served, a)[r] = Served[r]
        /\ Append(Served, a)[n + 1] = a
    BY <1>1, <1>3, <1>5
  <2>2. \A r \in 1..n + 1 : Served'[r] = Append(Served, a)[r]
    BY <1>1, <1>7, <1>8, <2>1
  <2> QED BY <1>6, <2>1, <2>2, SeqEqual
<1>10. a \in Log!Archive
  <2>1. PICK d \in Candidate : TRUE
    BY DEF CutRelease, Cuttable
  <2>2. a # {}
    BY <2>1 DEF a, Content
  <2>3. \A d1, d2 \in Candidate : d1.family = d2.family => d1 = d2
    BY <1>1 DEF ArchiveMatchesHash
  <2>4. \A x, y \in a : x[1] = y[1] => x = y
    BY <2>3 DEF a, Content
  <2> QED BY <1>3, <2>2, <2>4 DEF Log!Archive
<1>11. Log!Paths(Log!Latest) \subseteq Log!Paths(a)
  <2> SUFFICES ASSUME NEW x \in Log!Latest
               PROVE  \E y \in a : y[1] = x[1]
    BY DEF Log!Paths
  <2>1. Served # <<>> /\ Log!Latest = Served[Len(Served)]
    BY DEF Log!Latest
  <2>2. n \in 1..n
    BY <1>1, <1>5, <2>1, EmptySeq
  <2>3. x \in Content(releases[n].docs)
    BY <1>1, <1>5, <2>1, <2>2 DEF Served
  <2>4. PICK d \in releases[n].docs : x = <<d.family, BodyOf(d)>>
    BY <2>3 DEF Content
  <2>5. d.family \in Family
    BY <1>1, <2>2, ReleaseAt
  <2>6. PICK w \in ActiveVersions(d.family) : w >= d.version
    BY <1>1, <2>2 DEF ReleasedStillActive
  <2>7. [family |-> d.family, version |-> w] \in Candidate
    BY <2>5, ActiveIsCandidate
  <2> DEFINE e == [family |-> d.family, version |-> w]
             y == <<e.family, BodyOf(e)>>
  <2>8. y \in a
    BY <2>7 DEF a, Content
  <2>9. y[1] = x[1]
    BY <2>4
  <2> QED BY <2>8, <2>9
<1> QED BY <1>9, <1>10, <1>11 DEF Log!Publish

(* A step that cuts nothing leaves what is served as it is: the versions a
   release took keep their body. *)
LEMMA ServedKept ==
  ASSUME ReleaseInv, ReleaseInv', DocsStep, releases' = releases
  PROVE  Served' = Served
<1>1. \A r \in DOMAIN releases :
        /\ Content(releases[r].docs) = releases[r].content
        /\ Content(releases[r].docs)' = releases[r].content
  BY DEF ReleaseInv, ArchiveMatchesHash
<1> QED BY <1>1 DEF Served

(* The store implements the abstract release log: each step of the store is a
   step of the log or leaves it alone. *)
THEOREM StoreImplementsReleaseLog == Spec => ServesReleaseLog
<1>1. Init => Log!Init
  <2> SUFFICES ASSUME Init PROVE Served = <<>>
    BY DEF Log!Init
  <2>1. DOMAIN releases = {}
    BY DEF Init
  <2> QED BY <2>1 DEF Served
<1>2. ReleaseInv /\ ReleaseInv' /\ [Next]_vars => [Log!Publish]_Served
  <2> SUFFICES ASSUME ReleaseInv, ReleaseInv', [Next]_vars
               PROVE  Log!Publish \/ Served' = Served
    OBVIOUS
  <2>1. CASE releases' = releases
    BY <2>1, ServedKept, NextDocsStep DEF ReleaseInv
  <2>2. ASSUME NEW h, CutRelease(h) PROVE Log!Publish
    BY <2>2, CutPublishes
  <2> QED
    BY <2>1, <2>2
    DEF Next, vars, SaveDoc, SaveStale, CutRefused, FlagClaim, ResolveKeep, ResolveSave
<1> QED BY <1>1, <1>2, ReleaseInvariant, PTL DEF Spec, ServesReleaseLog, Log!Spec

-----------------------------------------------------------------------------
(* The conflict register: the inductive invariant. *)

(* What a record says of the versions ds, in whatever state it is. *)
Evidence(c, ds) ==
  /\ c.kind # "claim" => c.other = None
  /\ c.other # None => Rank[c.family] < Rank[c.other]
  /\ c.their <= IF c.other # None THEN Len(ds[c.other]) ELSE Len(ds[c.family])
  /\ c.kind = "claim" => c.base <= Len(ds[c.family])
  /\ c.kind = "edit" => c.attempted # None /\ c.base # c.their
  /\ c.kind = "policy" => c.their \in 1..Len(ds[c.family])
                          /\ ds[c.family][c.their].status # "draft"

(* What a resolved record says of the versions ds and of the releases rs, and
   that an open one names no release yet. *)
Outcome(c, ds, rs) ==
  /\ c.status = "open" => c.release = 0
  /\ c.status = "resolved" /\ c.kind # "policy" =>
       /\ c.winning >= IF c.kind = "edit" THEN c.their ELSE c.base
       /\ c.winning <= Len(ds[c.family])
  /\ c.status = "resolved" /\ c.kind = "policy" /\ c.release # 0 =>
       /\ c.release \in DOMAIN rs
       /\ [family |-> c.family, version |-> c.winning] \in rs[c.release].docs
       /\ c.winning >= c.their

RowHolds(c, ds, rs) == Evidence(c, ds) /\ Outcome(c, ds, rs)

(* No two open records of a kind are filed under the same family. *)
OneOpenPerKind ==
  \A i, j \in DOMAIN conflicts :
    /\ conflicts[i].status = "open" /\ conflicts[j].status = "open"
    /\ conflicts[i].kind = conflicts[j].kind
    /\ conflicts[i].family = conflicts[j].family
    => i = j

RegisterInv ==
  /\ \A i \in DOMAIN conflicts : RowHolds(conflicts[i], docs, releases)
  /\ OneOpenPerKind

(* What a step may make d of record c. *)
RowStep(c, d) ==
  /\ c.status = "resolved" => d = c
  /\ <<c.base, c.their, c.attempted>> # <<d.base, d.their, d.attempted>> =>
       d.attempts > c.attempts

RowsStep ==
  \A i \in DOMAIN conflicts :
    i \in DOMAIN conflicts' /\ RowStep(conflicts[i], conflicts'[i])

(* Releases are appended. *)
ReleasesStep ==
  \A r \in DOMAIN releases : r \in DOMAIN releases' /\ releases'[r] = releases[r]

-----------------------------------------------------------------------------
(* What the invariant says. *)

(* Open claims are filed under the lesser member of their pair, so two of them
   on one pair are on one family. *)
LEMMA OneOpenFollows ==
  ASSUME TypeOK, RegisterInv
  PROVE  OneOpenConflict
<1> SUFFICES ASSUME NEW i \in DOMAIN conflicts, NEW j \in DOMAIN conflicts,
                    conflicts[i].status = "open", conflicts[j].status = "open",
                    conflicts[i].kind = "claim", conflicts[j].kind = "claim",
                    {conflicts[i].family, conflicts[i].other}
                      = {conflicts[j].family, conflicts[j].other}
             PROVE  conflicts[i].family = conflicts[j].family
  BY DEF OneOpenConflict, RegisterInv, OneOpenPerKind
<1>1. /\ conflicts[i] \in Conflict /\ Evidence(conflicts[i], docs)
      /\ conflicts[j] \in Conflict /\ Evidence(conflicts[j], docs)
  BY ConflictAt DEF RegisterInv, RowHolds
<1> SUFFICES ASSUME conflicts[i].family # conflicts[j].family PROVE FALSE
  OBVIOUS
<1>2. conflicts[i].family = conflicts[j].other /\ conflicts[j].family = conflicts[i].other
  OBVIOUS
<1>3. conflicts[i].family \in Family /\ conflicts[j].family \in Family
  BY <1>1 DEF Conflict
<1>4. conflicts[i].other # None /\ conflicts[j].other # None
  BY <1>2, <1>3, NoneAssumption
<1>5. /\ Rank[conflicts[i].family] < Rank[conflicts[j].family]
      /\ Rank[conflicts[j].family] < Rank[conflicts[i].family]
  BY <1>1, <1>2, <1>4 DEF Evidence
<1>6. Rank[conflicts[i].family] \in Nat /\ Rank[conflicts[j].family] \in Nat
  BY <1>3, RankAssumption
<1> QED BY <1>5, <1>6

(* The properties of the register, from the invariant. *)
LEMMA RegisterFollows ==
  ASSUME TypeOK, RegisterInv
  PROVE  OneOpenConflict /\ EvidenceSound /\ WinnerNotOlder /\ ClearedByItsRelease
<1>1. OneOpenConflict
  BY OneOpenFollows
<1>2. \A i \in DOMAIN conflicts :
        Evidence(conflicts[i], docs) /\ Outcome(conflicts[i], docs, releases)
  BY DEF RegisterInv, RowHolds
<1>3. EvidenceSound
  BY <1>2 DEF EvidenceSound, Evidence, Current
<1>4. WinnerNotOlder
  BY <1>2 DEF WinnerNotOlder, Outcome, Current
<1>5. ClearedByItsRelease
  BY <1>2 DEF ClearedByItsRelease, Outcome
<1> QED BY <1>1, <1>3, <1>4, <1>5

-----------------------------------------------------------------------------
(* What a save or a release does to a record that stays. *)

(* A published version never becomes a draft again, and none is lost. *)
LEMMA StatusKept ==
  ASSUME TypeOK, TypeOK', DocsStep, NEW f \in Family
  PROVE  /\ Len(docs[f]) \in Nat /\ Len(docs'[f]) \in Nat
         /\ Len(docs[f]) <= Len(docs'[f])
         /\ \A v \in 1..Len(docs[f]) :
              docs[f][v].status # "draft" => docs'[f][v].status # "draft"
<1>1. Current(f) \in Nat /\ \A v \in 1..Current(f) : docs[f][v] \in Version
  BY ActiveVersionsFacts
<1>2. \A x \in Version : [x EXCEPT !.status = "superseded"].status = "superseded"
  BY DEF Version
<1>3. CASE Current(f)' = Current(f) /\ docs'[f] = docs[f]
  BY <1>1, <1>3 DEF Current
<1>4. ASSUME NEW p \in Payload, Current(f)' = Current(f) + 1,
             \A v \in 1..Current(f) :
               docs'[f][v] = IF p.status = "active" /\ docs[f][v].status = "active"
                               THEN [docs[f][v] EXCEPT !.status = "superseded"]
                               ELSE docs[f][v]
      PROVE  /\ Len(docs[f]) \in Nat /\ Len(docs'[f]) \in Nat
             /\ Len(docs[f]) <= Len(docs'[f])
             /\ \A v \in 1..Len(docs[f]) :
                  docs[f][v].status # "draft" => docs'[f][v].status # "draft"
  <2>1. Len(docs'[f]) = Len(docs[f]) + 1 /\ Len(docs[f]) \in Nat
    BY <1>1, <1>4 DEF Current
  <2>2. ASSUME NEW v \in 1..Len(docs[f]), docs[f][v].status # "draft"
        PROVE  docs'[f][v].status # "draft"
    <3>1. v \in 1..Current(f) /\ docs[f][v] \in Version
      BY <1>1 DEF Current
    <3>2. docs'[f][v] \in {docs[f][v], [docs[f][v] EXCEPT !.status = "superseded"]}
      BY <1>4, <3>1
    <3> QED BY <1>2, <2>2, <3>1, <3>2
  <2> QED BY <2>1, <2>2
<1> QED BY <1>3, <1>4, DocsStepFacts

(* What a record says stays true while others are saved and released. *)
LEMMA RowKept ==
  ASSUME TypeOK, TypeOK', DocsStep, ReleasesStep,
         NEW c \in Conflict, RowHolds(c, docs, releases)
  PROVE  RowHolds(c, docs', releases')
<1>1. /\ c.family \in Family /\ c.other \in Family \cup {None}
      /\ c.their \in Nat /\ c.base \in Nat /\ c.winning \in Nat
  BY DEF Conflict
<1>2. /\ Len(docs[c.family]) \in Nat /\ Len(docs'[c.family]) \in Nat
      /\ Len(docs[c.family]) <= Len(docs'[c.family])
      /\ \A v \in 1..Len(docs[c.family]) :
           docs[c.family][v].status # "draft" => docs'[c.family][v].status # "draft"
  BY <1>1, StatusKept
<1>3. c.other # None => /\ Len(docs[c.other]) \in Nat /\ Len(docs'[c.other]) \in Nat
                        /\ Len(docs[c.other]) <= Len(docs'[c.other])
  BY <1>1, StatusKept
<1>4. Evidence(c, docs')
  BY <1>1, <1>2, <1>3 DEF RowHolds, Evidence
<1>5. Outcome(c, docs', releases')
  BY <1>1, <1>2 DEF RowHolds, Outcome, ReleasesStep
<1> QED BY <1>4, <1>5 DEF RowHolds

(* A step that leaves the register alone. *)
LEMMA RegisterStays ==
  ASSUME TypeOK, TypeOK', DocsStep, ReleasesStep, RegisterInv, conflicts' = conflicts
  PROVE  RegisterInv' /\ RowsStep
<1>1. \A i \in DOMAIN conflicts : RowHolds(conflicts[i], docs', releases')
  BY ConflictAt, RowKept DEF RegisterInv
<1>2. OneOpenPerKind'
  BY DEF RegisterInv, OneOpenPerKind
<1>3. RowsStep
  BY DEF RowsStep, RowStep
<1> QED BY <1>1, <1>2, <1>3 DEF RegisterInv

-----------------------------------------------------------------------------
(* One record at a time. *)

(* A record is opened: there is no other of its kind and family. *)
LEMMA InsertKeeps ==
  ASSUME TypeOK, TypeOK', DocsStep, ReleasesStep, RegisterInv,
         NEW row \in Conflict, Insert(row), OpenRows(row.kind, row.family) = {},
         RowHolds(row, docs', releases')
  PROVE  RegisterInv' /\ RowsStep
<1> DEFINE n == Len(conflicts)
<1>1. conflicts \in Seq(Conflict) /\ n \in Nat /\ DOMAIN conflicts = 1..n
  BY LenProperties DEF TypeOK
<1>2. /\ DOMAIN conflicts' = 1..n + 1 /\ conflicts'[n + 1] = row
      /\ \A i \in 1..n : conflicts'[i] = conflicts[i]
  BY <1>1, AppendProperties DEF Insert
<1>3. \A i \in DOMAIN conflicts' : RowHolds(conflicts'[i], docs', releases')
  <2>1. \A i \in 1..n : RowHolds(conflicts[i], docs', releases')
    BY <1>1, ConflictAt, RowKept DEF RegisterInv
  <2> QED BY <1>1, <1>2, <2>1
<1>4. OneOpenPerKind'
  <2>1. \A i \in 1..n : conflicts[i].status = "open" /\ conflicts[i].kind = row.kind
                         => conflicts[i].family # row.family
    BY <1>1 DEF OpenRows
  <2> QED BY <1>1, <1>2, <2>1 DEF RegisterInv, OneOpenPerKind
<1>5. RowsStep
  BY <1>1, <1>2 DEF RowsStep, RowStep
<1> QED BY <1>3, <1>4, <1>5 DEF RegisterInv

(* An open record is written again, under its kind and family. *)
LEMMA RewriteKeeps ==
  ASSUME TypeOK, TypeOK', DocsStep, ReleasesStep, RegisterInv,
         NEW i \in DOMAIN conflicts, conflicts[i].status = "open",
         NEW row \in Conflict, conflicts' = [conflicts EXCEPT ![i] = row],
         row.kind = conflicts[i].kind, row.family = conflicts[i].family,
         RowStep(conflicts[i], row), RowHolds(row, docs', releases')
  PROVE  RegisterInv' /\ RowsStep
<1>1. /\ DOMAIN conflicts' = DOMAIN conflicts
      /\ \A j \in DOMAIN conflicts : conflicts'[j] = IF j = i THEN row ELSE conflicts[j]
  OBVIOUS
<1>2. \A j \in DOMAIN conflicts : RowHolds(conflicts[j], docs', releases')
  BY ConflictAt, RowKept DEF RegisterInv
<1>3. \A j \in DOMAIN conflicts' : RowHolds(conflicts'[j], docs', releases')
  BY <1>1, <1>2
<1>4. OneOpenPerKind'
  BY <1>1 DEF RegisterInv, OneOpenPerKind
<1>5. RowsStep
  BY <1>1 DEF RowsStep, RowStep
<1> QED BY <1>3, <1>4, <1>5 DEF RegisterInv

(* The fields of a record as it is opened. *)
LEMMA OpenedFields ==
  ASSUME NEW kind, NEW f, NEW other, NEW base, NEW their, NEW attempted
  PROVE  LET row == Opened(kind, f, other, base, their, attempted) IN
         /\ row.kind = kind /\ row.status = "open" /\ row.family = f
         /\ row.other = other /\ row.base = base /\ row.their = their
         /\ row.attempted = attempted /\ row.release = 0
BY DEF Opened

(* Upsert keeps the invariant when what it records is true. *)
LEMMA UpsertKeeps ==
  ASSUME TypeOK, TypeOK', RegisterInv, UNCHANGED <<docs, releases>>,
         NEW kind \in {"edit", "policy"}, NEW f \in Family,
         NEW base \in Nat, NEW their \in Nat, NEW attempted \in Payload \cup {None},
         Upsert(kind, f, base, their, attempted),
         their <= Len(docs[f]),
         kind = "edit" => attempted # None /\ base # their,
         kind = "policy" => their \in 1..Len(docs[f]) /\ docs[f][their].status # "draft"
  PROVE  RegisterInv' /\ RowsStep
<1>1. DocsStep /\ ReleasesStep
  BY DEF DocsStep, ReleasesStep
<1>2. ASSUME NEW row \in Conflict, row.kind = kind, row.status = "open", row.family = f,
             row.other = None, row.release = 0, row.base = base, row.their = their,
             row.attempted = attempted
      PROVE  RowHolds(row, docs', releases')
  BY <1>2 DEF RowHolds, Evidence, Outcome
<1>3. CASE /\ OpenRows(kind, f) = {}
           /\ Insert(Opened(kind, f, None, base, their, attempted))
  <2>1. PICK row \in Conflict : row = Opened(kind, f, None, base, their, attempted)
    BY OpenedType
  <2>2. RowHolds(row, docs', releases') /\ row.kind = kind /\ row.family = f
    BY <1>2, <2>1, OpenedFields
  <2> QED BY <1>1, <1>3, <2>1, <2>2, InsertKeeps
<1>4. ASSUME NEW i \in OpenRows(kind, f),
             conflicts' = [conflicts EXCEPT ![i].base = base,
                                            ![i].their = their,
                                            ![i].attempts = @ + 1,
                                            ![i].attempted = attempted]
      PROVE  RegisterInv' /\ RowsStep
  <2>1. /\ i \in DOMAIN conflicts /\ conflicts[i] \in Conflict
        /\ conflicts[i].status = "open" /\ conflicts[i].kind = kind
        /\ conflicts[i].family = f
    BY ConflictAt DEF OpenRows
  <2>2. conflicts[i].other = None /\ conflicts[i].release = 0
        /\ conflicts[i].attempts \in Nat
    BY <2>1 DEF RegisterInv, RowHolds, Evidence, Outcome, Conflict
  <2>3. PICK row \in Conflict :
          row = [conflicts[i] EXCEPT !.base = base, !.their = their,
                                     !.attempts = @ + 1, !.attempted = attempted]
    <3>1. [conflicts[i] EXCEPT !.base = base, !.their = their,
                               !.attempts = @ + 1, !.attempted = attempted] \in Conflict
      BY <2>1, RefreshType
    <3> QED BY <3>1
  <2>4. /\ row.kind = kind /\ row.status = "open" /\ row.family = f
        /\ row.other = None /\ row.release = 0
        /\ row.base = base /\ row.their = their /\ row.attempted = attempted
        /\ row.attempts = conflicts[i].attempts + 1
    BY <2>1, <2>2, <2>3 DEF Conflict
  <2>5. RowHolds(row, docs', releases')
    BY <1>2, <2>4
  <2>6. RowStep(conflicts[i], row)
    BY <2>1, <2>2, <2>4 DEF RowStep
  <2>7. conflicts' = [conflicts EXCEPT ![i] = row]
    BY <1>4, <2>3
  <2> QED BY <1>1, <2>1, <2>4, <2>5, <2>6, <2>7, RewriteKeeps
<1> QED BY <1>3, <1>4 DEF Upsert

-----------------------------------------------------------------------------
(* The operations. *)

(* A refused save records the payload and a base that is not current. *)
LEMMA SaveStaleKeeps ==
  ASSUME TypeOK, TypeOK', RegisterInv, NEW f \in Family, NEW base \in Base,
         NEW p \in Payload, SaveStale(f, base, p)
  PROVE  RegisterInv' /\ RowsStep
<1>1. /\ base \in Nat /\ base # Current(f) /\ Current(f) \in Nat
      /\ Upsert("edit", f, base, Current(f), p) /\ UNCHANGED <<docs, releases>>
  BY BoundAssumption, CurrentNat DEF SaveStale, Base
<1>2. p # None
  BY NoneAssumption
<1>3. p \in Payload \cup {None} /\ Current(f) <= Len(docs[f])
  BY <1>1 DEF Current
<1>4. \A their \in Nat : Upsert("edit", f, base, their, p) /\ their <= Len(docs[f])
                           /\ base # their => RegisterInv' /\ RowsStep
  BY <1>1, <1>2, <1>3, UpsertKeeps
<1> QED BY <1>1, <1>3, <1>4

(* A refused cut records a version that is active. *)
LEMMA CutRefusedKeeps ==
  ASSUME TypeOK, TypeOK', RegisterInv, CutRefused
  PROVE  RegisterInv' /\ RowsStep
<1>1. PICK d \in Offenders : Upsert("policy", d.family, 0, d.version, None)
  BY DEF CutRefused
<1>2. d \in Candidate
  BY DEF Offenders, OverCap, BadLinks
<1>3. /\ d.family \in Family /\ d.version \in Nat
      /\ d.version \in 1..Len(docs[d.family])
      /\ docs[d.family][d.version].status # "draft"
  BY <1>2, CandidateType DEF DocRef, Current
<1>4. d.version <= Len(docs[d.family])
  BY <1>3
<1>5. UNCHANGED <<docs, releases>>
  BY DEF CutRefused
<1> QED BY <1>1, <1>3, <1>4, <1>5, UpsertKeeps

(* A claim sets the current versions of its pair against each other, the
   lesser member first. *)
LEMMA FlagClaimKeeps ==
  ASSUME TypeOK, TypeOK', RegisterInv, NEW f \in Family,
         NEW other \in Family \cup {None}, FlagClaim(f, other)
  PROVE  RegisterInv' /\ RowsStep
<1> DEFINE swap == other # None /\ Rank[other] < Rank[f]
           primary == IF swap THEN other ELSE f
           second == IF swap THEN f ELSE other
           their == IF second = None THEN 0 ELSE Current(second)
<1>1. /\ other # f /\ OpenRows("claim", primary) = {}
      /\ Insert(Opened("claim", primary, second, Current(primary), their, None))
      /\ UNCHANGED <<docs, releases>>
  BY DEF FlagClaim
<1>2. primary \in Family /\ second \in Family \cup {None}
  OBVIOUS
<1>3. second # None => Rank[primary] < Rank[second]
  <2>1. f # None
    BY NoneAssumption
  <2>2. \A g, h \in Family : Rank[g] \in Nat /\ Rank[h] \in Nat
                             /\ (Rank[g] = Rank[h] => g = h)
    BY RankAssumption
  <2> QED BY <1>1, <2>1, <2>2
<1>4. Current(primary) \in Nat /\ their \in Nat
  BY <1>2, CurrentNat
<1>5. their = IF second = None THEN 0 ELSE Current(second)
  OBVIOUS
<1> HIDE DEF primary, second, their
<1>6. PICK row \in Conflict :
        row = Opened("claim", primary, second, Current(primary), their, None)
  BY <1>2, <1>4, OpenedType
<1>7. /\ row.kind = "claim" /\ row.status = "open" /\ row.family = primary
      /\ row.other = second /\ row.base = Current(primary) /\ row.their = their
      /\ row.release = 0
  BY <1>6, OpenedFields
<1>8. RowHolds(row, docs', releases')
  <2>1. second # None => Len(docs[second]) \in Nat
    BY <1>2, CurrentNat DEF Current
  <2>2. Len(docs[primary]) \in Nat
    BY <1>4 DEF Current
  <2>3. Evidence(row, docs)
    BY <1>3, <1>5, <1>7, <2>1, <2>2 DEF Evidence, Current
  <2>4. Outcome(row, docs, releases)
    BY <1>7 DEF Outcome
  <2> QED BY <1>1, <2>3, <2>4 DEF RowHolds
<1>9. DocsStep /\ ReleasesStep
  BY <1>1 DEF DocsStep, ReleasesStep
<1> QED BY <1>1, <1>6, <1>7, <1>8, <1>9, InsertKeeps

(* A resolution keeps what its record says, and adds the winner. *)
LEMMA ResolveKeeps ==
  ASSUME TypeOK, TypeOK', DocsStep, releases' = releases, RegisterInv,
         NEW i \in DOMAIN conflicts, conflicts[i].status = "open",
         NEW w \in Nat, Resolve(i, w),
         conflicts[i].kind # "policy" =>
           /\ Current(conflicts[i].family) <= w
           /\ w <= Len(docs'[conflicts[i].family])
  PROVE  RegisterInv' /\ RowsStep
<1>1. conflicts[i] \in Conflict /\ RowHolds(conflicts[i], docs, releases)
  BY ConflictAt DEF RegisterInv
<1>2. ReleasesStep
  BY DEF ReleasesStep
<1>3. RowHolds(conflicts[i], docs', releases')
  BY <1>1, <1>2, RowKept
<1>4. PICK row \in Conflict :
        row = [conflicts[i] EXCEPT !.status = "resolved", !.winning = w]
  <2>1. [conflicts[i] EXCEPT !.status = "resolved", !.winning = w] \in Conflict
    BY <1>1 DEF Conflict
  <2> QED BY <2>1
<1>5. /\ row.kind = conflicts[i].kind /\ row.family = conflicts[i].family
      /\ row.other = conflicts[i].other /\ row.base = conflicts[i].base
      /\ row.their = conflicts[i].their /\ row.attempted = conflicts[i].attempted
      /\ row.release = conflicts[i].release
      /\ row.status = "resolved" /\ row.winning = w
  BY <1>1, <1>4 DEF Conflict
<1>6. /\ conflicts[i].family \in Family /\ conflicts[i].their \in Nat
      /\ conflicts[i].base \in Nat /\ conflicts[i].kind \in {"edit", "claim", "policy"}
      /\ Current(conflicts[i].family) \in Nat
  BY <1>1, CurrentNat DEF Conflict
<1>7. Evidence(row, docs')
  BY <1>3, <1>5 DEF RowHolds, Evidence
<1>8. Outcome(row, docs', releases')
  <2>1. row.release = 0
    BY <1>1, <1>5 DEF RowHolds, Outcome
  <2>2. row.kind = "edit" => row.their <= Current(row.family)
    BY <1>1, <1>5 DEF RowHolds, Evidence, Current
  <2>3. row.kind = "claim" => row.base <= Current(row.family)
    BY <1>1, <1>5 DEF RowHolds, Evidence, Current
  <2> QED BY <1>5, <1>6, <2>1, <2>2, <2>3 DEF Outcome
<1>9. RowStep(conflicts[i], row)
  BY <1>5 DEF RowStep
<1>10. conflicts' = [conflicts EXCEPT ![i] = row]
  BY <1>4 DEF Resolve
<1>11. RowHolds(row, docs', releases')
  BY <1>7, <1>8 DEF RowHolds
<1> QED BY <1>2, <1>5, <1>9, <1>10, <1>11, RewriteKeeps

LEMMA ResolveKeepKeeps ==
  ASSUME TypeOK, TypeOK', RegisterInv, NEW i \in DOMAIN conflicts, NEW seen,
         ResolveKeep(i, seen)
  PROVE  RegisterInv' /\ RowsStep
<1> DEFINE w == IF conflicts[i].kind = "policy" THEN 0 ELSE Current(conflicts[i].family)
<1>1. /\ conflicts[i].status = "open" /\ Resolve(i, w)
      /\ docs' = docs /\ releases' = releases
  BY DEF ResolveKeep, Resolvable
<1>2. conflicts[i].family \in Family
  BY ConflictAt DEF Conflict
<1>3. Current(conflicts[i].family) \in Nat
  BY <1>2, CurrentNat
<1>4. /\ w \in Nat
      /\ conflicts[i].kind # "policy" =>
           /\ Current(conflicts[i].family) <= w
           /\ w <= Len(docs'[conflicts[i].family])
  BY <1>1, <1>3 DEF Current
<1>5. DocsStep
  BY <1>1 DEF DocsStep
<1> HIDE DEF w
<1> QED BY <1>1, <1>4, <1>5, ResolveKeeps

LEMMA ResolveSaveKeeps ==
  ASSUME TypeOK, TypeOK', RegisterInv, NEW i \in DOMAIN conflicts, NEW seen,
         NEW base, NEW p \in Payload, ResolveSave(i, seen, base, p)
  PROVE  RegisterInv' /\ RowsStep
<1> DEFINE f == conflicts[i].family
<1>1. /\ conflicts[i].status = "open" /\ Resolve(i, Current(f) + 1)
      /\ SaveTx(f, base, p) /\ releases' = releases
  BY DEF ResolveSave, Resolvable
<1>2. f \in Family
  BY ConflictAt DEF Conflict
<1>3. Current(f) \in Nat
  BY <1>2, CurrentNat
<1>4. DocsStep
  BY <1>1, <1>2, SaveTxStep
<1>5. Len(docs'[f]) = Current(f) + 1
  <2>1. docs'[f] = Saved(f, p)
    BY <1>1, <1>2 DEF SaveTx, TypeOK
  <2> QED BY <1>2, <2>1, SavedFacts
<1>6. /\ Current(f) + 1 \in Nat /\ Current(f) <= Current(f) + 1
      /\ Current(f) + 1 <= Len(docs'[f])
  BY <1>3, <1>5
<1> QED BY <1>1, <1>4, <1>6, ResolveKeeps

(* The family of a refused version is in the candidate, at that version or a
   later one: what was active stays so until a later version replaces it. *)
LEMMA RefusedIsCandidate ==
  ASSUME ReleaseInv, NEW c \in Conflict, c.kind = "policy", Evidence(c, docs)
  PROVE  LET w == ManifestVersion(Candidate, c.family) IN
         /\ w \in Nat /\ w >= c.their
         /\ [family |-> c.family, version |-> w] \in Candidate
<1> DEFINE f == c.family
<1>1. TypeOK /\ f \in Family /\ c.their \in Nat /\ Current(f) <= MaxVersion
  BY DEF ReleaseInv, Conflict
<1>2. /\ DOMAIN docs[f] = 1..Current(f) /\ Current(f) \in Nat
      /\ \A v \in 1..Current(f) : docs[f][v] \in Version
      /\ ActiveVersions(f) = {v \in 1..Current(f) : docs[f][v].status = "active"}
  BY <1>1, ActiveVersionsFacts
<1>3. c.their \in 1..Current(f) /\ docs[f][c.their].status # "draft"
  BY DEF Evidence, Current
<1>4. PICK w \in ActiveVersions(f) : w >= c.their
  <2>1. docs[f][c.their].status \in {"active", "superseded"}
    BY <1>2, <1>3 DEF Version
  <2>2. CASE docs[f][c.their].status = "active"
    BY <1>1, <1>2, <1>3, <2>2
  <2>3. CASE docs[f][c.their].status = "superseded"
    <3>1. PICK w \in ActiveVersions(f) : w > c.their
      BY <1>1, <1>2, <1>3, <2>3 DEF ReleaseInv, ActiveSupersedes
    <3> QED BY <1>1, <1>2, <3>1
  <2> QED BY <2>1, <2>2, <2>3
<1>5. [family |-> f, version |-> w] \in Candidate /\ w \in Nat
  BY <1>1, <1>2, ActiveIsCandidate
<1>6. \A d \in Candidate : d.family = f => d.version = w
  <2> SUFFICES ASSUME NEW d \in Candidate, d.family = f PROVE d.version = w
    OBVIOUS
  <2>1. d.version \in ActiveVersions(f)
    BY <1>1, <1>2, CandidateType
  <2> QED BY <1>1, <2>1 DEF ReleaseInv, ActiveSupersedes
<1>7. ManifestVersion(Candidate, f) = w
  <2>1. \E d \in Candidate : d.family = f
    BY <1>5
  <2> DEFINE e == CHOOSE d \in Candidate : d.family = f
  <2>2. e \in Candidate /\ e.family = f
    BY <2>1
  <2>3. ManifestVersion(Candidate, f) = e.version
    BY <2>1 DEF ManifestVersion
  <2> QED BY <1>6, <2>2, <2>3
<1> QED BY <1>4, <1>5, <1>7

(* A cut clears the open policy conflicts with what it releases. *)
LEMMA CutKeeps ==
  ASSUME ReleaseInv, TypeOK', RegisterInv, NEW h, CutRelease(h)
  PROVE  RegisterInv' /\ RowsStep
<1> DEFINE n == Len(releases)
<1>1. TypeOK
  BY DEF ReleaseInv
<1>2. /\ n \in Nat /\ docs' = docs
      /\ DOMAIN releases = 1..n /\ DOMAIN releases' = 1..n + 1
      /\ \A r \in 1..n : releases'[r] = releases[r]
      /\ releases'[n + 1].docs = Candidate
  BY <1>1, CutFacts
<1>3. DocsStep /\ ReleasesStep
  BY <1>2 DEF DocsStep, ReleasesStep
<1>4. conflicts' = [i \in DOMAIN conflicts |-> Cleared(conflicts[i], Candidate, n + 1)]
  BY DEF CutRelease
<1> HIDE DEF n
<1>5. ASSUME NEW i \in DOMAIN conflicts
      PROVE  LET c == conflicts[i]  d == conflicts'[i] IN
             /\ RowHolds(d, docs', releases') /\ RowStep(c, d)
             /\ d.kind = c.kind /\ d.family = c.family
             /\ d.status = "open" => c.status = "open"
  <2>1. conflicts[i] \in Conflict /\ RowHolds(conflicts[i], docs, releases)
    BY <1>1, ConflictAt DEF RegisterInv
  <2>2. CASE ~(conflicts[i].kind = "policy" /\ conflicts[i].status = "open")
    <3>1. conflicts'[i] = conflicts[i]
      BY <1>4, <2>2 DEF Cleared
    <3>2. RowHolds(conflicts[i], docs', releases')
      BY <1>1, <1>3, <2>1, RowKept
    <3> QED BY <3>1, <3>2 DEF RowStep
  <2>3. CASE conflicts[i].kind = "policy" /\ conflicts[i].status = "open"
    <3> DEFINE w == ManifestVersion(Candidate, conflicts[i].family)
    <3>1. /\ w \in Nat /\ w >= conflicts[i].their
          /\ [family |-> conflicts[i].family, version |-> w] \in Candidate
      BY <2>1, <2>3, RefusedIsCandidate DEF RowHolds
    <3>2. conflicts'[i] = [conflicts[i] EXCEPT !.status = "resolved", !.release = n + 1,
                                               !.winning = w]
      BY <1>4, <2>3 DEF Cleared
    <3> HIDE DEF w
    <3>3. PICK d : d = [conflicts[i] EXCEPT !.status = "resolved", !.release = n + 1,
                                            !.winning = w]
      OBVIOUS
    <3>4. /\ d.kind = "policy" /\ d.family = conflicts[i].family
          /\ d.other = conflicts[i].other /\ d.base = conflicts[i].base
          /\ d.their = conflicts[i].their /\ d.attempted = conflicts[i].attempted
          /\ d.status = "resolved" /\ d.release = n + 1 /\ d.winning = w
      BY <2>1, <2>3, <3>3 DEF Conflict
    <3>5. Evidence(d, docs')
      BY <1>2, <2>1, <2>3, <3>4 DEF RowHolds, Evidence
    <3>6. Outcome(d, docs', releases')
      BY <1>2, <3>1, <3>4 DEF Outcome
    <3>7. RowStep(conflicts[i], d)
      BY <2>3, <3>4 DEF RowStep
    <3> QED BY <2>3, <3>2, <3>3, <3>4, <3>5, <3>6, <3>7 DEF RowHolds
  <2> QED BY <2>2, <2>3
<1>6. DOMAIN conflicts' = DOMAIN conflicts
  BY <1>4
<1>7. OneOpenPerKind'
  BY <1>5, <1>6 DEF RegisterInv, OneOpenPerKind
<1> QED BY <1>5, <1>6, <1>7 DEF RegisterInv, RowsStep

(* Whatever the operation, the register keeps its invariant. *)
LEMMA RegisterStep ==
  ASSUME ReleaseInv, RegisterInv, [Next]_vars
  PROVE  RegisterInv' /\ RowsStep
<1>1. TypeOK /\ TypeOK' /\ DocsStep
  BY TypeStep, NextDocsStep DEF ReleaseInv
<1>2. releases' = releases => ReleasesStep
  BY DEF ReleasesStep
<1>3. CASE releases' = releases /\ conflicts' = conflicts
  BY <1>1, <1>2, <1>3, RegisterStays
<1>4. ASSUME NEW f \in Family, NEW base \in Base, NEW p \in Payload,
             SaveDoc(f, base, p) \/ SaveStale(f, base, p)
      PROVE  RegisterInv' /\ RowsStep
  BY <1>1, <1>3, <1>4, SaveStaleKeeps DEF SaveDoc
<1>5. CASE CutRefused
  BY <1>1, <1>5, CutRefusedKeeps
<1>6. ASSUME NEW h \in Hash, CutRelease(h) PROVE RegisterInv' /\ RowsStep
  BY <1>1, <1>6, CutKeeps
<1>7. ASSUME NEW f \in Family, NEW other \in Family \cup {None}, FlagClaim(f, other)
      PROVE  RegisterInv' /\ RowsStep
  BY <1>1, <1>7, FlagClaimKeeps
<1>8. ASSUME NEW i \in DOMAIN conflicts, NEW seen \in 1..MaxAttempts, ResolveKeep(i, seen)
      PROVE  RegisterInv' /\ RowsStep
  BY <1>1, <1>8, ResolveKeepKeeps
<1>9. ASSUME NEW i \in DOMAIN conflicts, NEW seen \in 1..MaxAttempts,
             NEW base \in Base, NEW p \in Payload, ResolveSave(i, seen, base, p)
      PROVE  RegisterInv' /\ RowsStep
  BY <1>1, <1>9, ResolveSaveKeeps
<1>10. CASE UNCHANGED vars
  BY <1>3, <1>10 DEF vars
<1> QED BY <1>4, <1>5, <1>6, <1>7, <1>8, <1>9, <1>10 DEF Next

-----------------------------------------------------------------------------
(* The theorems. *)

LEMMA RegisterInit == Init => RegisterInv
BY DEF Init, RegisterInv, OneOpenPerKind

(* The register, with what makes it inductive: records are filed in canonical
   order, and speak of versions that exist and were published. *)
THEOREM RegisterInvariant == Spec => []RegisterInv
<1>1. ReleaseInv /\ RegisterInv /\ [Next]_vars => RegisterInv'
  BY RegisterStep
<1> QED BY <1>1, RegisterInit, ReleaseInvariant, PTL DEF Spec

(* What the register promises follows from the invariant. *)
LEMMA RegisterPromises ==
  ReleaseInv /\ RegisterInv =>
    OneOpenConflict /\ EvidenceSound /\ WinnerNotOlder /\ ClearedByItsRelease
BY RegisterFollows DEF ReleaseInv

(* There is one open record of a kind for a family, and one open claim on a
   pair, at most (one_open_conflict_per_kind_family, FlagClaimConflict). *)
THEOREM OneOpenConflictAlways == Spec => []OneOpenConflict
BY RegisterPromises, RegisterInvariant, ReleaseInvariant, PTL

(* What an open record shows was really refused, against versions that exist
   (upsertEditConflictTx, upsertPolicyConflictTx). *)
THEOREM EvidenceSoundAlways == Spec => []EvidenceSound
BY RegisterPromises, RegisterInvariant, ReleaseInvariant, PTL

(* The winner of a conflict is never older than what it was opened against
   (ResolveConflict). *)
THEOREM WinnerNotOlderAlways == Spec => []WinnerNotOlder
BY RegisterPromises, RegisterInvariant, ReleaseInvariant, PTL

(* A policy conflict cleared by a release is won by the version that release
   has, no older than the one the lint refused (CutRelease). *)
THEOREM ClearedByItsReleaseAlways == Spec => []ClearedByItsRelease
BY RegisterPromises, RegisterInvariant, ReleaseInvariant, PTL

(* Releases are only appended. *)
LEMMA NextReleasesStep ==
  ASSUME TypeOK, [Next]_vars
  PROVE  ReleasesStep
<1>1. CASE releases' = releases
  BY <1>1 DEF ReleasesStep
<1>2. ASSUME NEW h \in Hash, CutRelease(h) PROVE ReleasesStep
  BY <1>2, CutFacts DEF ReleasesStep
<1> QED
  BY <1>1, <1>2
  DEF Next, vars, SaveDoc, SaveStale, CutRefused, FlagClaim, ResolveKeep, ResolveSave

(* No step rewrites what was published or said (the append-only triggers of
   conflicts, and the code alone for doc_versions and releases). *)
THEOREM HistoryKeptAlways == Spec => HistoryKept
<1>1. ASSUME TypeOK, TypeOK', ReleaseInv, RegisterInv, [Next]_vars
      PROVE  /\ \A f \in Family : \A v \in DOMAIN docs[f] :
                  /\ v \in DOMAIN docs'[f]
                  /\ docs'[f][v].body = docs[f][v].body
                  /\ docs'[f][v].links = docs[f][v].links
             /\ \A r \in DOMAIN releases :
                  r \in DOMAIN releases' /\ releases'[r] = releases[r]
             /\ \A i \in DOMAIN conflicts :
                  /\ i \in DOMAIN conflicts'
                  /\ conflicts[i].status = "resolved" => conflicts'[i] = conflicts[i]
  <2>1. DocsStep /\ ReleasesStep /\ RowsStep
    BY <1>1, NextDocsStep, NextReleasesStep, RegisterStep
  <2>2. ASSUME NEW f \in Family, NEW v \in DOMAIN docs[f]
        PROVE  /\ v \in DOMAIN docs'[f]
               /\ docs'[f][v].body = docs[f][v].body
               /\ docs'[f][v].links = docs[f][v].links
    <3>1. v \in 1..Current(f)
      BY <1>1, ActiveVersionsFacts
    <3>2. docs'[f] \in Seq(Version)
      BY <1>1 DEF TypeOK
    <3>3. DOMAIN docs'[f] = 1..Current(f)'
      BY <3>2, LenProperties DEF Current
    <3> QED BY <1>1, <2>1, <3>1, <3>3, VersionsKept
  <2> QED BY <2>1, <2>2 DEF ReleasesStep, RowsStep, RowStep
<1> QED
  BY <1>1, TypeCorrect, ReleaseInvariant, RegisterInvariant, PTL DEF Spec, HistoryKept

(* What a resolver may have looked at changes only together with attempts
   (upsertEditConflictTx, ResolveConflict's expected_attempts). *)
THEOREM AttemptsGuardEvidenceAlways == Spec => AttemptsGuardEvidence
<1>1. ASSUME ReleaseInv, RegisterInv, [Next]_vars
      PROVE  \A i \in DOMAIN conflicts :
               LET c == conflicts[i]  d == conflicts'[i]
               IN  <<c.base, c.their, c.attempted>> # <<d.base, d.their, d.attempted>>
                     => d.attempts > c.attempts
  BY <1>1, RegisterStep DEF RowsStep, RowStep
<1> QED
  BY <1>1, ReleaseInvariant, RegisterInvariant, PTL DEF Spec, AttemptsGuardEvidence
=============================================================================
