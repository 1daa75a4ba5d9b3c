--------------------------- MODULE KnowledgeStore ---------------------------
(***************************************************************************)
(* The versioned document store of knowledge-server/store/store.go: the    *)
(* documents, the releases cut from them and the conflict register.  The   *)
(* store owns one SQLite connection and every operation is one             *)
(* transaction, so an operation is one action.  An operation that returns  *)
(* an error without recording a conflict rolls back: it is a stuttering    *)
(* step, and its condition is the negation of the guards below.            *)
(*                                                                         *)
(* Texts (titles, reasons, editors, timestamps) are left out, and so are   *)
(* the tables of hosts, resync flags and tokens, which share no row with   *)
(* these three.                                                            *)
(***************************************************************************)
EXTENDS Naturals, Sequences

CONSTANTS
  Family,        \* the (collection, family_id) pairs of the two seeded collections
  Kernel,        \* the families of the "kernel" collection
  Rank,          \* their order: ORDER BY collection, family_id
  Body,          \* document bodies
  Oversized,     \* the bodies over the kernel byte cap or word cap
  Payload,       \* the saves callers send (DocSave, less its base version)
  None,          \* an argument that is not given
  MaxVersion,    \* bound: versions of one family
  MaxRelease,    \* bound: releases
  MaxConflict,   \* bound: conflict records
  MaxAttempts    \* bound: attempts counted on one record

ASSUME KernelAssumption == Kernel \subseteq Family /\ Oversized \subseteq Body

ASSUME RankAssumption ==
  /\ Rank \in [Family -> Nat]
  /\ \A f, g \in Family : Rank[f] = Rank[g] => f = g

ASSUME BoundAssumption ==
  /\ MaxVersion \in Nat
  /\ MaxRelease \in Nat
  /\ MaxConflict \in Nat
  /\ MaxAttempts \in Nat

ASSUME NoneAssumption ==
  None \notin Nat /\ None \notin Family /\ None \notin Payload

(* A document version, named the way links, manifests and claims name it. *)
DocRef == [family : Family, version : Nat \ {0}]
Link == [relation : {"reference", "supersedes"}, to : DocRef]

(* What validateDocSave accepts; the order of the links only words errors. *)
ASSUME PayloadAssumption ==
  Payload \subseteq
    [status : {"draft", "active"}, body : Body, links : SUBSET Link]

(* A row of doc_versions with its rows of doc_links; its version number is
   its position in the sequence of its family. *)
Version ==
  [status : {"draft", "active", "superseded"}, body : Body, links : SUBSET Link]

(* A row of releases with its rows of release_docs; its id is its position.
   content is what content_hash is computed from: every path with its body. *)
Release == [docs : SUBSET DocRef, content : SUBSET (Family \X Body)]

(* A row of conflicts; its id is its position.  release is the release id
   of "cleared by release <id>", 0 for any other resolution. *)
Conflict ==
  [kind : {"edit", "claim", "policy"}, status : {"open", "resolved"},
   family : Family, other : Family \cup {None},
   base : Nat, their : Nat, attempts : Nat \ {0},
   attempted : Payload \cup {None},
   winning : Nat, release : Nat]

VARIABLES
  docs,        \* the versions of each family
  releases,    \* the releases, oldest first
  conflicts    \* the conflict register, oldest first

vars == <<docs, releases, conflicts>>

TypeOK ==
  /\ docs \in [Family -> Seq(Version)]
  /\ releases \in Seq(Release)
  /\ conflicts \in Seq(Conflict)

Init ==
  /\ docs = [f \in Family |-> <<>>]
  /\ releases = <<>>
  /\ conflicts = <<>>

-----------------------------------------------------------------------------
(* Documents. *)

(* MAX(version), 0 for a family without versions. *)
Current(f) == Len(docs[f])

(* Saved with a fault each: the active version is not demoted; a draft demotes
   it too; a draft replaces the latest draft in place. *)
SavedNoDemotion(f, p) == Append(docs[f], p)
SavedDraftDemotes(f, p) ==
  [v \in 1..Current(f) + 1 |->
     IF v = Current(f) + 1 THEN p
     ELSE IF docs[f][v].status = "active"
          THEN [docs[f][v] EXCEPT !.status = "superseded"]
          ELSE docs[f][v]]
SavedInPlace(f, p) ==
  [v \in 1..Current(f) + 1 |->
     IF v = Current(f) + 1 \/ (v = Current(f) /\ p.status = docs[f][v].status)
       THEN p ELSE docs[f][v]]

(* The versions of f after p is inserted: an active save demotes the active
   version in the same transaction. *)
Saved(f, p) ==
  [v \in 1..Current(f) + 1 |->
     IF v = Current(f) + 1 THEN p
     ELSE IF p.status = "active" /\ docs[f][v].status = "active"
          THEN [docs[f][v] EXCEPT !.status = "superseded"]
          ELSE docs[f][v]]

(* A link of the payload targets the version the save would create. *)
SelfLink(f, p) ==
  \E l \in p.links : l.to = [family |-> f, version |-> Current(f) + 1]

(* saveDocTx: the optimistic lock, the self-link check and the insert. *)
SaveTx(f, base, p) ==
  /\ base \in {None, Current(f)}
  /\ ~SelfLink(f, p)
  /\ Current(f) < MaxVersion
  /\ docs' = [docs EXCEPT ![f] = Saved(f, p)]

(* The open record of a kind and family.  The store looks it up before it
   inserts, under a partial unique index. *)
OpenRows(kind, f) ==
  {i \in DOMAIN conflicts : /\ conflicts[i].kind = kind
                            /\ conflicts[i].status = "open"
                            /\ conflicts[i].family = f}

(* A record whose attempts are counted from 0. *)
OpenedUncounted(kind, f, other, base, their, attempted) ==
  [kind |-> kind, status |-> "open", family |-> f, other |-> other,
   base |-> base, their |-> their, attempts |-> 0, attempted |-> attempted,
   winning |-> 0, release |-> 0]

(* A record as it is inserted. *)
Opened(kind, f, other, base, their, attempted) ==
  [kind |-> kind, status |-> "open", family |-> f, other |-> other,
   base |-> base, their |-> their, attempts |-> 1, attempted |-> attempted,
   winning |-> 0, release |-> 0]

Insert(row) ==
  /\ Len(conflicts) < MaxConflict
  /\ conflicts' = Append(conflicts, row)

(* Upsert with a fault each: the base of the first attempt stays; the attempt
   is not counted. *)
UpsertKeepsBase(kind, f, base, their, attempted) ==
  \/ /\ OpenRows(kind, f) = {}
     /\ Insert(Opened(kind, f, None, base, their, attempted))
  \/ \E i \in OpenRows(kind, f) :
       /\ conflicts[i].attempts < MaxAttempts
       /\ conflicts' = [conflicts EXCEPT ![i].their = their,
                                         ![i].attempts = @ + 1,
                                         ![i].attempted = attempted]
UpsertUncounted(kind, f, base, their, attempted) ==
  \/ /\ OpenRows(kind, f) = {}
     /\ Insert(Opened(kind, f, None, base, their, attempted))
  \/ \E i \in OpenRows(kind, f) :
       conflicts' = [conflicts EXCEPT ![i].base = base,
                                      ![i].their = their,
                                      ![i].attempted = attempted]

(* Open a record for (kind, f), or make the open one tell of the latest
   attempt. *)
Upsert(kind, f, base, their, attempted) ==
  \/ /\ OpenRows(kind, f) = {}
     /\ Insert(Opened(kind, f, None, base, their, attempted))
  \/ \E i \in OpenRows(kind, f) :
       /\ conflicts[i].attempts < MaxAttempts
       /\ conflicts' = [conflicts EXCEPT ![i].base = base,
                                         ![i].their = their,
                                         ![i].attempts = @ + 1,
                                         ![i].attempted = attempted]

(* SaveDoc whose base is current, or that gives no base: last writer wins. *)
SaveDoc(f, base, p) ==
  /\ SaveTx(f, base, p)
  /\ UNCHANGED <<releases, conflicts>>

(* SaveDoc with a stale base: nothing is saved and the rejected payload is
   recorded in the same transaction. *)
SaveStale(f, base, p) ==
  /\ base \notin {None, Current(f)}
  /\ Upsert("edit", f, base, Current(f), p)
  /\ UNCHANGED <<docs, releases>>

-----------------------------------------------------------------------------
(* Releases. *)

Status(d) ==
  IF d.version \in DOMAIN docs[d.family]
    THEN docs[d.family][d.version].status ELSE "absent"

BodyOf(d) == docs[d.family][d.version].body

(* The rows a cut would snapshot: every active version.  Both seeded
   collections are release-bearing and no operation adds another. *)
Candidate ==
  {d \in [family : Family, version : 1..MaxVersion] : Status(d) = "active"}

(* What content_hash covers: neither version numbers nor links. *)
Content(ds) == {<<d.family, BodyOf(d)>> : d \in ds}

(* Kernel caps are checked while the candidate is read, links after it. *)
OverCap == {d \in Candidate : d.family \in Kernel /\ BodyOf(d) \in Oversized}

(* Links checked only for the existence of their target. *)
LinkDangling(l) == Status(l.to) = "absent"

(* A reference wants an active target, a supersedes link a superseded one. *)
LinkBroken(l) ==
  Status(l.to) # IF l.relation = "reference" THEN "active" ELSE "superseded"

BadLinks ==
  {d \in Candidate : \E l \in docs[d.family][d.version].links : LinkBroken(l)}

(* The first document that fails a lint, in candidate order. *)
Offenders ==
  LET bad == IF OverCap # {} THEN OverCap ELSE BadLinks
  IN  {d \in bad : \A e \in bad : Rank[d.family] <= Rank[e.family]}

(* releaseCandidate succeeds. *)
Cuttable == Candidate # {} /\ OverCap = {} /\ BadLinks = {}

(* CutRelease refused by a kernel or link lint: the offending document gets
   a policy conflict.  An empty candidate is refused without a record. *)
CutRefused ==
  /\ \E d \in Offenders : Upsert("policy", d.family, 0, d.version, None)
  /\ UNCHANGED <<docs, releases>>

(* The version of f in a manifest, 0 when f is not in it, which no cut meets
   (ClearedByItsRelease). *)
ManifestVersion(ds, f) ==
  IF \E d \in ds : d.family = f
    THEN (CHOOSE d \in ds : d.family = f).version ELSE 0

(* Cleared with a fault each: the winner is the newest version; records that
   are resolved already are resolved again. *)
ClearedByNewest(c, ds, id) ==
  IF c.kind = "policy" /\ c.status = "open"
    THEN [c EXCEPT !.status = "resolved", !.release = id,
                   !.winning = Current(c.family)]
    ELSE c
ClearedAgain(c, ds, id) ==
  IF c.kind = "policy"
    THEN [c EXCEPT !.status = "resolved", !.release = id,
                   !.winning = ManifestVersion(ds, c.family)]
    ELSE c

(* What a cut makes of a record. *)
Cleared(c, ds, id) ==
  IF c.kind = "policy" /\ c.status = "open"
    THEN [c EXCEPT !.status = "resolved", !.release = id,
                   !.winning = ManifestVersion(ds, c.family)]
    ELSE c

(* CutRelease: expected is the content hash the caller reviewed, None for an
   unconditional cut.  Every open policy conflict is resolved with it. *)
CutRelease(expected) ==
  /\ Cuttable
  /\ expected \in {None, Content(Candidate)}
  /\ Len(releases) < MaxRelease
  /\ releases' = Append(releases, [docs |-> Candidate,
                                   content |-> Content(Candidate)])
  /\ conflicts' = [i \in DOMAIN conflicts |->
                     Cleared(conflicts[i], Candidate, Len(releases) + 1)]
  /\ UNCHANGED docs

-----------------------------------------------------------------------------
(* The conflict register. *)

(* A claim filed under the document the operator named first. *)
FlagClaimAsNamed(f, other) ==
  /\ other # f
  /\ OpenRows("claim", f) = {}
  /\ Insert(Opened("claim", f, other, Current(f),
                   IF other = None THEN 0 ELSE Current(other), None))
  /\ UNCHANGED <<docs, releases>>

(* FlagClaimConflict: the pair is stored with its lesser member first, and a
   second open claim on that member is refused. *)
FlagClaim(f, other) ==
  LET swap == other # None /\ Rank[other] < Rank[f]
      primary == IF swap THEN other ELSE f
      second == IF swap THEN f ELSE other
      their == IF second = None THEN 0 ELSE Current(second)
  IN  /\ other # f
      /\ OpenRows("claim", primary) = {}
      /\ Insert(Opened("claim", primary, second, Current(primary), their, None))
      /\ UNCHANGED <<docs, releases>>

(* A record that is open and still has the attempts the resolver saw. *)
Resolvable(i, seen) ==
  /\ conflicts[i].status = "open"
  /\ conflicts[i].attempts = seen

Resolve(i, winning) ==
  conflicts' = [conflicts EXCEPT ![i].status = "resolved", ![i].winning = winning]

(* The winner of a resolution without a save is the version it was opened for. *)
ResolveKeepBase(i, seen) ==
  /\ Resolvable(i, seen)
  /\ Resolve(i, conflicts[i].base)
  /\ UNCHANGED <<docs, releases>>

(* ResolveConflict without a save: the winner is the current version, and
   never named for a policy conflict. *)
ResolveKeep(i, seen) ==
  /\ Resolvable(i, seen)
  /\ Resolve(i, IF conflicts[i].kind = "policy" THEN 0
                ELSE Current(conflicts[i].family))
  /\ UNCHANGED <<docs, releases>>

(* ResolveConflict with a save: the save and the resolution commit together,
   a stale base rolls both back. *)
ResolveSave(i, seen, base, p) ==
  LET f == conflicts[i].family
  IN  /\ Resolvable(i, seen)
      /\ conflicts[i].kind = "edit"
      /\ SaveTx(f, base, p)
      /\ Resolve(i, Current(f) + 1)
      /\ UNCHANGED releases

-----------------------------------------------------------------------------
(* What callers may send. *)
Base == 0..MaxVersion \cup {None}
Hash == {None, Content(Candidate)}

Next ==
  \/ \E f \in Family, base \in Base, p \in Payload :
       SaveDoc(f, base, p) \/ SaveStale(f, base, p)
  \/ CutRefused
  \/ \E h \in Hash : CutRelease(h)
  \/ \E f \in Family, other \in Family \cup {None} : FlagClaim(f, other)
  \/ \E i \in DOMAIN conflicts, seen \in 1..MaxAttempts :
       \/ ResolveKeep(i, seen)
       \/ \E base \in Base, p \in Payload : ResolveSave(i, seen, base, p)

Spec == Init /\ [][Next]_vars

-----------------------------------------------------------------------------
(* Properties. *)

ActiveVersions(f) == {v \in DOMAIN docs[f] : docs[f][v].status = "active"}

(* A family never has two active versions, and a version is superseded only
   by a later one that is active now: a demotion without its insert, or an
   insert that revives an older version, would leave a published document
   without an active version (saveDocTx, one_active_per_family). *)
ActiveSupersedes ==
  \A f \in Family :
    /\ \A v, w \in ActiveVersions(f) : v = w
    /\ \A v \in DOMAIN docs[f] :
         docs[f][v].status = "superseded" => \E w \in ActiveVersions(f) : w > v

(* A release is closed under its links: what a released document references
   is in the same release at the referenced version, and what it supersedes
   is in the release at a later version (lintDocLinksTx; releases are never
   rewritten, so this is true of every release ever cut). *)
ReleaseClosed ==
  \A r \in DOMAIN releases : \A d \in releases[r].docs :
    \A l \in docs[d.family][d.version].links :
      \E e \in releases[r].docs :
        /\ e.family = l.to.family
        /\ IF l.relation = "reference" THEN e.version = l.to.version
                                       ELSE e.version > l.to.version

(* Releases only move forward: a family that was released is in every later
   release, at the same version or a later one.  Nothing in CutRelease looks
   at earlier releases: it holds because an active family stays active. *)
ReleasesMoveForward ==
  \A r, s \in DOMAIN releases : r <= s =>
    \A d \in releases[r].docs : \E e \in releases[s].docs :
      e.family = d.family /\ e.version >= d.version

(* The archive of a release hashes to its content hash for ever: the archive
   is read from doc_versions long after the hash was stored, and holds one
   entry per path, which no key of release_docs says (WriteArchive). *)
ArchiveMatchesHash ==
  \A r \in DOMAIN releases :
    /\ Content(releases[r].docs) = releases[r].content
    /\ \A d, e \in releases[r].docs : d.family = e.family => d = e

(* At most one open record of a kind for a family, which is what the editor
   and the merge view rely on when they look "the" conflict up
   (one_open_conflict_per_kind_family); and two open claims never set the same
   two documents against each other, in whichever order the operators named
   them (FlagClaimConflict stores the pair in canonical order and refuses a
   second claim on its primary). *)
OneOpenConflict ==
  \A i, j \in DOMAIN conflicts :
    LET c == conflicts[i]  d == conflicts[j]
    IN  /\ c.status = "open" /\ d.status = "open" /\ c.kind = d.kind
        /\ \/ c.family = d.family
           \/ c.kind = "claim" /\ {c.family, c.other} = {d.family, d.other}
        => i = j

(* What an open record shows is real: an edit conflict has the rejected
   payload, a base that was stale against a version that exists; a policy
   conflict names a version that went active (upsertEditConflictTx,
   upsertPolicyConflictTx). *)
EvidenceSound ==
  \A i \in DOMAIN conflicts : LET c == conflicts[i] IN
    /\ c.their <= IF c.kind = "claim" /\ c.other # None
                    THEN Current(c.other) ELSE Current(c.family)
    /\ c.kind = "edit" => c.attempted # None /\ c.base # c.their
    /\ c.kind = "policy" => docs[c.family][c.their].status # "draft"

(* The winner of a resolved edit or claim conflict is a version that exists
   and is never older than the version the record was opened against, however
   many saves and attempts came between (ResolveConflict). *)
WinnerNotOlder ==
  \A i \in DOMAIN conflicts : LET c == conflicts[i] IN
    (c.status = "resolved" /\ c.kind # "policy") =>
      /\ c.winning >= IF c.kind = "edit" THEN c.their ELSE c.base
      /\ c.winning <= Current(c.family)

(* A policy conflict cleared by a release is won by the version its document
   has in that very release, which is not older than the version the lint
   refused, whatever was saved between the refusal and the cut.  The comments
   of CutRelease say 0 for a family "demoted to draft before the cut", and so
   does its code; but a draft demotes nothing, and only the next active version
   takes the place of an active one, so that the case they describe does not
   occur: the family is always in the manifest. *)
ClearedByItsRelease ==
  \A i \in DOMAIN conflicts : LET c == conflicts[i] IN
    (c.status = "resolved" /\ c.kind = "policy" /\ c.release # 0) =>
      /\ c.release \in DOMAIN releases
      /\ [family |-> c.family, version |-> c.winning] \in releases[c.release].docs
      /\ c.winning >= c.their

(* No step rewrites what was published or said: versions keep their body and
   links, releases and resolved records never change, no record goes away
   (the append-only triggers of conflicts; doc_versions and releases have no
   trigger and rely on the code). *)
HistoryKept ==
  [][/\ \A f \in Family : \A v \in DOMAIN docs[f] :
          /\ v \in DOMAIN docs'[f]
          /\ docs'[f][v].body = docs[f][v].body
          /\ docs'[f][v].links = docs[f][v].links
     /\ \A r \in DOMAIN releases :
          r \in DOMAIN releases' /\ releases'[r] = releases[r]
     /\ \A i \in DOMAIN conflicts :
          /\ i \in DOMAIN conflicts'
          /\ conflicts[i].status = "resolved" => conflicts'[i] = conflicts[i]]_vars

(* attempts is the version of an open record: whatever a resolver may have
   looked at changes only together with it, so that expected_attempts is
   enough to detect that the record moved under the resolver. *)
AttemptsGuardEvidence ==
  [][\A i \in DOMAIN conflicts :
       LET c == conflicts[i]  d == conflicts'[i]
       IN  <<c.base, c.their, c.attempted>> # <<d.base, d.their, d.attempted>>
             => d.attempts > c.attempts]_vars

(* A family that has an active version always has one: a draft saved on top
   leaves the published version in place. *)
ActiveStaysActive ==
  [][\A f \in Family : ActiveVersions(f) # {} =>
       \E v \in DOMAIN docs'[f] : docs'[f][v].status = "active"]_vars

(* The archives the store would serve, read through doc_versions. *)
Served == [r \in DOMAIN releases |-> Content(releases[r].docs)]

Log == INSTANCE ReleaseLog WITH log <- Served

(* The store implements ReleaseLog: the archives it serves, at whatever time
   they are read, are a log that only grows and never drops a document
   (CutRelease, WriteArchive). *)
ServesReleaseLog == Log!Spec
=============================================================================
