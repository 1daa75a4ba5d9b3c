---------------------------- MODULE Materialize ----------------------------
(***************************************************************************)
(* From a manifest and an archive to a tree of files: buildWantSet,        *)
(* extractTar, validateEntryPath and recomputeContentHash of               *)
(* knowledge-server/subscriber/main.go, entry by entry, with the names     *)
(* that validateIdent of knowledge-server/store/store.go lets into a       *)
(* manifest.  A path is the sequence of its elements between slashes, the  *)
(* first one empty when it is absolute; a content hash is what it hashes.  *)
(***************************************************************************)
EXTENDS Naturals, Sequences, SequencesExt, Functions

CONSTANTS
  Name,         \* paths of manifests and archives that nobody vouches for
  Collection,   \* collections, one element each
  Family,       \* families a caller may try to save: sequences of elements
  Long,         \* elements longer than the file system of a host takes
  Body,         \* contents of files
  MaxDoc,       \* bound: documents of a manifest
  MaxEntry      \* bound: entries of an archive that is not the server's

VARIABLES
  served,       \* manifest and archive are the server's, and arrive whole
  docs,         \* the manifest, with the bodies its content hash stands for
  read,         \* entries of the archive read so far
  tree,         \* files and directories: their contents, or Dir
  seen,         \* the entries written
  phase         \* "manifest", "extract", "hash", "installed" or "failed"

vars == <<served, docs, read, tree, seen, phase>>

Dir == <<"dir">>
File(body) == <<"file", body>>

Home == <<"home">>
Dest == Home \o <<"releases", ".tmp">>
Corpus == Home \o <<"corpus">>

(* What was there before. *)
Before == [p \in {<<>>, Home, Front(Dest), Corpus} |->
             IF p = Corpus THEN File("old") ELSE Dir]

-----------------------------------------------------------------------------
(* Names. *)

(* validateIdent; the bytes it refuses besides have no part in paths. *)
Ident(ident) == Len(ident) = 1 /\ Head(ident) \notin {"", ".", ".."}

(* The path of a document in a manifest. *)
DocPath(c, f) == <<c>> \o Front(f) \o <<Last(f) \o ".md">>

(* filepath.Clean of a rooted path. *)
Clean(path) ==
  FoldLeft(LAMBDA done, e : IF e \in {"", "."} THEN done
                            ELSE IF e # ".." THEN Append(done, e)
                            ELSE IF done = <<>> THEN <<>> ELSE Front(done),
           <<>>, path)

Target(name) == Clean(Dest \o name)

(* validateEntryPath *)
Refused(name) ==
  \/ name = <<"">> \/ Head(name) = ""
  \/ ".." \in Range(name)
  \/ ~IsPrefix(Dest, Target(name))

-----------------------------------------------------------------------------
Doc(paths) == [path : paths, body : Body]
Manifest(paths) == UNION {[1..n -> Doc(paths)] : n \in 0..MaxDoc}

(* A release has documents, each of them once. *)
Paths(m) == [i \in DOMAIN m |-> m[i].path]
Release(m) == m # <<>> /\ IsInjective(Paths(m))

ServedPath == {DocPath(c, f) : c \in Collection, f \in {g \in Family : Ident(g)}}

Init ==
  /\ \/ served = TRUE /\ docs \in Manifest(ServedPath) /\ Release(docs)
     \/ served = FALSE /\ docs \in Manifest(Name)
  /\ read = 0
  /\ tree = Before
  /\ seen = {}
  /\ phase = "manifest"

Want == Range(Paths(docs))

(* A pass that fails removes what it has extracted. *)
Fails ==
  /\ phase' = "failed"
  /\ tree' = Restrict(tree, {p \in DOMAIN tree : ~IsPrefix(Dest, p)})

(* buildWantSet, then a new directory to extract into. *)
CheckManifest ==
  /\ phase = "manifest"
  /\ IF \E name \in Want : Refused(name)
       THEN Fails
       ELSE /\ phase' = "extract"
            /\ tree' = [p \in DOMAIN tree \cup {Dest} |-> IF p = Dest THEN Dir ELSE tree[p]]
  /\ UNCHANGED <<served, docs, read, seen>>

Parents(path) == {SubSeq(path, 1, n) : n \in 0..(Len(path) - 1)}
IsFile(p) == p \in DOMAIN tree /\ tree[p] # Dir
IsDir(p) == p \in DOMAIN tree /\ tree[p] = Dir

(* MkdirAll and OpenFile: a file in the place of a directory, or the other
   way round, is an error, and so is a name the file system does not take. *)
Writable(target) ==
  /\ ~IsDir(target)
  /\ \A p \in Parents(target) : ~IsFile(p)
  /\ Range(target) \cap Long = {}

Written(target, body) ==
  [p \in DOMAIN tree \cup Parents(target) \cup {target} |->
     IF p = target THEN File(body) ELSE IF p \in DOMAIN tree THEN tree[p] ELSE Dir]

(* Mutant: an entry need not be in the manifest. *)
AllowedUnwanted(name, regular) == ~Refused(name) /\ regular

Allowed(name, regular) == ~Refused(name) /\ regular /\ name \in Want

Extract(name, regular, body) ==
  /\ phase = "extract"
  /\ read' = read + 1
  /\ IF Allowed(name, regular) /\ Writable(Target(name))
       THEN /\ tree' = Written(Target(name), body)
            /\ seen' = seen \cup {name}
            /\ UNCHANGED phase
       ELSE Fails /\ UNCHANGED seen
  /\ UNCHANGED <<served, docs>>

(* WriteArchive sends the documents of the manifest in their order. *)
NextEntry ==
  IF served
    THEN read < Len(docs) /\ Extract(docs[read + 1].path, TRUE, docs[read + 1].body)
    ELSE /\ read < MaxEntry
         /\ \E name \in Name, regular \in BOOLEAN, body \in Body : Extract(name, regular, body)

(* The end of the archive. *)
EndOfArchive ==
  /\ phase = "extract"
  /\ served => read = Len(docs)
  /\ IF Want \subseteq seen THEN phase' = "hash" /\ UNCHANGED tree ELSE Fails
  /\ UNCHANGED <<served, docs, read, seen>>

(* The connection is lost, or the disk full. *)
Interrupted ==
  /\ phase = "extract" /\ Fails
  /\ served' = FALSE
  /\ UNCHANGED <<docs, read, seen>>

(* recomputeContentHash, and the comparison with the hash of the manifest. *)
Hash ==
  /\ phase = "hash"
  /\ IF \A i \in DOMAIN docs : LET t == Target(docs[i].path)
                               IN  IsFile(t) /\ tree[t] = File(docs[i].body)
       THEN phase' = "installed" /\ UNCHANGED tree
       ELSE Fails
  /\ UNCHANGED <<served, docs, read, seen>>

Next == CheckManifest \/ NextEntry \/ EndOfArchive \/ Interrupted \/ Hash

Spec == Init /\ [][Next]_vars

-----------------------------------------------------------------------------
(* What must hold. *)

TypeOK ==
  /\ served \in BOOLEAN
  /\ \A i \in DOMAIN docs : docs[i].body \in Body
  /\ phase \in {"manifest", "extract", "hash", "installed", "failed"}
  /\ seen \subseteq Want
  /\ \A p \in DOMAIN tree : p # <<>> => IsDir(Front(p))

(* Whatever the manifest and the archive name, nothing outside the temporary
   directory is written (validateEntryPath, MkdirAll and OpenFile). *)
StaysInside ==
  /\ DOMAIN Before \subseteq DOMAIN tree
  /\ \A p \in DOMAIN tree :
       IsPrefix(Dest, p) \/ (p \in DOMAIN Before /\ tree[p] = Before[p])

(* "The materialized tree can never contain an unmanifested file", nor miss or
   replace one: what is installed is the manifest, whose paths may be spelt in
   more than one way, with the bodies its content hash stands for. *)
ExactlyTheManifest ==
  phase = "installed" =>
    LET files == {p \in DOMAIN tree : IsPrefix(Dest, p) /\ IsFile(p)}
    IN  /\ files = {Target(name) : name \in Want}
        /\ \A i \in DOMAIN docs : tree[Target(docs[i].path)] = File(docs[i].body)

(* "The path-safe identifier shape required for any collection or family id
   that will land in a tar entry or filesystem path" (validateIdent): a release
   the server can cut is not refused by a host that gets all of it. *)
EveryReleaseInstalls == served => phase # "failed"

(* validateIdent has no limit of length.  A release without a name that is too
   long for the host is not refused by it. *)
NamesTaken == \A name \in Want : Range(name) \cap Long = {}

ServedIsInstalled == NamesTaken => EveryReleaseInstalls

(* What every state of extractTar satisfies: nothing is written outside, what
   is installed is the manifest, and what the server serves is installed if the
   host takes its names. *)
TreeInvariant == TypeOK /\ StaysInside /\ ExactlyTheManifest /\ ServedIsInstalled
=============================================================================
