------------------------------ MODULE MCPages -------------------------------
(***************************************************************************)
(* Pages for TLC.  Its views and diffs are explored apart: those that part *)
(* does not name stay as they start.                                       *)
(***************************************************************************)
EXTENDS Pages, TLC

VARIABLE part

mergeView ==
  <<patient, merges, born, open, attempts, version, saves, conflict, merge, keepOn,
    saveOn, hidden, merging, shown, awaited>>
cutView ==
  <<waits, active, releases, edits, published, candidate, armed, cutOn, preview,
    diff, box, sent, seen, reviewed, refused>>
manifests == <<old, new, newLeft, oldLeft, added, removed, changed>>
bodies == <<a, b, i, j, rows, phase>>

NoEditor == Init /\ task = "edit" /\ author = [f \in Family |-> <<>>]
NoMerge == Page!Init /\ patient /\ \A r \in Record : merges[r] /\ born[r]
NoCut == Cut!Init /\ waits /\ active = None
NoManifests ==
  /\ old = <<>> /\ new = <<>> /\ newLeft = {} /\ oldLeft = {}
  /\ added = {} /\ removed = {} /\ changed = {}
NoBodies ==
  /\ a = <<>> /\ b = <<>> /\ i = 0 /\ j = 0
  /\ rows = <<>> /\ phase = "start"

(* At most one record of two is special, and a family without versions meets an
   operator who waits. *)
Mix ==
  /\ \E r \in Record : \A q \in Record \ {r} : merges[q] /\ born[q]
  /\ patient \/ \A r \in Record : born[r]

(* Bodies that differ in the names of their lines alone meet the same steps: a
   line that is new has the next number. *)
InOrder ==
  LET s == a \o b
  IN  \A n \in DOMAIN s : \A l \in 1..s[n] - 1 : \E m \in 1..n - 1 : s[m] = l

MCInit ==
  /\ part \in {"editor", "merge", "cut", "manifests", "bodies"}
  /\ IF part = "editor" THEN Init ELSE NoEditor
  /\ IF part = "merge" THEN Page!Init /\ Mix ELSE NoMerge
  /\ IF part = "cut" THEN Cut!Init ELSE NoCut
  /\ IF part = "manifests" THEN Manifests!Init ELSE NoManifests
  /\ IF part = "bodies" THEN Bodies!Init /\ InOrder ELSE NoBodies

MCNext ==
  /\ UNCHANGED part
  /\ \/ part = "editor" /\ Next /\ UNCHANGED <<mergeView, cutView, manifests, bodies>>
     \/ part = "merge" /\ Page!Next /\ UNCHANGED <<vars, cutView, manifests, bodies>>
     \/ part = "cut" /\ Cut!Next /\ UNCHANGED <<vars, mergeView, manifests, bodies>>
     \/ /\ part = "manifests" /\ Manifests!Next
        /\ UNCHANGED <<vars, mergeView, cutView, bodies>>
     \/ /\ part = "bodies" /\ Bodies!Next
        /\ UNCHANGED <<vars, mergeView, cutView, manifests>>

MCSpec == MCInit /\ [][MCNext]_<<part, vars, mergeView, cutView, manifests, bodies>>

(* An operator who reads meets documents of two versions, one who does not wait
   before the conflict page no attempt after the first; a family that had no
   version gets two.  Of two documents one has more than one version.  An
   operator who does not wait in the publish view meets two releases and two
   edits. *)
Region ==
  /\ \E f \in Family : Latest(f) <= 1
  /\ \E r \in Record : version[r] <= 1
  /\ task = "read" => \A f \in Family : Latest(f) <= 2
  /\ patient \/ \A r \in Record : attempts[r] = 1
  /\ \A r \in Record : born[r] \/ version[r] < 3
  /\ waits \/ (Len(releases) <= 2 /\ edits <= 2)

Symmetry ==
  UNION {Permutations(S) : S \in {Family, Content, Slot}}
=============================================================================
