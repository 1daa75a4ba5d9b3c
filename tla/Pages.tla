------------------------------- MODULE Pages --------------------------------
(***************************************************************************)
(* The views of the page that save and publish documents: the editor       *)
(* (EditorTab) and the merge view it leads to after a refused save         *)
(* (ConflictView), the publish view (PublishTab), and the two diffs they   *)
(* draw, of manifests (ManifestDiff) and of bodies (LineDiff).             *)
(***************************************************************************)
EXTENDS EditorTab

CONSTANTS Record, ViewSlot, MaxAttempts,
          Content, MaxRelease, MaxEdit,
          Path, Body, MaxRow, Line, MaxLength, MaxLines, MaxProduct

VARIABLES patient, merges, born, open, attempts, version, saves, conflict, merge,
          keepOn, saveOn, hidden, merging, shown, awaited,
          waits, active, releases, edits, published, candidate, armed, cutOn, preview,
          diff, box, sent, seen, reviewed, refused,
          old, new, newLeft, oldLeft, added, removed, changed,
          a, b, i, j, rows, phase

Page == INSTANCE ConflictView WITH Slot <- ViewSlot, form <- merge, call <- awaited

Cut == INSTANCE PublishTab WITH patient <- waits, current <- published, call <- sent

Manifests == INSTANCE ManifestDiff WITH MaxVersion <- MaxRow

Bodies == INSTANCE LineDiff

(* The merge view does not leak, and saves once (ConflictView). *)
MergeInvariant == Page!MergeInvariant

(* A conflict is resolved as it was seen (ConflictView). *)
ResolvedAsSeen == Page!ResolvedAsSeen

(* What can be cut for an operator who waits belongs together (PublishTab). *)
PublishInvariant == Cut!PublishInvariant

(* Nothing is released that the page has not shown (PublishTab). *)
CutWasShown == Cut!CutWasShown

(* An operator who waits releases what he has reviewed (PublishTab). *)
CutAsReviewed == Cut!CutAsReviewed

(* The list of a release tells what hosts get (ManifestDiff). *)
TellsWhatHostsGet == Manifests!TellsWhatHostsGet

(* The diff of two bodies is right (LineDiff). *)
DiffInvariant == Bodies!DiffInvariant
=============================================================================
