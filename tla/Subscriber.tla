----------------------------- MODULE Subscriber -----------------------------
(***************************************************************************)
(* A host that follows the server's releases: the converge pass of         *)
(* knowledge-server/subscriber/main.go step by step, the server's side of  *)
(* it (current release, archive, heartbeat and resync handlers with their  *)
(* store operations), and what lies between: a pass may crash or fail at   *)
(* any step, a heartbeat may be delayed, overtaken or lost, and the        *)
(* agents of the host may change the files they read.                      *)
(*                                                                         *)
(* Proc is the set of subscriber processes that share one KNOWLEDGE_HOME:  *)
(* one as documented, two when a scheduled pass outlives its interval.     *)
(***************************************************************************)
EXTENDS Naturals, Sequences

CONSTANTS
  Family, Body,   \* of the releases, see ReleaseLog
  Proc,           \* subscriber processes on the host
  None,           \* no file, no row
  MaxRelease,     \* bound: releases
  MaxRequest,     \* bound: resync requests
  MaxFault,       \* bound: crashes, failures, losses and local changes
  MaxBeat,        \* bound: heartbeats on the wire
  MaxCopy         \* bound: copies of one release

ASSUME BoundAssumption ==
  /\ {MaxRelease, MaxRequest, MaxFault, MaxBeat, MaxCopy} \subseteq Nat
  /\ MaxBeat > 0

ASSUME NoneAssumption ==
  None \notin [id : Nat, copy : Nat] \cup [id : Nat, docs : SUBSET (Family \X Body)]

VARIABLES
  (* server *)
  log,        \* the published releases (ReleaseLog)
  flag,       \* the host has a row in resync_requests
  row,        \* the host's row in heartbeats
  beats,      \* heartbeats sent and neither received nor given up
  (* files below KNOWLEDGE_HOME *)
  dirs,       \* releases/<id> and releases/<id>.<n>: their contents
  corpus,     \* the directory the corpus symlink names
  applied,    \* .applied: release and content hash, None if absent or torn
  (* the pass of each process *)
  pc, cur, fired, tmp, dir, beat,
  (* history *)
  requests, faults,
  before,     \* corpus when the pass began
  owed        \* a resync was requested when no acknowledgement was under way,
              \* and no pass that saw the request has rebuilt the corpus since

server == <<log, flag, row, beats>>
files == <<dirs, corpus, applied>>
pass == <<pc, cur, fired, tmp, dir, beat>>
vars == <<server, files, pass, requests, faults, before, owed>>

Server == INSTANCE ReleaseLog

(* A tree of files, each path with one body; possibly empty. *)
Tree == {{}} \cup Server!Archive

(* releases/<id> is copy 0, releases/<id>.<n> copy n. *)
DirName == [id : Nat, copy : 0..MaxCopy]

Beat == [release : Nat, ok : BOOLEAN, acked : BOOLEAN]

TypeOK ==
  /\ log \in Seq(Server!Archive)
  /\ flag \in BOOLEAN
  /\ row \in [release : Nat, ok : BOOLEAN] \cup {None}
  /\ beats \in Seq(Beat)
  /\ DOMAIN dirs \subseteq DirName
  /\ \A d \in DOMAIN dirs : dirs[d] \in Tree
  /\ corpus \in DOMAIN dirs \cup {None}
  /\ applied \in [id : Nat, docs : Tree] \cup {None}
  /\ pc \in [Proc -> {"idle", "flag", "erase", "check", "download", "verify",
                      "place", "rename", "flip", "mark", "fill", "report"}]
  /\ cur \in [Proc -> [id : Nat, docs : Tree]]
  /\ fired \in [Proc -> BOOLEAN]
  /\ tmp \in [Proc -> Tree]
  /\ dir \in [Proc -> DirName]
  /\ beat \in [Proc -> Beat]
  /\ requests \in 0..MaxRequest
  /\ faults \in 0..MaxFault
  /\ before \in [Proc -> DOMAIN dirs \cup {None}]
  /\ owed \in BOOLEAN

NoRelease == [id |-> 0, docs |-> {}]
NoDir == [id |-> 0, copy |-> 0]
NoBeat == [release |-> 0, ok |-> FALSE, acked |-> FALSE]

Init ==
  /\ Server!Init
  /\ flag = FALSE
  /\ row = None
  /\ beats = <<>>
  /\ dirs = [d \in {} |-> {}]
  /\ corpus = None
  /\ applied = None
  /\ pc = [p \in Proc |-> "idle"]
  /\ cur = [p \in Proc |-> NoRelease]
  /\ fired = [p \in Proc |-> FALSE]
  /\ tmp = [p \in Proc |-> {}]
  /\ dir = [p \in Proc |-> NoDir]
  /\ beat = [p \in Proc |-> NoBeat]
  /\ requests = 0
  /\ faults = 0
  /\ before = [p \in Proc |-> None]
  /\ owed = FALSE

Fault == faults < MaxFault /\ faults' = faults + 1

-----------------------------------------------------------------------------
(* The server. *)

(* CutRelease, as far as a subscriber can tell. *)
Publish ==
  /\ Len(log) < MaxRelease
  /\ Server!Publish
  /\ UNCHANGED <<flag, row, beats, files, pass, requests, faults, before, owed>>

(* A pass under way has seen the flag, or one of its acknowledgements is
   still on the wire. *)
AckOutstanding ==
  \/ \E p \in Proc : pc[p] = "erase" \/ fired[p] \/ beat[p].acked
  \/ \E i \in DOMAIN beats : beats[i].acked

(* The operator forces a resync. *)
RequestResync ==
  /\ requests < MaxRequest
  /\ requests' = requests + 1
  /\ flag' = TRUE
  /\ owed' = (owed \/ ~AckOutstanding)
  /\ UNCHANGED <<log, row, beats, files, pass, faults, before>>

Without(s, i) == SubSeq(s, 1, i - 1) \o SubSeq(s, i + 1, Len(s))

(* A heartbeat arrives, in any order: the row is replaced, and the flag is
   cleared by a success that says it applied a resync. *)
Heartbeat(i) ==
  /\ row' = [release |-> beats[i].release, ok |-> beats[i].ok]
  /\ flag' = (flag /\ ~(beats[i].ok /\ beats[i].acked))
  /\ beats' = Without(beats, i)
  /\ UNCHANGED <<log, files, pass, requests, faults, before, owed>>

LoseHeartbeat(i) ==
  /\ Fault
  /\ beats' = Without(beats, i)
  /\ UNCHANGED <<log, flag, row, files, pass, requests, before, owed>>

-----------------------------------------------------------------------------
(* The converge pass. *)

(* Every return of converge sends one heartbeat. *)
Ends(p, release, ok, acked) ==
  /\ pc' = [pc EXCEPT ![p] = "report"]
  /\ beat' = [beat EXCEPT ![p] = [release |-> release, ok |-> ok, acked |-> acked]]

Goes(p, step) == pc' = [pc EXCEPT ![p] = step] /\ UNCHANGED beat

(* Mutant: the answer is one that something in between has kept. *)
FetchCurrentKept(p) ==
  /\ pc[p] = "idle"
  /\ before' = [before EXCEPT ![p] = corpus]
  /\ \/ log = <<>> /\ Ends(p, 0, FALSE, FALSE) /\ UNCHANGED cur
     \/ \E n \in DOMAIN log :
          Goes(p, "flag") /\ cur' = [cur EXCEPT ![p] = [id |-> n, docs |-> log[n]]]
  /\ UNCHANGED <<server, files, fired, tmp, dir, requests, faults, owed>>

(* fetchCurrent: the server reads its newest release ... *)
FetchCurrent(p) ==
  /\ pc[p] = "idle"
  /\ before' = [before EXCEPT ![p] = corpus]
  /\ IF log = <<>>
       THEN Ends(p, 0, FALSE, FALSE) /\ UNCHANGED cur
       ELSE /\ Goes(p, "flag")
            /\ cur' = [cur EXCEPT ![p] = [id |-> Len(log), docs |-> log[Len(log)]]]
  /\ UNCHANGED <<server, files, fired, tmp, dir, requests, faults, owed>>

(* ... and then whether a resync is pending. *)
ReadFlag(p) ==
  /\ pc[p] = "flag"
  /\ Goes(p, IF flag THEN "erase" ELSE "check")
  /\ UNCHANGED <<server, files, cur, fired, tmp, dir, requests, faults, before, owed>>

(* Mutant: a resync that leaves the marker alone. *)
EraseMarkerNot(p) ==
  /\ pc[p] = "erase"
  /\ fired' = [fired EXCEPT ![p] = TRUE]
  /\ Goes(p, "check")
  /\ UNCHANGED <<server, files, cur, tmp, dir, requests, faults, before, owed>>

(* Belief erasure: the marker goes, and with it the reason to stop early. *)
EraseMarker(p) ==
  /\ pc[p] = "erase"
  /\ applied' = None
  /\ fired' = [fired EXCEPT ![p] = TRUE]
  /\ Goes(p, "check")
  /\ UNCHANGED <<server, dirs, corpus, cur, tmp, dir, requests, faults, before, owed>>

(* Mutant: equal content is taken for the same release. *)
CheckMarkerByContent(p) ==
  /\ pc[p] = "check"
  /\ IF applied # None /\ applied.docs = cur[p].docs
       THEN Ends(p, cur[p].id, TRUE, FALSE)
       ELSE Goes(p, "download")
  /\ UNCHANGED <<server, files, cur, fired, tmp, dir, requests, faults, before, owed>>

(* Mutant: a host that is converged acknowledges any resync. *)
CheckMarkerAcks(p) ==
  /\ pc[p] = "check"
  /\ IF applied = cur[p] THEN Ends(p, cur[p].id, TRUE, TRUE)
                         ELSE Goes(p, "download")
  /\ UNCHANGED <<server, files, cur, fired, tmp, dir, requests, faults, before, owed>>

(* readApplied against the release just fetched: id and content hash.  A
   marker that cannot be read is no marker. *)
CheckMarker(p) ==
  /\ pc[p] = "check"
  /\ \/ applied = cur[p] /\ Ends(p, cur[p].id, TRUE, FALSE) /\ UNCHANGED faults
     \/ applied # cur[p] /\ Goes(p, "download") /\ UNCHANGED faults
     \/ applied = cur[p] /\ Goes(p, "download") /\ Fault
  /\ UNCHANGED <<server, files, cur, fired, tmp, dir, requests, before, owed>>

(* fetchAndExtractArchive into a fresh temporary directory.  Whatever bytes
   arrive, extractTar lets through exactly the paths of the manifest. *)
Download(p) ==
  /\ pc[p] = "download"
  /\ \E t \in Tree :
       /\ Server!Paths(t) = Server!Paths(cur[p].docs)
       /\ tmp' = [tmp EXCEPT ![p] = t]
       /\ IF t = cur[p].docs THEN UNCHANGED faults ELSE Fault
  /\ Goes(p, "verify")
  /\ UNCHANGED <<server, files, cur, fired, dir, requests, before, owed>>

(* recomputeContentHash over the extracted files. *)
Verify(p) ==
  /\ pc[p] = "verify"
  /\ IF tmp[p] = cur[p].docs THEN Goes(p, "place")
                             ELSE Ends(p, cur[p].id, FALSE, FALSE)
  /\ UNCHANGED <<server, files, cur, fired, tmp, dir, requests, faults, before, owed>>

(* Mutant: the link is flipped before the directory is there. *)
PickDirUnplaced(p) ==
  /\ pc[p] = "place"
  /\ dir' = [dir EXCEPT ![p] = [id |-> cur[p].id, copy |-> MaxCopy]]
  /\ Goes(p, "flip")
  /\ UNCHANGED <<server, files, cur, fired, tmp, requests, faults, before, owed>>

(* freshReleaseDir: the first name that does not exist. *)
PickDir(p) ==
  /\ pc[p] = "place"
  /\ \E n \in 0..MaxCopy :
       /\ [id |-> cur[p].id, copy |-> n] \notin DOMAIN dirs
       /\ \A m \in 0..n - 1 : [id |-> cur[p].id, copy |-> m] \in DOMAIN dirs
       /\ dir' = [dir EXCEPT ![p] = [id |-> cur[p].id, copy |-> n]]
  /\ Goes(p, "rename")
  /\ UNCHANGED <<server, files, cur, fired, tmp, requests, faults, before, owed>>

(* Mutant: the marker is written before the flip. *)
InstallDirMarks(p) ==
  /\ pc[p] = "rename"
  /\ dir[p] \notin DOMAIN dirs
  /\ dirs' = [d \in DOMAIN dirs \cup {dir[p]} |-> IF d = dir[p] THEN tmp[p] ELSE dirs[d]]
  /\ applied' = cur[p]
  /\ Goes(p, "flip")
  /\ UNCHANGED <<server, corpus, cur, fired, tmp, dir, requests, faults, before, owed>>

(* Mutant: a directory that is there already will do. *)
InstallDirThere(p) ==
  /\ pc[p] = "rename"
  /\ dirs' = [d \in DOMAIN dirs \cup {dir[p]} |-> IF d \in DOMAIN dirs THEN dirs[d] ELSE tmp[p]]
  /\ Goes(p, "flip")
  /\ UNCHANGED <<server, corpus, applied, cur, fired, tmp, dir, requests, faults,
                 before, owed>>

(* The verified tree moves to its name; os.Rename refuses a directory that
   another process put there since. *)
InstallDir(p) ==
  /\ pc[p] = "rename"
  /\ IF dir[p] \in DOMAIN dirs
       THEN Ends(p, cur[p].id, FALSE, FALSE) /\ UNCHANGED dirs
       ELSE /\ dirs' = [d \in DOMAIN dirs \cup {dir[p]} |->
                          IF d = dir[p] THEN tmp[p] ELSE dirs[d]]
            /\ Goes(p, "flip")
  /\ UNCHANGED <<server, corpus, applied, cur, fired, tmp, dir, requests, faults,
                 before, owed>>

(* flipCorpus: one rename of a symlink. *)
FlipCorpus(p) ==
  /\ pc[p] = "flip"
  /\ corpus' = dir[p]
  /\ owed' = (owed /\ ~fired[p])
  /\ Goes(p, "mark")
  /\ UNCHANGED <<server, dirs, applied, cur, fired, tmp, dir, requests, faults, before>>

(* writeApplied truncates the marker ... *)
TruncateMarker(p) ==
  /\ pc[p] = "mark"
  /\ applied' = None
  /\ Goes(p, "fill")
  /\ UNCHANGED <<server, dirs, corpus, cur, fired, tmp, dir, requests, faults,
                 before, owed>>

(* ... and then writes it. *)
WriteMarker(p) ==
  /\ pc[p] = "fill"
  /\ applied' = cur[p]
  /\ Ends(p, cur[p].id, TRUE, fired[p])
  /\ UNCHANGED <<server, dirs, corpus, cur, fired, tmp, dir, requests, faults,
                 before, owed>>

(* A pass that is over forgets everything but the files. *)
Forget(p) ==
  /\ pc' = [pc EXCEPT ![p] = "idle"]
  /\ cur' = [cur EXCEPT ![p] = NoRelease]
  /\ fired' = [fired EXCEPT ![p] = FALSE]
  /\ tmp' = [tmp EXCEPT ![p] = {}]
  /\ dir' = [dir EXCEPT ![p] = NoDir]
  /\ beat' = [beat EXCEPT ![p] = NoBeat]
  /\ before' = [before EXCEPT ![p] = None]

(* The heartbeat leaves; the pass does not depend on its fate. *)
SendHeartbeat(p) ==
  /\ pc[p] = "report"
  /\ Len(beats) < MaxBeat
  /\ beats' = Append(beats, beat[p])
  /\ Forget(p)
  /\ UNCHANGED <<log, flag, row, files, requests, faults, owed>>

(* Mutant: a failed pass restores the corpus it began with, if it had one. *)
StepFailsRollback(p) ==
  /\ pc[p] \in {"flag", "erase", "download", "verify", "place", "rename", "flip",
                "mark", "fill"}
  /\ Fault
  /\ corpus' = IF before[p] = None THEN corpus ELSE before[p]
  /\ Ends(p, IF pc[p] = "flag" THEN 0 ELSE cur[p].id, FALSE, FALSE)
  /\ UNCHANGED <<server, dirs, applied, cur, fired, tmp, dir, requests, before, owed>>

(* Any step of the pass that touches the network or the disk may fail: the
   pass reports it and ends.  Before the manifest is read there is no release
   id to report. *)
StepFails(p) ==
  /\ pc[p] \in {"flag", "erase", "download", "verify", "place", "rename", "flip",
                "mark", "fill"}
  /\ Fault
  /\ Ends(p, IF pc[p] = "flag" THEN 0 ELSE cur[p].id, FALSE, FALSE)
  /\ UNCHANGED <<server, files, cur, fired, tmp, dir, requests, before, owed>>

(* The process dies between two steps; a later pass starts from the files. *)
Crash(p) ==
  /\ pc[p] # "idle"
  /\ Fault
  /\ Forget(p)
  /\ UNCHANGED <<server, files, requests, owed>>

-----------------------------------------------------------------------------
(* The host's agents write to the tree they read. *)
Tamper ==
  /\ corpus # None
  /\ Fault
  /\ \E t \in Tree \ {dirs[corpus]} : dirs' = [dirs EXCEPT ![corpus] = t]
  /\ UNCHANGED <<server, corpus, applied, pass, requests, before, owed>>

Step(p) ==
  \/ FetchCurrent(p) \/ ReadFlag(p) \/ EraseMarker(p) \/ CheckMarker(p)
  \/ Download(p) \/ Verify(p) \/ PickDir(p) \/ InstallDir(p) \/ FlipCorpus(p)
  \/ TruncateMarker(p) \/ WriteMarker(p) \/ SendHeartbeat(p)

(* After the last heartbeat every process may wait for the next interval, and
   another poll is always possible: the system never stops. *)
Next ==
  \/ Publish
  \/ RequestResync
  \/ \E i \in DOMAIN beats : Heartbeat(i) \/ LoseHeartbeat(i)
  \/ \E p \in Proc : Step(p) \/ StepFails(p) \/ Crash(p)
  \/ Tamper

Spec == Init /\ [][Next]_vars

(* The poll loop never ends and a heartbeat on the wire arrives or is lost. *)
Fairness ==
  /\ \A p \in Proc : WF_vars(Step(p))
  /\ WF_vars(\E i \in DOMAIN beats : Heartbeat(i))

FairSpec == Spec /\ Fairness

-----------------------------------------------------------------------------
(* What must hold. *)

(* The release the agents of the host read. *)
Shown == IF corpus = None THEN 0 ELSE corpus.id

Promise == INSTANCE Delivery WITH latest <- Len(log), shown <- Shown

(* Whatever fails, crashes or is overtaken, the release the corpus shows is a
   published one and never an older one than before. *)
ImplementsDelivery == Promise!Spec

(* The corpus is only ever pointed at a tree that equals the archive of its
   release at that moment: never at one the agents changed, never at a half
   extracted one, also when two processes share the home. *)
FlipIsFresh ==
  [][(corpus' # corpus \/ \E p \in Proc : pc[p] = "flip" /\ pc'[p] = "mark")
     => dirs'[corpus'] = log[corpus'.id]]_vars

(* A pass that another one has overtaken may bring an older release back, but
   none older than what the agents read when it began. *)
FallsBackNoFurther ==
  [][\A p \in Proc :
       pc[p] = "flip" /\ pc'[p] = "mark" /\ before[p] # None
       => before[p].id <= Shown']_vars

(* The marker never says more than the corpus shows, so that stopping early at
   a matching marker is sound; a crash between flip and marker leaves the
   marker behind, not ahead. *)
MarkerNotAhead ==
  applied # None => /\ Shown >= applied.id
                    /\ applied.docs = log[applied.id]

(* What the fleet page calls current (fleetStatus, the age of the row aside):
   the host's last heartbeat was a success for the latest release. *)
FleetCurrent == row # None /\ row.ok /\ row.release = Len(log)

(* A host that the fleet page calls current shows the latest release, however
   late its heartbeats arrived and in whatever order. *)
CurrentIsTrue == FleetCurrent => Shown = Len(log)

(* A resync request goes away only after a pass that saw it has rebuilt the
   corpus, unless an older acknowledgement was already under way when the
   request was made (the server does not tell requests apart). *)
NoClearWithoutRebuild == [][flag /\ ~flag' => ~owed']_vars

(* Every release that stays the latest is in the end shown. *)
Converges == \A n \in 1..MaxRelease : Len(log) = n ~> Shown >= n

(* A resync request is in the end answered and gone, once there is a release
   to answer it with. *)
RequestAnswered == flag /\ log # <<>> ~> ~flag

(* After a resync request the agents read a published tree again, whatever
   they did to the files. *)
ResyncRepairs ==
  owed /\ log # <<>> ~> corpus # None /\ dirs[corpus] = log[corpus.id]

(* "every failure is logged and reported (best-effort) via a heartbeat, and
   the previous corpus is left untouched" (comment of converge). *)
CorpusKeptOnFailure ==
  \A p \in Proc : pc[p] = "report" /\ ~beat[p].ok => corpus = before[p]
=============================================================================
