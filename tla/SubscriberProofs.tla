--------------------------- MODULE SubscriberProofs ---------------------------
(***************************************************************************)
(* Proofs about Subscriber, for every set of documents and bodies and for  *)
(* every bound; for any number of processes where Alone is not assumed.    *)
(***************************************************************************)
EXTENDS Subscriber, SequenceTheorems, TLAPS

-----------------------------------------------------------------------------
(* Sequences. *)

(* A sequence without one element holds others of its elements only. *)
LEMMA WithoutFacts ==
  ASSUME NEW S, NEW s \in Seq(S), NEW i \in DOMAIN s
  PROVE  /\ Without(s, i) \in Seq(S)
         /\ \A j \in DOMAIN Without(s, i) : \E k \in DOMAIN s : Without(s, i)[j] = s[k]
<1> DEFINE a == SubSeq(s, 1, i - 1)
           b == SubSeq(s, i + 1, Len(s))
<1>1. Len(s) \in Nat /\ DOMAIN s = 1..Len(s) /\ i \in 1..Len(s)
  BY LenProperties
<1>2. /\ a \in Seq(S) /\ Len(a) = i - 1
      /\ \A j \in 1..Len(a) : a[j] = s[j]
  BY <1>1
<1>3. /\ b \in Seq(S) /\ Len(b) = Len(s) - i
      /\ \A j \in 1..Len(b) : b[j] = s[i + j]
  BY <1>1
<1>4. Without(s, i) = a \o b
  BY DEF Without
<1> HIDE DEF a, b
<1>5. /\ a \o b \in Seq(S) /\ Len(a \o b) = Len(a) + Len(b)
      /\ \A j \in 1..Len(a) + Len(b) :
           (a \o b)[j] = IF j <= Len(a) THEN a[j] ELSE b[j - Len(a)]
  BY <1>2, <1>3, ConcatProperties
<1>6. ASSUME NEW j \in 1..Len(a) + Len(b)
      PROVE  \E k \in DOMAIN s : (a \o b)[j] = s[k]
  <2>0. j \in Nat /\ i \in Nat /\ Len(a) = i - 1 /\ Len(b) = Len(s) - i
        /\ 1 <= i /\ i <= Len(s) /\ 1 <= j /\ j <= Len(s) - 1
    BY <1>1, <1>2, <1>3, <1>6
  <2>1. CASE j <= Len(a)
    <3>1. j \in 1..Len(a) /\ j \in 1..Len(s)
      BY <1>1, <2>0, <2>1
    <3>2. (a \o b)[j] = s[j]
      BY <1>2, <1>5, <1>6, <2>1, <3>1
    <3> QED BY <1>1, <3>1, <3>2
  <2>2. CASE ~(j <= Len(a))
    <3>1. j - Len(a) \in 1..Len(b) /\ i + (j - Len(a)) \in 1..Len(s)
      BY <1>1, <2>0, <2>2
    <3>2. (a \o b)[j] = b[j - Len(a)]
      BY <1>5, <1>6, <2>2
    <3>3. b[j - Len(a)] = s[i + (j - Len(a))]
      BY <1>3, <3>1
    <3> QED BY <1>1, <3>1, <3>2, <3>3
  <2> QED BY <2>1, <2>2
<1>7. DOMAIN (a \o b) = 1..Len(a) + Len(b)
  BY <1>5, LenProperties
<1> QED BY <1>4, <1>5, <1>6, <1>7

(* Publishing adds to the log. *)
LEMMA LogStep ==
  ASSUME TypeOK, [Next]_vars
  PROVE  /\ log' \in Seq(Server!Archive)
         /\ Len(log) \in Nat /\ Len(log') \in Nat /\ Len(log) <= Len(log')
         /\ Len(log') \in {Len(log), Len(log) + 1}
         /\ \A n \in 1..Len(log) : log'[n] = log[n]
<1>1. log \in Seq(Server!Archive) /\ Len(log) \in Nat
  BY LenProperties DEF TypeOK
<1>2. CASE log' = log
  BY <1>1, <1>2
<1>3. ASSUME NEW a \in Server!Archive, log' = Append(log, a)
      PROVE  /\ log' \in Seq(Server!Archive)
             /\ Len(log') = Len(log) + 1
             /\ \A n \in 1..Len(log) : log'[n] = log[n]
  BY <1>1, <1>3, AppendProperties
<1>4. log' = log \/ \E a \in Server!Archive : log' = Append(log, a)
  BY DEF Next, vars, server, Publish, Server!Publish, RequestResync, Heartbeat,
         LoseHeartbeat, Step, StepFails, Crash, Tamper, FetchCurrent, ReadFlag,
         EraseMarker, CheckMarker, Download, Verify, PickDir, InstallDir, FlipCorpus,
         TruncateMarker, WriteMarker, SendHeartbeat
<1> QED BY <1>1, <1>2, <1>3, <1>4

-----------------------------------------------------------------------------
(* Types. *)

Steps == {"idle", "flag", "erase", "check", "download", "verify", "place",
          "rename", "flip", "mark", "fill", "report"}

(* A heartbeat that a pass ends with is one. *)
LEMMA EndsType ==
  ASSUME TypeOK, NEW p \in Proc, NEW n \in Nat, NEW ok \in BOOLEAN,
         NEW acked \in BOOLEAN, Ends(p, n, ok, acked)
  PROVE  pc' \in [Proc -> Steps] /\ beat' \in [Proc -> Beat]
<1>1. [release |-> n, ok |-> ok, acked |-> acked] \in Beat
  BY DEF Beat
<1> QED BY <1>1 DEF TypeOK, Ends, Steps

(* What a pass works with. *)
LEMMA PassTypes ==
  ASSUME TypeOK, NEW p \in Proc
  PROVE  /\ cur[p] \in [id : Nat, docs : Tree] /\ cur[p].id \in Nat
         /\ cur[p].docs \in Tree
         /\ fired[p] \in BOOLEAN /\ tmp[p] \in Tree /\ dir[p] \in DirName
         /\ beat[p] \in Beat
BY DEF TypeOK

(* Faults are counted up to their bound. *)
LEMMA FaultType == ASSUME TypeOK, Fault \/ UNCHANGED faults PROVE faults' \in 0..MaxFault
BY BoundAssumption DEF TypeOK, Fault

(* What the first steps of a pass touch. *)
LEMMA TypeReads ==
  ASSUME TypeOK, NEW p \in Proc,
         FetchCurrent(p) \/ ReadFlag(p) \/ EraseMarker(p) \/ CheckMarker(p)
  PROVE  TypeOK'
<1>1. CASE FetchCurrent(p)
  <2>1. log # <<>> => /\ Len(log) \in Nat
                      /\ log[Len(log)] \in Tree
    <3>1. log \in Seq(Server!Archive) /\ (log # <<>> => Len(log) \in Nat \ {0})
      BY EmptySeq DEF TypeOK
    <3>2. log # <<>> => Len(log) \in 1..Len(log)
      BY <3>1
    <3>3. log # <<>> => log[Len(log)] \in Server!Archive
      BY <3>1, <3>2, ElementOfSeq
    <3> QED BY <3>1, <3>3 DEF Tree
  <2>2. pc' \in [Proc -> Steps] /\ beat' \in [Proc -> Beat]
    <3>1. CASE log = <<>>
      BY <1>1, <3>1, EndsType DEF FetchCurrent
    <3>2. CASE log # <<>>
      BY <1>1, <3>2 DEF FetchCurrent, Goes, TypeOK, Steps
    <3> QED BY <3>1, <3>2
  <2>3. cur' \in [Proc -> [id : Nat, docs : Tree]]
    <3>1. CASE log = <<>>
      BY <1>1, <3>1 DEF TypeOK, FetchCurrent
    <3>2. CASE log # <<>>
      <4>1. [id |-> Len(log), docs |-> log[Len(log)]] \in [id : Nat, docs : Tree]
        BY <2>1, <3>2
      <4>2. cur' = [cur EXCEPT ![p] = [id |-> Len(log), docs |-> log[Len(log)]]]
        BY <1>1, <3>2 DEF FetchCurrent
      <4> QED BY <4>1, <4>2 DEF TypeOK
    <3> QED BY <3>1, <3>2
  <2>4. before' \in [Proc -> DOMAIN dirs \cup {None}]
    BY <1>1 DEF TypeOK, FetchCurrent
  <2> QED BY <1>1, <2>2, <2>3, <2>4 DEF TypeOK, FetchCurrent, Steps, server, files
<1>2. CASE ReadFlag(p)
  BY <1>2 DEF TypeOK, ReadFlag, Goes, server, files
<1>3. CASE EraseMarker(p)
  BY <1>3 DEF TypeOK, EraseMarker, Goes, server
<1>4. CASE CheckMarker(p)
  <2>1. faults' \in 0..MaxFault
    BY <1>4, FaultType DEF CheckMarker
  <2>2. pc' \in [Proc -> Steps] /\ beat' \in [Proc -> Beat]
    <3>1. CASE Ends(p, cur[p].id, TRUE, FALSE)
      BY <3>1, PassTypes, EndsType
    <3>2. CASE Goes(p, "download")
      BY <3>2 DEF Goes, TypeOK, Steps
    <3> QED BY <1>4, <3>1, <3>2 DEF CheckMarker
  <2> QED BY <1>4, <2>1, <2>2 DEF TypeOK, CheckMarker, Steps, server, files
<1> QED BY <1>1, <1>2, <1>3, <1>4

(* What the steps between the download and the flip touch. *)
LEMMA TypeBuilds ==
  ASSUME TypeOK, NEW p \in Proc,
         Download(p) \/ Verify(p) \/ PickDir(p) \/ InstallDir(p)
  PROVE  TypeOK'
<1>1. CASE Download(p)
  <2>1. tmp' \in [Proc -> Tree] /\ faults' \in 0..MaxFault
    BY <1>1, BoundAssumption DEF TypeOK, Download, Fault
  <2> QED BY <1>1, <2>1 DEF TypeOK, Download, Goes, server, files
<1>2. CASE Verify(p)
  <2>1. pc' \in [Proc -> Steps] /\ beat' \in [Proc -> Beat]
    <3>1. CASE Ends(p, cur[p].id, FALSE, FALSE)
      BY <3>1, PassTypes, EndsType
    <3>2. CASE Goes(p, "place")
      BY <3>2 DEF Goes, TypeOK, Steps
    <3> QED BY <1>2, <3>1, <3>2 DEF Verify
  <2> QED BY <1>2, <2>1 DEF TypeOK, Verify, Steps, server, files
<1>3. CASE PickDir(p)
  <2>1. dir' \in [Proc -> DirName]
    BY <1>3 DEF TypeOK, PickDir, DirName
  <2> QED BY <1>3, <2>1 DEF TypeOK, PickDir, Goes, server, files
<1>4. CASE InstallDir(p)
  <2>1. CASE dir[p] \in DOMAIN dirs
    <3>1. pc' \in [Proc -> Steps] /\ beat' \in [Proc -> Beat] /\ dirs' = dirs
      BY <1>4, <2>1, PassTypes, EndsType DEF InstallDir
    <3> QED BY <1>4, <3>1 DEF TypeOK, InstallDir, Steps, server
  <2>2. CASE dir[p] \notin DOMAIN dirs
    <3>1. /\ dirs' = [d \in DOMAIN dirs \cup {dir[p]} |->
                      IF d = dir[p] THEN tmp[p] ELSE dirs[d]]
          /\ Goes(p, "flip")
      BY <1>4, <2>2 DEF InstallDir
    <3>2. /\ DOMAIN dirs \subseteq DOMAIN dirs' /\ DOMAIN dirs' \subseteq DirName
          /\ \A d \in DOMAIN dirs' : dirs'[d] \in Tree
      BY <3>1, PassTypes DEF TypeOK
    <3>3. pc' \in [Proc -> Steps] /\ beat' \in [Proc -> Beat]
      BY <3>1 DEF Goes, TypeOK, Steps
    <3>4. corpus \in DOMAIN dirs' \cup {None} /\ before \in [Proc -> DOMAIN dirs' \cup {None}]
      BY <3>2 DEF TypeOK
    <3> QED BY <1>4, <3>2, <3>3, <3>4 DEF TypeOK, InstallDir, Steps, server
  <2> QED BY <2>1, <2>2
<1> QED BY <1>1, <1>2, <1>3, <1>4

(* What the end of a pass touches.  A corpus is a directory that is there only
   because a pass flips to a directory it has installed. *)
LEMMA TypeEnds ==
  ASSUME TypeOK, NEW p \in Proc, pc[p] = "flip" => dir[p] \in DOMAIN dirs,
         \/ FlipCorpus(p) \/ TruncateMarker(p) \/ WriteMarker(p) \/ SendHeartbeat(p)
         \/ StepFails(p) \/ Crash(p)
  PROVE  TypeOK'
<1>1. CASE FlipCorpus(p)
  BY <1>1 DEF TypeOK, FlipCorpus, Goes, server
<1>2. CASE TruncateMarker(p)
  BY <1>2 DEF TypeOK, TruncateMarker, Goes, server
<1>3. CASE WriteMarker(p)
  BY <1>3 DEF TypeOK, WriteMarker, Ends, Beat, server
<1>4. ASSUME Forget(p)
      PROVE  /\ pc' \in [Proc -> {"idle", "flag", "erase", "check", "download",
                                   "verify", "place", "rename", "flip", "mark",
                                   "fill", "report"}]
             /\ cur' \in [Proc -> [id : Nat, docs : Tree]]
             /\ fired' \in [Proc -> BOOLEAN] /\ tmp' \in [Proc -> Tree]
             /\ dir' \in [Proc -> DirName] /\ beat' \in [Proc -> Beat]
             /\ before' \in [Proc -> DOMAIN dirs \cup {None}]
  <2>1. NoRelease \in [id : Nat, docs : Tree] /\ {} \in Tree
    BY DEF NoRelease, Tree
  <2>2. NoDir \in DirName /\ NoBeat \in Beat
    BY BoundAssumption DEF NoDir, NoBeat, DirName, Beat
  <2> QED BY <1>4, <2>1, <2>2 DEF TypeOK, Forget
<1>5. CASE SendHeartbeat(p)
  <2>1. beats' \in Seq(Beat)
    BY <1>5, AppendProperties DEF TypeOK, SendHeartbeat
  <2> QED BY <1>4, <1>5, <2>1 DEF TypeOK, SendHeartbeat, files
<1>6. CASE StepFails(p)
  <2>1. faults' \in 0..MaxFault
    BY <1>6, BoundAssumption DEF TypeOK, StepFails, Fault
  <2>2. (IF pc[p] = "flag" THEN 0 ELSE cur[p].id) \in Nat
    BY DEF TypeOK
  <2>3. beat' \in [Proc -> Beat]
    BY <1>6, <2>2 DEF TypeOK, StepFails, Ends, Beat
  <2> QED BY <1>6, <2>1, <2>3 DEF TypeOK, StepFails, Ends, server, files
<1>7. CASE Crash(p)
  <2>1. faults' \in 0..MaxFault
    BY <1>7, BoundAssumption DEF TypeOK, Crash, Fault
  <2> QED BY <1>4, <1>7, <2>1 DEF TypeOK, Crash, server, files
<1> QED BY <1>1, <1>2, <1>3, <1>5, <1>6, <1>7

(* What happens around the passes. *)
LEMMA TypeAround ==
  ASSUME TypeOK,
         \/ Publish \/ RequestResync \/ Tamper
         \/ \E i \in DOMAIN beats : Heartbeat(i) \/ LoseHeartbeat(i)
  PROVE  TypeOK'
<1>1. CASE Publish
  <2>1. log' \in Seq(Server!Archive)
    BY <1>1, LogStep DEF Next
  <2> QED BY <1>1, <2>1 DEF TypeOK, Publish, files, pass
<1>2. CASE RequestResync
  <2>1. owed' \in BOOLEAN
    BY <1>2 DEF TypeOK, RequestResync, AckOutstanding
  <2> QED BY <1>2, <2>1, BoundAssumption DEF TypeOK, RequestResync, files, pass
<1>3. CASE Tamper
  <2>1. faults' \in 0..MaxFault
    BY <1>3, BoundAssumption DEF TypeOK, Tamper, Fault
  <2>2. DOMAIN dirs' = DOMAIN dirs /\ \A d \in DOMAIN dirs' : dirs'[d] \in Tree
    BY <1>3 DEF TypeOK, Tamper
  <2> QED BY <1>3, <2>1, <2>2 DEF TypeOK, Tamper, server, pass
<1>4. ASSUME NEW i \in DOMAIN beats, Heartbeat(i) PROVE TypeOK'
  <2>1. beats' \in Seq(Beat)
    BY <1>4, WithoutFacts DEF TypeOK, Heartbeat
  <2>2. beats[i] \in Beat
    BY LenProperties, ElementOfSeq DEF TypeOK
  <2>3. row' \in [release : Nat, ok : BOOLEAN]
    BY <1>4, <2>2 DEF Heartbeat, Beat
  <2>4. flag' \in BOOLEAN
    BY <1>4 DEF TypeOK, Heartbeat
  <2> QED BY <1>4, <2>1, <2>3, <2>4 DEF TypeOK, Heartbeat, files, pass
<1>5. ASSUME NEW i \in DOMAIN beats, LoseHeartbeat(i) PROVE TypeOK'
  <2>1. beats' \in Seq(Beat)
    BY <1>5, WithoutFacts DEF TypeOK, LoseHeartbeat
  <2>2. faults' \in 0..MaxFault
    BY <1>5, BoundAssumption DEF TypeOK, LoseHeartbeat, Fault
  <2> QED BY <1>5, <2>1, <2>2 DEF TypeOK, LoseHeartbeat, files, pass
<1> QED BY <1>1, <1>2, <1>3, <1>4, <1>5

-----------------------------------------------------------------------------
(* A pass builds what it fetched, in a directory of its own. *)

(* The steps of a pass that holds a release. *)
Holding == Steps \ {"idle", "report"}

(* What each pass holds is a published release; what it has verified is that
   release; where it will flip to is a directory with that release, not yet
   read by anyone. *)
HoldsPublished ==
  \A p \in Proc : pc[p] \in Holding =>
    cur[p].id \in 1..Len(log) /\ cur[p].docs = log[cur[p].id]

HoldsVerified ==
  \A p \in Proc :
    /\ pc[p] \in {"place", "rename"} => tmp[p] = cur[p].docs
    /\ pc[p] \in {"rename", "flip", "mark", "fill"} => dir[p].id = cur[p].id

OwnsDirectory ==
  \A p \in Proc : pc[p] = "flip" =>
    /\ dir[p] \in DOMAIN dirs /\ dirs[dir[p]] = cur[p].docs /\ dir[p] # corpus
    /\ \A q \in Proc : pc[q] = "flip" /\ dir[q] = dir[p] => q = p

PassInv == TypeOK /\ HoldsPublished /\ HoldsVerified /\ OwnsDirectory

(* Only what a pass does itself moves it. *)
LEMMA OthersStay ==
  ASSUME TypeOK, NEW p \in Proc, Step(p) \/ StepFails(p) \/ Crash(p),
         NEW q \in Proc, q # p
  PROVE  /\ pc'[q] = pc[q] /\ cur'[q] = cur[q] /\ fired'[q] = fired[q]
         /\ tmp'[q] = tmp[q] /\ dir'[q] = dir[q] /\ beat'[q] = beat[q]
BY DEF TypeOK, Step, StepFails, Crash, Forget, Ends, Goes, FetchCurrent, ReadFlag,
       EraseMarker, CheckMarker, Download, Verify, PickDir, InstallDir, FlipCorpus,
       TruncateMarker, WriteMarker, SendHeartbeat

(* What surrounds the passes does not move them. *)
LEMMA AroundStays ==
  ASSUME Publish \/ RequestResync \/ Tamper
         \/ (\E i \in DOMAIN beats : Heartbeat(i) \/ LoseHeartbeat(i)) \/ UNCHANGED vars
  PROVE  UNCHANGED pass
BY DEF Publish, RequestResync, Tamper, Heartbeat, LoseHeartbeat, vars

(* A step is one of a pass, or happens around them. *)
LEMMA NextCases ==
  ASSUME [Next]_vars
  PROVE  \/ \E p \in Proc : Step(p) \/ StepFails(p) \/ Crash(p)
         \/ Publish \/ RequestResync \/ Tamper
         \/ \E i \in DOMAIN beats : Heartbeat(i) \/ LoseHeartbeat(i)
         \/ UNCHANGED vars
BY DEF Next

(* Where a step takes the pass that makes it. *)
LEMMA MoverFacts ==
  ASSUME TypeOK, NEW p \in Proc, Step(p) \/ StepFails(p) \/ Crash(p)
  PROVE  /\ pc'[p] = "flag" => /\ log # <<>>
                              /\ cur'[p] = [id |-> Len(log), docs |-> log[Len(log)]]
         /\ pc'[p] \in Holding \ {"flag"} => pc[p] \in Holding /\ cur'[p] = cur[p]
         /\ pc'[p] \in {"place", "rename"} => tmp'[p] = tmp[p]
         /\ pc'[p] = "place" => pc[p] = "verify" /\ tmp[p] = cur[p].docs
         /\ pc'[p] = "rename" => pc[p] = "place" /\ dir'[p].id = cur[p].id
         /\ pc'[p] = "flip" => pc[p] = "rename" /\ InstallDir(p)
         /\ pc'[p] = "mark" => pc[p] = "flip" /\ FlipCorpus(p)
         /\ pc'[p] = "fill" => pc[p] = "mark"
         /\ pc'[p] \in {"flip", "mark", "fill"} => dir'[p] = dir[p]
<1>1. CASE FetchCurrent(p)
  BY <1>1 DEF FetchCurrent, Ends, Goes, TypeOK, Holding, Steps
<1>2. CASE ReadFlag(p) \/ EraseMarker(p) \/ CheckMarker(p) \/ Download(p)
  BY <1>2 DEF ReadFlag, EraseMarker, CheckMarker, Download, Ends, Goes, TypeOK,
              Holding, Steps
<1>3. CASE Verify(p)
  BY <1>3 DEF Verify, Ends, Goes, TypeOK, Holding, Steps
<1>4. CASE PickDir(p)
  BY <1>4 DEF PickDir, Ends, Goes, TypeOK, Holding, Steps
<1>5. CASE InstallDir(p)
  BY <1>5 DEF InstallDir, Ends, Goes, TypeOK, Holding, Steps
<1>6. CASE FlipCorpus(p)
  BY <1>6 DEF FlipCorpus, Goes, TypeOK, Holding, Steps
<1>7. CASE TruncateMarker(p) \/ WriteMarker(p) \/ StepFails(p)
  BY <1>7 DEF TruncateMarker, WriteMarker, StepFails, Ends, Goes, TypeOK, Holding, Steps
<1>8. CASE SendHeartbeat(p) \/ Crash(p)
  BY <1>8 DEF SendHeartbeat, Crash, Forget, TypeOK, Holding, Steps
<1> QED BY <1>1, <1>2, <1>3, <1>4, <1>5, <1>6, <1>7, <1>8 DEF Step

(* What a pass holds stays published, for releases are never rewritten. *)
LEMMA HoldsPublishedStep ==
  ASSUME TypeOK, HoldsPublished, [Next]_vars
  PROVE  HoldsPublished'
<1>1. /\ Len(log) \in Nat /\ Len(log') \in Nat /\ Len(log) <= Len(log')
      /\ \A n \in 1..Len(log) : log'[n] = log[n]
  BY LogStep
<1>2. ASSUME NEW q \in Proc, pc[q] \in Holding, cur'[q] = cur[q]
      PROVE  cur'[q].id \in 1..Len(log') /\ cur'[q].docs = log'[cur'[q].id]
  BY <1>1, <1>2 DEF HoldsPublished
<1>3. CASE UNCHANGED pass
  BY <1>2, <1>3 DEF HoldsPublished, pass
<1>4. ASSUME NEW p \in Proc, Step(p) \/ StepFails(p) \/ Crash(p)
      PROVE  HoldsPublished'
  <2> SUFFICES ASSUME NEW q \in Proc, pc'[q] \in Holding
               PROVE  cur'[q].id \in 1..Len(log') /\ cur'[q].docs = log'[cur'[q].id]
    BY DEF HoldsPublished
  <2>1. CASE q # p
    BY <1>2, <1>4, <2>1, OthersStay
  <2>2. CASE q = p /\ pc'[q] = "flag"
    <3>1. cur'[q].id = Len(log) /\ cur'[q].docs = log[Len(log)] /\ log # <<>>
      BY <1>4, <2>2, MoverFacts
    <3>2. Len(log) \in 1..Len(log)
      BY <1>1, <3>1, EmptySeq DEF TypeOK
    <3> QED BY <1>1, <3>1, <3>2
  <2>3. CASE q = p /\ pc'[q] # "flag"
    BY <1>2, <1>4, <2>3, MoverFacts
  <2> QED BY <2>1, <2>2, <2>3
<1> QED BY <1>3, <1>4, NextCases, AroundStays

(* What a pass has verified stays so: its tree and its directory are its own. *)
LEMMA HoldsVerifiedStep ==
  ASSUME TypeOK, HoldsVerified, [Next]_vars
  PROVE  HoldsVerified'
<1>1. CASE UNCHANGED pass
  BY <1>1 DEF HoldsVerified, pass
<1>2. ASSUME NEW p \in Proc, Step(p) \/ StepFails(p) \/ Crash(p)
      PROVE  HoldsVerified'
  <2> SUFFICES ASSUME NEW q \in Proc
               PROVE  /\ pc'[q] \in {"place", "rename"} => tmp'[q] = cur'[q].docs
                      /\ pc'[q] \in {"rename", "flip", "mark", "fill"} =>
                           dir'[q].id = cur'[q].id
    BY DEF HoldsVerified
  <2>1. CASE q # p
    BY <1>2, <2>1, OthersStay DEF HoldsVerified
  <2>2. CASE q = p
    BY <1>2, <2>2, MoverFacts DEF HoldsVerified, Holding, Steps
  <2> QED BY <2>1, <2>2
<1> QED BY <1>1, <1>2, NextCases, AroundStays

(* Who changes the tree: an agent writes where it reads, a pass installs a
   directory or flips to it. *)
LEMMA TreeSteps ==
  ASSUME [Next]_vars
  PROVE  \/ UNCHANGED <<dirs, corpus>> \/ Tamper
         \/ \E p \in Proc : InstallDir(p) \/ FlipCorpus(p)
BY DEF Next, vars, server, files, Publish, RequestResync, Heartbeat, LoseHeartbeat,
       Step, StepFails, Crash, FetchCurrent, ReadFlag, EraseMarker, CheckMarker,
       Download, Verify, PickDir, TruncateMarker, WriteMarker, SendHeartbeat

(* Until it flips, nobody else has the directory a pass installed: names are
   taken once, and agents write only where the corpus points. *)
LEMMA OwnsDirectoryStep ==
  ASSUME TypeOK, HoldsVerified, OwnsDirectory, [Next]_vars
  PROVE  OwnsDirectory'
<1> DEFINE Owns(q) == /\ dir[q] \in DOMAIN dirs /\ dirs[dir[q]] = cur[q].docs
                      /\ dir[q] # corpus
                      /\ \A r \in Proc : pc[r] = "flip" /\ dir[r] = dir[q] => r = q
<1>1. ASSUME NEW q \in Proc, pc[q] = "flip" PROVE Owns(q)
  BY <1>1 DEF OwnsDirectory
<1>2. CASE UNCHANGED pass
  <2>1. UNCHANGED <<dirs, corpus>> \/ Tamper
    BY <1>2, TreeSteps DEF pass, TypeOK, InstallDir, FlipCorpus, Ends, Goes
  <2>2. CASE UNCHANGED <<dirs, corpus>>
    BY <1>2, <2>2 DEF OwnsDirectory, pass
  <2>3. CASE Tamper
    <3>1. corpus' = corpus /\ DOMAIN dirs' = DOMAIN dirs
          /\ \A d \in DOMAIN dirs : d # corpus => dirs'[d] = dirs[d]
      BY <2>3 DEF Tamper
    <3> QED BY <1>2, <3>1 DEF OwnsDirectory, pass
  <2> QED BY <2>1, <2>2, <2>3
<1>3. ASSUME NEW p \in Proc, Step(p) \/ StepFails(p) \/ Crash(p),
             UNCHANGED <<dirs, corpus>>, pc'[p] # "flip"
      PROVE  OwnsDirectory'
  <2>1. \A q \in Proc : pc'[q] = "flip" =>
          q # p /\ pc[q] = "flip" /\ dir'[q] = dir[q] /\ cur'[q] = cur[q]
    BY <1>3, OthersStay
  <2> QED BY <1>3, <2>1 DEF OwnsDirectory
<1>4. ASSUME NEW p \in Proc, InstallDir(p), pc'[p] = "flip"
      PROVE  OwnsDirectory'
  <2>1. Step(p)
    BY <1>4 DEF Step
  <2>2. /\ dir[p] \notin DOMAIN dirs /\ corpus' = corpus
        /\ dirs' = [d \in DOMAIN dirs \cup {dir[p]} |->
                      IF d = dir[p] THEN tmp[p] ELSE dirs[d]]
        /\ dir'[p] = dir[p] /\ cur'[p] = cur[p] /\ tmp[p] = cur[p].docs
    BY <1>4 DEF InstallDir, Ends, TypeOK, HoldsVerified
  <2>3. dir[p] # corpus
    <3>1. dir[p] # None
      BY PassTypes, NoneAssumption, BoundAssumption DEF DirName
    <3> QED BY <2>2, <3>1 DEF TypeOK
  <2>4. \A q \in Proc : q # p =>
          pc'[q] = pc[q] /\ dir'[q] = dir[q] /\ cur'[q] = cur[q]
    BY <2>1, OthersStay
  <2>5. ASSUME NEW q \in Proc, q # p, pc[q] = "flip"
        PROVE  /\ dir[q] \in DOMAIN dirs /\ dir[q] # dir[p]
               /\ dirs'[dir[q]] = cur[q].docs /\ dir[q] # corpus
    BY <1>1, <2>2, <2>5
  <2> SUFFICES ASSUME NEW q \in Proc, pc'[q] = "flip"
               PROVE  /\ dir'[q] \in DOMAIN dirs' /\ dirs'[dir'[q]] = cur'[q].docs
                      /\ dir'[q] # corpus'
                      /\ \A r \in Proc : pc'[r] = "flip" /\ dir'[r] = dir'[q] => r = q
    BY DEF OwnsDirectory
  <2>6. CASE q = p
    BY <2>2, <2>3, <2>4, <2>5, <2>6
  <2>7. CASE q # p
    <3>1. /\ dir'[q] = dir[q] /\ cur'[q] = cur[q] /\ pc[q] = "flip"
      BY <2>4, <2>7
    <3>2. ASSUME NEW r \in Proc, pc'[r] = "flip", dir'[r] = dir'[q]
          PROVE  r = q
      <4>1. r # p
        BY <2>2, <2>5, <2>7, <3>1, <3>2
      <4> QED BY <1>1, <2>4, <3>1, <3>2, <4>1
    <3>3. dir[q] \in DOMAIN dirs'
      BY <2>2, <2>5, <2>7, <3>1
    <3> QED BY <2>2, <2>5, <2>7, <3>1, <3>2, <3>3
  <2> QED BY <2>6, <2>7
<1>5. ASSUME NEW p \in Proc, FlipCorpus(p)
      PROVE  OwnsDirectory'
  <2>1. Step(p) /\ dirs' = dirs /\ corpus' = dir[p] /\ pc[p] = "flip" /\ pc'[p] = "mark"
    BY <1>5 DEF Step, FlipCorpus, Goes, TypeOK
  <2>2. \A q \in Proc : pc'[q] = "flip" =>
          q # p /\ pc[q] = "flip" /\ dir'[q] = dir[q] /\ cur'[q] = cur[q]
    BY <2>1, OthersStay
  <2>3. \A q \in Proc : pc'[q] = "flip" => dir[q] # corpus'
    BY <1>1, <2>1, <2>2
  <2> QED BY <2>1, <2>2, <2>3 DEF OwnsDirectory
<1>6. ASSUME NEW p \in Proc, Step(p) \/ StepFails(p) \/ Crash(p)
      PROVE  OwnsDirectory'
  <2>1. CASE pc'[p] = "flip"
    BY <1>4, <1>6, <2>1, MoverFacts
  <2>2. CASE pc'[p] # "flip" /\ FlipCorpus(p)
    BY <1>5, <2>2
  <2>3. CASE pc'[p] # "flip" /\ ~FlipCorpus(p)
    <3>1. UNCHANGED <<dirs, corpus>>
      BY <1>6, <2>3
         DEF files, Step, StepFails, Crash, FetchCurrent, ReadFlag, EraseMarker,
             CheckMarker, Download, Verify, PickDir, InstallDir, Goes, TypeOK,
             TruncateMarker, WriteMarker, SendHeartbeat
    <3> QED BY <1>3, <1>6, <2>3, <3>1
  <2> QED BY <2>1, <2>2, <2>3
<1> QED BY <1>2, <1>6, NextCases, AroundStays

-----------------------------------------------------------------------------
(* The invariant of the passes, for any number of processes. *)

(* It holds before the first pass. *)
LEMMA PassInvInit == Init => PassInv
<1> SUFFICES ASSUME Init PROVE PassInv
  OBVIOUS
<1>1. log = <<>> /\ beats = <<>>
  BY DEF Init, Server!Init
<1>2. DOMAIN dirs = {}
  BY DEF Init
<1>3. TypeOK
  <2>1. {} \in Tree
    BY DEF Tree
  <2>2. NoRelease \in [id : Nat, docs : Tree]
    BY <2>1 DEF NoRelease
  <2>3. NoDir \in DirName /\ NoBeat \in Beat
    BY BoundAssumption DEF NoDir, NoBeat, DirName, Beat
  <2>4. log \in Seq(Server!Archive) /\ beats \in Seq(Beat)
    BY <1>1, EmptySeq
  <2>5. 0 \in 0..MaxRequest /\ 0 \in 0..MaxFault
    BY BoundAssumption
  <2> QED BY <1>2, <2>1, <2>2, <2>3, <2>4, <2>5 DEF Init, TypeOK
<1> QED BY <1>3 DEF Init, PassInv, HoldsPublished, HoldsVerified, OwnsDirectory, Holding

(* Every step keeps it. *)
LEMMA PassInvStep ==
  ASSUME PassInv, [Next]_vars
  PROVE  PassInv'
<1>1. TypeOK /\ HoldsPublished /\ HoldsVerified /\ OwnsDirectory
  BY DEF PassInv
<1>2. TypeOK'
  <2>1. ASSUME NEW p \in Proc, Step(p) \/ StepFails(p) \/ Crash(p) PROVE TypeOK'
    BY <1>1, <2>1, TypeReads, TypeBuilds, TypeEnds DEF Step, OwnsDirectory
  <2>2. CASE UNCHANGED vars
    BY <1>1, <2>2 DEF TypeOK, vars, server, files, pass
  <2> QED BY <1>1, <2>1, <2>2, NextCases, TypeAround
<1> QED BY <1>1, <1>2, HoldsPublishedStep, HoldsVerifiedStep, OwnsDirectoryStep
           DEF PassInv

LEMMA PassInvAlways == Spec => []PassInv
<1>1. Init => PassInv
  BY PassInvInit
<1>2. PassInv /\ [Next]_vars => PassInv'
  BY PassInvStep
<1> QED BY <1>1, <1>2, PTL DEF Spec

(* The variables keep their types; in particular the corpus symlink always
   names a directory that is there (flipCorpus). *)
THEOREM TypeCorrect == Spec => []TypeOK
<1>1. PassInv => TypeOK
  BY DEF PassInv
<1> QED BY <1>1, PassInvAlways, PTL

(* A pass that goes from its flip to its marker has flipped the corpus. *)
LEMMA FlipFacts ==
  ASSUME PassInv, [Next]_vars, NEW p \in Proc, pc[p] = "flip", pc'[p] = "mark"
  PROVE  FlipCorpus(p)
<1>1. ASSUME NEW q \in Proc, Step(q) \/ StepFails(q) \/ Crash(q) PROVE FlipCorpus(p)
  BY <1>1, OthersStay, MoverFacts DEF PassInv
<1>2. ~ UNCHANGED pass
  BY DEF pass
<1> QED BY <1>1, <1>2, NextCases, AroundStays

(* However many passes share the home, the corpus is only ever pointed at a
   tree that equals the archive of its release (converge, freshReleaseDir). *)
THEOREM FlipIsFreshAlways == Spec => FlipIsFresh
<1> DEFINE Fresh == (corpus' # corpus \/ \E p \in Proc : pc[p] = "flip" /\ pc'[p] = "mark")
                    => dirs'[corpus'] = log[corpus'.id]
<1>1. ASSUME PassInv, [Next]_vars PROVE Fresh
  <2>1. ASSUME NEW p \in Proc, FlipCorpus(p) PROVE dirs'[corpus'] = log[corpus'.id]
    <3>1. pc[p] = "flip" /\ corpus' = dir[p] /\ dirs' = dirs
      BY <2>1 DEF FlipCorpus
    <3>2. dirs[dir[p]] = cur[p].docs /\ dir[p].id = cur[p].id /\ cur[p].docs = log[cur[p].id]
      BY <1>1, <3>1 DEF PassInv, OwnsDirectory, HoldsVerified, HoldsPublished, Holding, Steps
    <3> QED BY <3>1, <3>2
  <2>2. ASSUME NEW p \in Proc, pc[p] = "flip", pc'[p] = "mark" PROVE FlipCorpus(p)
    BY <1>1, <2>2, FlipFacts
  <2>3. CASE corpus' # corpus
    <3>1. \E p \in Proc : FlipCorpus(p)
      BY <1>1, <2>3, TreeSteps DEF Tamper, InstallDir
    <3> QED BY <2>1, <3>1
  <2> QED BY <2>1, <2>2, <2>3
<1>2. PassInv /\ [Next]_vars => [Fresh]_vars
  BY <1>1
<1> QED BY <1>2, PassInvAlways, PTL DEF FlipIsFresh, Spec

-----------------------------------------------------------------------------
(* Heartbeats. *)

(* What is on the wire after a step was there before, or is the report of a
   pass. *)
LEMMA BeatsSteps ==
  ASSUME TypeOK, [Next]_vars, NEW j \in DOMAIN beats'
  PROVE  \/ \E k \in DOMAIN beats : beats'[j] = beats[k]
         \/ \E p \in Proc : beats'[j] = beat[p]
<1>1. CASE beats' = beats
  BY <1>1
<1>2. ASSUME NEW i \in DOMAIN beats, beats' = Without(beats, i)
      PROVE  \E k \in DOMAIN beats : beats'[j] = beats[k]
  <2>1. beats \in Seq(Beat)
    BY DEF TypeOK
  <2>2. \A n \in DOMAIN Without(beats, i) : \E k \in DOMAIN beats : Without(beats, i)[n] = beats[k]
    BY <2>1, WithoutFacts
  <2> QED BY <1>2, <2>2
<1>3. ASSUME NEW p \in Proc, SendHeartbeat(p)
      PROVE  \/ \E k \in DOMAIN beats : beats'[j] = beats[k]
             \/ beats'[j] = beat[p]
  <2>1. /\ beats \in Seq(Beat) /\ beat[p] \in Beat /\ beats' = Append(beats, beat[p])
    BY <1>3 DEF TypeOK, SendHeartbeat
  <2>2. /\ Len(beats') = Len(beats) + 1
        /\ \A k \in 1..Len(beats) : beats'[k] = beats[k]
        /\ beats'[Len(beats) + 1] = beat[p]
        /\ beats' \in Seq(Beat)
    BY <2>1, AppendProperties
  <2>3. Len(beats) \in Nat /\ DOMAIN beats = 1..Len(beats) /\ DOMAIN beats' = 1..Len(beats')
    BY <2>1, <2>2, LenProperties
  <2>4. j \in 1..Len(beats) \/ j = Len(beats) + 1
    BY <2>2, <2>3
  <2> QED BY <2>2, <2>3, <2>4
<1>4. \/ beats' = beats \/ \E i \in DOMAIN beats : beats' = Without(beats, i)
      \/ \E p \in Proc : SendHeartbeat(p)
  BY DEF Next, vars, server, Publish, RequestResync, Heartbeat, LoseHeartbeat, Tamper,
         Step, StepFails, Crash, FetchCurrent, ReadFlag, EraseMarker, CheckMarker,
         Download, Verify, PickDir, InstallDir, FlipCorpus, TruncateMarker, WriteMarker
<1> QED BY <1>1, <1>2, <1>3, <1>4

(* What a pass reports: a success is of the release it holds, found in the
   marker or written there, and acknowledges a resync only in the second
   case. *)
LEMMA ReportFacts ==
  ASSUME TypeOK, NEW p \in Proc, Step(p) \/ StepFails(p) \/ Crash(p)
  PROVE  /\ beat'[p].acked => beat[p].acked \/ (WriteMarker(p) /\ fired[p])
         /\ beat'[p].ok =>
              \/ beat'[p] = beat[p]
              \/ beat'[p].release = cur[p].id /\ CheckMarker(p) /\ applied = cur[p]
              \/ beat'[p].release = cur[p].id /\ WriteMarker(p)
<1>1. CASE UNCHANGED beat
  BY <1>1
<1>2. CASE \E n \in Nat : Ends(p, n, FALSE, FALSE)
  BY <1>2 DEF Ends, TypeOK
<1>3. CASE FetchCurrent(p) \/ StepFails(p) \/ Verify(p) \/ InstallDir(p)
  <2>1. (IF pc[p] = "flag" THEN 0 ELSE cur[p].id) \in Nat /\ cur[p].id \in Nat
    BY PassTypes
  <2> QED BY <1>1, <1>2, <1>3, <2>1 DEF FetchCurrent, StepFails, Verify, InstallDir, Goes
<1>4. CASE CheckMarker(p)
  <2>1. CASE applied = cur[p] /\ Ends(p, cur[p].id, TRUE, FALSE)
    BY <1>4, <2>1 DEF Ends, TypeOK
  <2>2. CASE Goes(p, "download")
    BY <1>1, <2>2 DEF Goes
  <2> QED BY <1>4, <2>1, <2>2 DEF CheckMarker
<1>5. CASE WriteMarker(p)
  BY <1>5 DEF WriteMarker, Ends, TypeOK
<1>6. CASE SendHeartbeat(p) \/ Crash(p)
  BY <1>6 DEF SendHeartbeat, Crash, Forget, NoBeat, TypeOK
<1>7. CASE ReadFlag(p) \/ EraseMarker(p) \/ Download(p) \/ PickDir(p) \/ FlipCorpus(p)
           \/ TruncateMarker(p)
  BY <1>1, <1>7 DEF ReadFlag, EraseMarker, Download, PickDir, FlipCorpus,
                    TruncateMarker, Goes
<1> QED BY <1>3, <1>4, <1>5, <1>6, <1>7 DEF Step

-----------------------------------------------------------------------------
(* Resync requests. *)

(* As long as a rebuild is owed nothing acknowledges one: no heartbeat on the
   wire, no report, and no pass beyond its flip. *)
AckInv ==
  owed => /\ \A i \in DOMAIN beats : ~beats[i].acked
          /\ \A p \in Proc : ~beat[p].acked /\ (pc[p] \in {"mark", "fill"} => ~fired[p])

LEMMA AckInvStep ==
  ASSUME TypeOK, AckInv, [Next]_vars
  PROVE  AckInv'
<1> SUFFICES ASSUME owed'
             PROVE  /\ \A j \in DOMAIN beats' : ~beats'[j].acked
                    /\ \A q \in Proc : ~beat'[q].acked
                                       /\ (pc'[q] \in {"mark", "fill"} => ~fired'[q])
  BY DEF AckInv
<1> DEFINE Silent == /\ \A i \in DOMAIN beats : ~beats[i].acked
                     /\ \A p \in Proc : ~beat[p].acked
                                        /\ (pc[p] \in {"mark", "fill"} => ~fired[p])
<1>1. Silent
  <2>1. CASE owed
    BY <2>1 DEF AckInv
  <2>2. CASE ~owed
    <3>1. RequestResync
      BY <2>2 DEF Next, vars, Publish, Heartbeat, LoseHeartbeat, Tamper, Step,
             StepFails, Crash, FetchCurrent, ReadFlag, EraseMarker, CheckMarker,
             Download, Verify, PickDir, InstallDir, FlipCorpus, TruncateMarker,
             WriteMarker, SendHeartbeat
    <3> QED BY <2>2, <3>1 DEF RequestResync, AckOutstanding
  <2> QED BY <2>1, <2>2
<1>2. \A j \in DOMAIN beats' : ~beats'[j].acked
  BY <1>1, BeatsSteps
<1>3. CASE UNCHANGED pass
  BY <1>1, <1>2, <1>3 DEF pass
<1>4. ASSUME NEW p \in Proc, Step(p) \/ StepFails(p) \/ Crash(p), NEW q \in Proc
      PROVE  ~beat'[q].acked /\ (pc'[q] \in {"mark", "fill"} => ~fired'[q])
  <2>1. CASE q # p
    BY <1>1, <1>4, <2>1, OthersStay
  <2>2. CASE q = p
    <3>1. ~beat'[q].acked
      BY <1>1, <1>4, <2>2, ReportFacts DEF WriteMarker
    <3>2. CASE pc'[q] = "mark"
      BY <1>4, <2>2, <3>1, <3>2, MoverFacts DEF FlipCorpus
    <3>3. CASE pc'[q] = "fill"
      <4>1. pc[q] = "mark"
        BY <1>4, <2>2, <3>3, MoverFacts
      <4>2. TruncateMarker(q)
        BY <1>4, <2>2, <3>3, <4>1
           DEF Step, StepFails, Crash, FetchCurrent, ReadFlag, EraseMarker, CheckMarker,
               Download, Verify, PickDir, InstallDir, FlipCorpus, WriteMarker,
               SendHeartbeat, Ends, Forget, TypeOK
      <4> QED BY <1>1, <3>1, <4>1, <4>2 DEF TruncateMarker
    <3> QED BY <3>1, <3>2, <3>3
  <2> QED BY <2>1, <2>2
<1> QED BY <1>2, <1>3, <1>4, NextCases, AroundStays

(* A resync request goes away only after a pass that saw it has rebuilt the
   corpus (applyResync, the belief erasure of converge), however many passes
   and heartbeats are under way. *)
THEOREM NoClearWithoutRebuildAlways == Spec => NoClearWithoutRebuild
<1>1. Init => AckInv
  BY DEF Init, AckInv
<1>2. TypeOK /\ AckInv /\ [Next]_vars => AckInv'
  BY AckInvStep
<1>3. TypeOK /\ AckInv /\ [Next]_vars => [flag /\ ~flag' => ~owed']_vars
  <2> SUFFICES ASSUME TypeOK, AckInv, [Next]_vars, flag, ~flag' PROVE ~owed'
    OBVIOUS
  <2>1. PICK i \in DOMAIN beats : Heartbeat(i)
    BY DEF Next, vars, server, Publish, RequestResync, LoseHeartbeat, Tamper, Step,
           StepFails, Crash, FetchCurrent, ReadFlag, EraseMarker, CheckMarker, Download,
           Verify, PickDir, InstallDir, FlipCorpus, TruncateMarker, WriteMarker,
           SendHeartbeat
  <2>2. beats[i].acked /\ owed' = owed
    BY <2>1 DEF Heartbeat
  <2> QED BY <2>2 DEF AckInv
<1> QED BY <1>1, <1>2, <1>3, TypeCorrect, PTL DEF Spec, NoClearWithoutRebuild

-----------------------------------------------------------------------------
(* What is shown, for any number of processes on a home. *)

ShownPublished == corpus # None => corpus.id \in 1..Len(log)

(* A release is shown once it is published. *)
LEMMA ShownFacts ==
  ASSUME TypeOK, ShownPublished
  PROVE  Len(log) \in Nat /\ Shown \in Nat /\ Shown <= Len(log)
<1>1. Len(log) \in Nat
  BY LenProperties DEF TypeOK
<1> QED BY <1>1 DEF ShownPublished, Shown

(* A flip shows the release that its pass holds. *)
LEMMA FlipShows ==
  ASSUME PassInv, NEW p \in Proc, FlipCorpus(p)
  PROVE  /\ pc[p] = "flip" /\ pc'[p] = "mark" /\ cur' = cur
         /\ corpus' # None /\ corpus'.id = cur[p].id /\ Shown' = cur[p].id
         /\ cur[p].id \in 1..Len(log)
<1>1. /\ pc[p] = "flip" /\ pc'[p] = "mark" /\ cur' = cur /\ corpus' = dir[p]
  BY DEF FlipCorpus, Goes, PassInv, TypeOK
<1>2. dir[p].id = cur[p].id /\ cur[p].id \in 1..Len(log)
  BY <1>1 DEF PassInv, HoldsVerified, HoldsPublished, Holding, Steps
<1>3. dir[p] # None
  BY PassTypes, NoneAssumption, BoundAssumption DEF PassInv, DirName
<1> QED BY <1>1, <1>2, <1>3 DEF Shown

(* However the passes of two processes interleave, fail or die, agents are shown
   a release that the server published, or none. *)
THEOREM ShownPublishedAlways == Spec => []ShownPublished
<1>1. Init => ShownPublished
  BY DEF Init, ShownPublished
<1>2. ASSUME PassInv, ShownPublished, [Next]_vars PROVE ShownPublished'
  <2>1. Len(log) \in Nat /\ Len(log') \in Nat /\ Len(log) <= Len(log')
    BY <1>2, ShownFacts, LogStep DEF PassInv
  <2>2. CASE corpus' = corpus
    BY <1>2, <2>1, <2>2 DEF ShownPublished
  <2>3. ASSUME NEW p \in Proc, FlipCorpus(p) PROVE ShownPublished'
    BY <1>2, <2>1, <2>3, FlipShows DEF ShownPublished
  <2> QED BY <1>2, <2>2, <2>3, TreeSteps DEF Tamper, InstallDir
<1> QED BY <1>1, <1>2, PassInvAlways, PTL DEF Spec

(* What a pass read of the corpus when it began is no newer than the release it
   then fetched. *)
BeganBehind ==
  \A p \in Proc : pc[p] \in Holding /\ before[p] # None => before[p].id <= cur[p].id

(* Only a pass that begins, and one that is over, touch what it began with. *)
LEMMA BeforeSteps ==
  ASSUME TypeOK, [Next]_vars, NEW q \in Proc
  PROVE  \/ before'[q] = before[q]
         \/ FetchCurrent(q) /\ before'[q] = corpus
         \/ pc'[q] = "idle"
<1>0. /\ before \in [Proc -> DOMAIN dirs \cup {None}]
      /\ pc \in [Proc -> Steps]
  BY DEF TypeOK, Steps
<1>1. ASSUME NEW p \in Proc, Step(p) \/ StepFails(p)
      PROVE  \/ before' = before
             \/ FetchCurrent(p) /\ before' = [before EXCEPT ![p] = corpus]
             \/ SendHeartbeat(p)
  <2>1. CASE FetchCurrent(p)
    <3>1. before' = [before EXCEPT ![p] = corpus]
      BY <2>1 DEF FetchCurrent
    <3> QED BY <2>1, <3>1
  <2>2. ReadFlag(p) \/ EraseMarker(p) \/ CheckMarker(p) \/ Download(p) \/ Verify(p)
        => before' = before
    BY DEF ReadFlag, EraseMarker, CheckMarker, Download, Verify
  <2>3. PickDir(p) \/ InstallDir(p) \/ FlipCorpus(p) \/ TruncateMarker(p) \/ WriteMarker(p)
        => before' = before
    BY DEF PickDir, InstallDir, FlipCorpus, TruncateMarker, WriteMarker
  <2>4. StepFails(p) => before' = before
    BY DEF StepFails
  <2> QED BY <1>1, <2>1, <2>2, <2>3, <2>4 DEF Step
<1>2. ASSUME NEW p \in Proc, SendHeartbeat(p) \/ Crash(p)
      PROVE  /\ pc' = [pc EXCEPT ![p] = "idle"]
             /\ before' = [before EXCEPT ![p] = None]
  BY <1>2 DEF SendHeartbeat, Crash, Forget
<1>3. ASSUME NEW p \in Proc, Step(p) \/ StepFails(p) \/ Crash(p)
      PROVE  \/ before'[q] = before[q]
             \/ FetchCurrent(q) /\ before'[q] = corpus
             \/ pc'[q] = "idle"
  <2>1. CASE before' = before
    BY <2>1
  <2>2. CASE FetchCurrent(p) /\ before' = [before EXCEPT ![p] = corpus]
    <3>1. q = p => before'[q] = corpus
      BY <1>0, <2>2
    <3>2. q # p => before'[q] = before[q]
      BY <1>0, <2>2
    <3> QED BY <2>2, <3>1, <3>2
  <2>3. CASE SendHeartbeat(p) \/ Crash(p)
    <3>1. q = p => pc'[q] = "idle"
      BY <1>0, <1>2, <2>3
    <3>2. q # p => before'[q] = before[q]
      BY <1>0, <1>2, <2>3
    <3> QED BY <3>1, <3>2
  <2> QED BY <1>1, <1>3, <2>1, <2>2, <2>3
<1>4. before' = before \/ \E p \in Proc : Step(p) \/ StepFails(p) \/ Crash(p)
  BY NextCases DEF Publish, RequestResync, Heartbeat, LoseHeartbeat, Tamper, vars
<1> QED BY <1>3, <1>4

(* A release is fetched after the corpus was read, and the corpus shows what is
   published. *)
LEMMA BeganBehindStep ==
  ASSUME PassInv, ShownPublished, BeganBehind, [Next]_vars
  PROVE  BeganBehind'
<1> SUFFICES ASSUME NEW q \in Proc, pc'[q] \in Holding, before'[q] # None
             PROVE  before'[q].id <= cur'[q].id
  BY DEF BeganBehind
<1>0. TypeOK
  BY DEF PassInv
<1>1. CASE UNCHANGED pass
  <2>1. ~FetchCurrent(q) /\ pc'[q] # "idle"
    BY <1>0, <1>1 DEF FetchCurrent, Ends, Goes, pass, TypeOK, Holding, Steps
  <2>2. before'[q] = before[q]
    BY <1>0, <2>1, BeforeSteps
  <2> QED BY <1>1, <2>2 DEF BeganBehind, pass
<1>2. ASSUME NEW p \in Proc, Step(p) \/ StepFails(p) \/ Crash(p), q # p
      PROVE  before'[q].id <= cur'[q].id
  <2>1. pc'[q] = pc[q] /\ cur'[q] = cur[q]
    BY <1>0, <1>2, OthersStay
  <2>2. ~FetchCurrent(q) /\ pc'[q] # "idle"
    BY <1>0, <2>1 DEF FetchCurrent, Ends, Goes, TypeOK, Holding, Steps
  <2>3. before'[q] = before[q]
    BY <1>0, <2>2, BeforeSteps
  <2> QED BY <2>1, <2>3 DEF BeganBehind
<1>3. CASE Step(q) \/ StepFails(q) \/ Crash(q)
  <2>1. CASE pc'[q] = "flag"
    <3>1. cur'[q].id = Len(log) /\ log # <<>>
      BY <1>0, <1>3, <2>1, MoverFacts
    <3>2. before'[q] = corpus
      BY <1>0, <1>3, <2>1 DEF TypeOK, Step, StepFails, Crash, Forget, Ends, Goes,
         FetchCurrent, ReadFlag, EraseMarker, CheckMarker, Download, Verify, PickDir,
         InstallDir, FlipCorpus, TruncateMarker, WriteMarker, SendHeartbeat
    <3>3. corpus.id \in 1..Len(log)
      BY <3>2 DEF ShownPublished
    <3> QED BY <3>1, <3>2, <3>3
  <2>2. CASE pc'[q] # "flag"
    <3>1. pc[q] \in Holding /\ cur'[q] = cur[q]
      BY <1>0, <1>3, <2>2, MoverFacts
    <3>2. ~FetchCurrent(q) /\ pc'[q] # "idle"
      BY <3>1 DEF FetchCurrent, Holding, Steps
    <3>3. before'[q] = before[q]
      BY <1>0, <3>2, BeforeSteps
    <3> QED BY <3>1, <3>3 DEF BeganBehind
  <2> QED BY <2>1, <2>2
<1> QED BY <1>1, <1>2, <1>3, NextCases, AroundStays

(* However many passes share the home: one that another has overtaken may bring
   an older release back (converge orders no two passes), but none older than
   what the agents read when it began. *)
THEOREM FallsBackNoFurtherAlways == Spec => FallsBackNoFurther
<1> DEFINE Bounded == \A p \in Proc :
                        pc[p] = "flip" /\ pc'[p] = "mark" /\ before[p] # None
                        => before[p].id <= Shown'
<1>1. Init => BeganBehind
  BY DEF Init, BeganBehind
<1>2. PassInv /\ ShownPublished /\ BeganBehind /\ [Next]_vars => BeganBehind'
  BY BeganBehindStep
<1>3. ASSUME PassInv, BeganBehind, [Next]_vars PROVE Bounded
  <2> SUFFICES ASSUME NEW p \in Proc, pc[p] = "flip", pc'[p] = "mark", before[p] # None
               PROVE  before[p].id <= Shown'
    OBVIOUS
  <2>1. FlipCorpus(p)
    BY <1>3, FlipFacts
  <2>2. Shown' = cur[p].id
    BY <1>3, <2>1, FlipShows
  <2> QED BY <1>3, <2>2 DEF BeganBehind, Holding, Steps
<1>4. PassInv /\ BeganBehind /\ [Next]_vars => [Bounded]_vars
  BY <1>3
<1> QED BY <1>1, <1>2, <1>4, PassInvAlways, ShownPublishedAlways, PTL
        DEF FallsBackNoFurther, Spec

-----------------------------------------------------------------------------
(* A home that one process works on. *)

Alone == \A p, q \in Proc : p = q

(* The corpus shows a published release, no newer than the one a pass holds
   and, behind the flip, that very one; marker and reports say no more than
   the corpus shows. *)
HoldsNewest ==
  \A p \in Proc : /\ pc[p] \in Holding => Shown <= cur[p].id
                  /\ pc[p] \in {"mark", "fill"} => Shown = cur[p].id

MarkerBehind ==
  applied # None => /\ applied.id \in 1..Len(log) /\ applied.id <= Shown
                    /\ applied.docs = log[applied.id]

ReportsBehind ==
  /\ row # None /\ row.ok => row.release <= Shown
  /\ \A i \in DOMAIN beats : beats[i].ok => beats[i].release <= Shown
  /\ \A p \in Proc : beat[p].ok => beat[p].release <= Shown

HostInv == ShownPublished /\ HoldsNewest /\ MarkerBehind /\ ReportsBehind

(* The release shown only moves forward. *)
LEMMA ShownStep ==
  ASSUME PassInv, HostInv, [Next]_vars
  PROVE  /\ ShownPublished' /\ Shown' \in Nat /\ Shown <= Shown' /\ Shown' <= Len(log')
         /\ Shown' # Shown => Shown' <= Len(log) /\ \E p \in Proc : FlipCorpus(p)
<1>1. Len(log) \in Nat /\ Shown \in Nat /\ Shown <= Len(log)
  BY ShownFacts DEF PassInv, HostInv
<1>2. Len(log') \in Nat /\ Len(log) <= Len(log')
  BY LogStep DEF PassInv
<1>3. CASE corpus' = corpus
  BY <1>1, <1>2, <1>3 DEF HostInv, ShownPublished, Shown
<1>4. ASSUME NEW p \in Proc, FlipCorpus(p)
      PROVE  /\ ShownPublished' /\ Shown' \in Nat /\ Shown <= Shown'
             /\ Shown' <= Len(log') /\ Shown' <= Len(log)
  <2>1. Shown <= cur[p].id
    BY <1>4, FlipShows DEF HostInv, HoldsNewest, Holding, Steps
  <2> QED BY <1>1, <1>2, <1>4, <2>1, FlipShows DEF ShownPublished
<1> QED BY <1>3, <1>4, TreeSteps DEF Tamper, InstallDir, Shown

(* What a pass holds is the newest release its host has seen. *)
LEMMA HoldsNewestStep ==
  ASSUME Alone, PassInv, HostInv, [Next]_vars
  PROVE  HoldsNewest'
<1> SUFFICES ASSUME NEW q \in Proc
             PROVE  /\ pc'[q] \in Holding => Shown' <= cur'[q].id
                    /\ pc'[q] \in {"mark", "fill"} => Shown' = cur'[q].id
  BY DEF HoldsNewest
<1>1. Len(log) \in Nat /\ Shown \in Nat /\ Shown <= Len(log)
  BY ShownFacts DEF PassInv, HostInv
<1>2. /\ pc[q] \in Holding => Shown <= cur[q].id
      /\ pc[q] \in {"mark", "fill"} => Shown = cur[q].id
  BY DEF HostInv, HoldsNewest
<1>3. CASE FlipCorpus(q)
  BY <1>3, FlipShows DEF PassInv, TypeOK
<1>4. CASE ~FlipCorpus(q)
  <2>1. Shown' = Shown
    BY <1>4, ShownStep DEF Alone
  <2>2. CASE UNCHANGED pass
    BY <1>2, <2>1, <2>2 DEF pass
  <2>3. CASE Step(q) \/ StepFails(q) \/ Crash(q)
    <3>1. pc'[q] = "flag" => cur'[q].id = Len(log)
      BY <2>3, MoverFacts DEF PassInv
    <3>2. pc'[q] \in Holding \ {"flag"} => pc[q] \in Holding /\ cur'[q] = cur[q]
      BY <2>3, MoverFacts DEF PassInv
    <3>3. pc'[q] # "mark" /\ (pc'[q] = "fill" => pc[q] = "mark")
      BY <1>4, <2>3, MoverFacts DEF PassInv
    <3> QED BY <1>1, <1>2, <2>1, <3>1, <3>2, <3>3 DEF Holding, Steps
  <2> QED BY <2>2, <2>3, NextCases, AroundStays DEF Alone
<1> QED BY <1>3, <1>4

(* The marker is erased, or written with the release shown. *)
LEMMA MarkerStep ==
  ASSUME PassInv, HostInv, [Next]_vars
  PROVE  MarkerBehind'
<1>1. /\ Len(log) \in Nat /\ Len(log') \in Nat /\ Len(log) <= Len(log')
      /\ \A n \in 1..Len(log) : log'[n] = log[n]
  BY LogStep DEF PassInv
<1>2. Shown \in Nat /\ Shown' \in Nat /\ Shown <= Shown'
  BY ShownFacts, ShownStep DEF PassInv, HostInv
<1>3. CASE applied' = applied
  BY <1>1, <1>2, <1>3 DEF HostInv, MarkerBehind
<1>4. CASE applied' = None
  BY <1>4 DEF MarkerBehind
<1>5. ASSUME NEW p \in Proc, WriteMarker(p)
      PROVE  MarkerBehind'
  <2>1. pc[p] = "fill" /\ applied' = cur[p] /\ corpus' = corpus
    BY <1>5 DEF WriteMarker
  <2>2. Shown = cur[p].id /\ Shown' = Shown
    BY <2>1 DEF HostInv, HoldsNewest, Shown
  <2>3. cur[p].id \in 1..Len(log) /\ cur[p].docs = log[cur[p].id]
    BY <2>1 DEF PassInv, HoldsPublished, Holding, Steps
  <2> QED BY <1>1, <1>2, <2>1, <2>2, <2>3 DEF MarkerBehind
<1>6. applied' = applied \/ applied' = None \/ \E p \in Proc : WriteMarker(p)
  BY DEF Next, vars, files, Publish, RequestResync, Heartbeat, LoseHeartbeat, Tamper,
         Step, StepFails, Crash, FetchCurrent, ReadFlag, EraseMarker, CheckMarker,
         Download, Verify, PickDir, InstallDir, FlipCorpus, TruncateMarker, SendHeartbeat
<1> QED BY <1>3, <1>4, <1>5, <1>6

(* A success is reported of the release shown, or of an older one. *)
LEMMA ReportsStep ==
  ASSUME PassInv, HostInv, [Next]_vars
  PROVE  ReportsBehind'
<1>0. TypeOK
  BY DEF PassInv
<1>1. Shown \in Nat /\ Shown' \in Nat /\ Shown <= Shown'
  BY <1>0, ShownFacts, ShownStep DEF HostInv
<1>2. \A p \in Proc : beat[p] \in Beat /\ (beat[p].ok => beat[p].release <= Shown')
  BY <1>0, <1>1, PassTypes DEF HostInv, ReportsBehind, Beat
<1>3. \A i \in DOMAIN beats : beats[i] \in Beat /\ (beats[i].ok => beats[i].release <= Shown')
  <2>1. \A i \in DOMAIN beats : beats[i] \in Beat
    BY <1>0, LenProperties, ElementOfSeq DEF TypeOK
  <2> QED BY <1>1, <2>1 DEF HostInv, ReportsBehind, Beat
<1>4. row' # None /\ row'.ok => row'.release <= Shown'
  <2>1. CASE row' = row
    <3>1. row # None => row.release \in Nat
      BY <1>0 DEF TypeOK
    <3> QED BY <1>1, <2>1, <3>1 DEF HostInv, ReportsBehind
  <2>2. ASSUME NEW i \in DOMAIN beats, Heartbeat(i)
        PROVE  row'.ok => row'.release <= Shown'
    BY <1>3, <2>2 DEF Heartbeat
  <2>3. row' = row \/ \E i \in DOMAIN beats : Heartbeat(i)
    BY DEF Next, vars, server, Publish, RequestResync, LoseHeartbeat, Tamper, Step,
           StepFails, Crash, FetchCurrent, ReadFlag, EraseMarker, CheckMarker, Download,
           Verify, PickDir, InstallDir, FlipCorpus, TruncateMarker, WriteMarker,
           SendHeartbeat
  <2> QED BY <2>1, <2>2, <2>3
<1>5. \A j \in DOMAIN beats' : beats'[j].ok => beats'[j].release <= Shown'
  BY <1>0, <1>2, <1>3, BeatsSteps
<1>6. ASSUME NEW q \in Proc, beat'[q].ok
      PROVE  beat'[q].release <= Shown'
  <2>1. CASE beat'[q] = beat[q]
    BY <1>2, <1>6, <2>1
  <2>2. CASE beat'[q].release = cur[q].id /\ CheckMarker(q) /\ applied = cur[q]
    <3>1. applied # None
      <4>1. cur[q] \in [id : Nat, docs : Tree]
        BY <1>0, PassTypes
      <4>2. Tree \subseteq SUBSET (Family \X Body)
        BY DEF Tree, Server!Archive
      <4> QED BY <2>2, <4>1, <4>2, NoneAssumption
    <3>2. cur[q].id <= Shown /\ cur[q].id \in Nat
      BY <1>0, <2>2, <3>1, PassTypes DEF HostInv, MarkerBehind
    <3> QED BY <1>1, <2>2, <3>2
  <2>3. CASE beat'[q].release = cur[q].id /\ WriteMarker(q)
    <3>1. Shown = cur[q].id
      BY <2>3 DEF HostInv, HoldsNewest, WriteMarker
    <3> QED BY <1>1, <2>3, <3>1
  <2>4. CASE UNCHANGED pass
    BY <2>1, <2>4 DEF pass
  <2>5. ASSUME NEW p \in Proc, Step(p) \/ StepFails(p) \/ Crash(p)
        PROVE  beat'[q].release <= Shown'
    BY <1>0, <1>6, <2>1, <2>2, <2>3, <2>5, OthersStay, ReportFacts
  <2> QED BY <2>4, <2>5, NextCases, AroundStays
<1> QED BY <1>4, <1>5, <1>6 DEF ReportsBehind

LEMMA HostInvAlways == ASSUME Alone PROVE Spec => []HostInv
<1>1. Init => HostInv
  <2> SUFFICES ASSUME Init PROVE HostInv
    OBVIOUS
  <2>1. beats = <<>> /\ Shown = 0
    BY DEF Init, Shown
  <2> QED BY <2>1 DEF Init, HostInv, ShownPublished, HoldsNewest, MarkerBehind,
                      ReportsBehind, Holding, NoBeat
<1>2. PassInv /\ HostInv /\ [Next]_vars => HostInv'
  BY ShownStep, HoldsNewestStep, MarkerStep, ReportsStep DEF HostInv
<1> QED BY <1>1, <1>2, PassInvAlways, PTL DEF Spec

(* With one process on a home the marker never says more than the corpus shows
   (writeApplied comes after flipCorpus). *)
THEOREM MarkerNotAheadAlways == ASSUME Alone PROVE Spec => []MarkerNotAhead
<1>1. PassInv /\ HostInv => MarkerNotAhead
  BY ShownFacts DEF PassInv, HostInv, MarkerBehind, MarkerNotAhead
<1> QED BY <1>1, PassInvAlways, HostInvAlways, PTL

(* With one process on a home, a host that the fleet page calls current shows
   the latest release, however late its heartbeats arrive (PutHeartbeat keeps
   the one that came last). *)
THEOREM CurrentIsTrueAlways == ASSUME Alone PROVE Spec => []CurrentIsTrue
<1>1. PassInv /\ HostInv => CurrentIsTrue
  BY ShownFacts DEF PassInv, HostInv, ReportsBehind, CurrentIsTrue, FleetCurrent
<1> QED BY <1>1, PassInvAlways, HostInvAlways, PTL

(* With one process on a home, whatever fails, crashes or is overtaken, the
   release shown is a published one and never an older one than before: the
   subscriber implements Delivery. *)
THEOREM SubscriberImplementsDelivery == ASSUME Alone PROVE Spec => ImplementsDelivery
<1>1. Init => Promise!Init
  BY EmptySeq DEF Init, Server!Init, Promise!Init, Shown
<1>2. PassInv /\ HostInv /\ [Next]_vars => [Promise!Next]_<<Len(log), Shown>>
  <2> SUFFICES ASSUME PassInv, HostInv, [Next]_vars
               PROVE  [Promise!Next]_<<Len(log), Shown>>
    OBVIOUS
  <2>1. Len(log) \in Nat /\ Shown \in Nat
    BY ShownFacts DEF PassInv, HostInv
  <2>2. Len(log') \in {Len(log), Len(log) + 1}
    BY LogStep DEF PassInv
  <2>3. /\ Shown' \in Nat /\ Shown <= Shown'
        /\ Shown' # Shown => Shown' <= Len(log) /\ \E p \in Proc : FlipCorpus(p)
    BY ShownStep
  <2>4. CASE Shown' = Shown
    BY <2>2, <2>4 DEF Promise!Next, Promise!Publish
  <2>5. CASE Shown' # Shown
    <3>1. log' = log
      BY <2>3, <2>5 DEF FlipCorpus, server
    <3>2. Shown' \in Shown + 1..Len(log)
      BY <2>1, <2>3, <2>5
    <3> QED BY <3>1, <3>2 DEF Promise!Next, Promise!Show
  <2> QED BY <2>4, <2>5
<1> QED BY <1>1, <1>2, PassInvAlways, HostInvAlways, PTL
        DEF Spec, ImplementsDelivery, Promise!Spec, Promise!vars

-----------------------------------------------------------------------------
(* What the agents can read. *)

PathsGrow ==
  \A m, n \in 1..Len(log) : m <= n => Server!Paths(log[m]) \subseteq Server!Paths(log[n])

(* A release leaves no document of an earlier one out. *)
LEMMA PathsGrowStep ==
  ASSUME TypeOK, PathsGrow, [Next]_vars
  PROVE  PathsGrow'
<1>1. /\ Len(log) \in Nat /\ Len(log') \in Nat
      /\ \A n \in 1..Len(log) : log'[n] = log[n]
  BY LogStep
<1>2. CASE log' = log
  BY <1>2 DEF PathsGrow
<1>3. CASE Server!Publish
  <2>1. PICK a \in Server!Archive : /\ Server!Paths(Server!Latest) \subseteq Server!Paths(a)
                                    /\ log' = Append(log, a)
    BY <1>3 DEF Server!Publish
  <2>2. Len(log') = Len(log) + 1 /\ log'[Len(log) + 1] = a
    BY <2>1, AppendProperties DEF TypeOK
  <2>3. ASSUME NEW m \in 1..Len(log)
        PROVE  Server!Paths(log[m]) \subseteq Server!Paths(a)
    <3>1. log # <<>> /\ Len(log) \in 1..Len(log) /\ m <= Len(log)
      BY <1>1, <2>3
    <3>2. Server!Latest = log[Len(log)]
      BY <3>1 DEF Server!Latest
    <3>3. Server!Paths(log[m]) \subseteq Server!Paths(log[Len(log)])
      BY <2>3, <3>1 DEF PathsGrow
    <3> QED BY <2>1, <3>2, <3>3
  <2>4. ASSUME NEW m \in 1..Len(log'), NEW n \in 1..Len(log'), m <= n
        PROVE  Server!Paths(log'[m]) \subseteq Server!Paths(log'[n])
    <3>1. CASE n \in 1..Len(log)
      <4>1. m \in 1..Len(log)
        BY <1>1, <2>4, <3>1
      <4> QED BY <1>1, <2>4, <3>1, <4>1 DEF PathsGrow
    <3>2. CASE m \in 1..Len(log) /\ n = Len(log) + 1
      BY <1>1, <2>2, <2>3, <3>2
    <3>3. CASE m = n
      BY <3>3
    <3> QED BY <1>1, <2>2, <2>4, <3>1, <3>2, <3>3
  <2> QED BY <2>4 DEF PathsGrow
<1>4. log' = log \/ Server!Publish
  BY DEF Next, vars, server, Publish, RequestResync, Heartbeat, LoseHeartbeat, Step,
         StepFails, Crash, Tamper, FetchCurrent, ReadFlag, EraseMarker, CheckMarker,
         Download, Verify, PickDir, InstallDir, FlipCorpus, TruncateMarker, WriteMarker,
         SendHeartbeat
<1> QED BY <1>2, <1>3, <1>4

(* The documents of the release the agents are shown. *)
Readable == IF corpus = None THEN {} ELSE Server!Paths(log[corpus.id])

(* With one process on a home, a document that the agents could read once is one
   they can read ever after, through every release, failure and crash. *)
THEOREM NothingDisappears == ASSUME Alone PROVE Spec => [][Readable \subseteq Readable']_vars
<1>1. Init => PathsGrow
  BY EmptySeq DEF Init, Server!Init, PathsGrow
<1>2. PassInv /\ PathsGrow /\ [Next]_vars => PathsGrow'
  BY PathsGrowStep DEF PassInv
<1>3. ASSUME PassInv, HostInv, PathsGrow, PathsGrow', [Next]_vars
      PROVE  Readable \subseteq Readable'
  <2>1. /\ Len(log) \in Nat /\ Len(log') \in Nat /\ Len(log) <= Len(log')
        /\ \A n \in 1..Len(log) : log'[n] = log[n]
    BY <1>3, LogStep DEF PassInv
  <2>2. CASE corpus = None
    BY <2>2 DEF Readable
  <2>3. CASE corpus # None
    <3>1. corpus.id \in 1..Len(log) /\ Shown = corpus.id
      BY <1>3, <2>3 DEF HostInv, ShownPublished, Shown
    <3>2. /\ ShownPublished' /\ Shown' \in Nat /\ Shown <= Shown'
      BY <1>3, ShownStep
    <3>3. corpus' # None
      BY <2>1, <3>1, <3>2 DEF Shown
    <3>4. corpus'.id \in 1..Len(log') /\ Shown' = corpus'.id
      BY <3>2, <3>3 DEF ShownPublished, Shown
    <3>5. corpus.id \in 1..Len(log') /\ corpus.id <= corpus'.id
      BY <2>1, <3>1, <3>2, <3>4
    <3>6. Server!Paths(log'[corpus.id]) \subseteq Server!Paths(log'[corpus'.id])
      BY <1>3, <3>4, <3>5 DEF PathsGrow
    <3>7. log'[corpus.id] = log[corpus.id]
      BY <2>1, <3>1
    <3>8. Server!Paths(log'[corpus.id]) = Server!Paths(log[corpus.id])
      BY <3>7 DEF Server!Paths
    <3> QED BY <2>3, <3>3, <3>6, <3>8 DEF Readable
  <2> QED BY <2>2, <2>3
<1>4. PassInv /\ HostInv /\ PathsGrow /\ PathsGrow' /\ [Next]_vars
      => [Readable \subseteq Readable']_vars
  BY <1>3
<1> QED BY <1>1, <1>2, <1>4, PassInvAlways, HostInvAlways, PTL DEF Spec
=============================================================================
