-------------------------- MODULE PublishTabProofs --------------------------
(***************************************************************************)
(* Proofs about PublishTab, for every set of contents and of requests in   *)
(* flight, any number of releases and of changes by other editors; about   *)
(* ManifestDiff, the diff its view draws, for manifests of any size; and   *)
(* about LineDiff, for texts of any length.                                *)
(***************************************************************************)
EXTENDS Pages, DataInduction, Integers, SequenceTheorems, TLAPS

-----------------------------------------------------------------------------
(* The inductive invariant. *)

(* The handler of request s awaits its answer. *)
Awaits(s) == sent[s] # None /\ sent[s].awaited

(* An operator who waits has one handler at work. *)
OneAtATime == waits => \A s, t \in Slot : Awaits(s) /\ Awaits(t) => s = t

(* The view while refreshPublish is on its way. *)
Blank ==
  /\ candidate = None /\ ~armed /\ ~cutOn
  /\ preview = None /\ diff = None /\ box = None /\ refused = None

(* A request goes with the view.  What is not awaited is a cut that was sent; a
   cut carries a candidate that was shown; and as long as an operator waits, a
   refresh finds the view as it has blanked it, a content diff is of the
   manifest diff on display, and a cut is of what he reviewed. *)
Fits(c) ==
  /\ ~c.awaited => c.step = "cut" /\ ~c.served
  /\ c.step = "cut" => c.content \in seen \cup {None}
  /\ waits =>
       /\ c.step \in {"current", "preview"} => Blank
       /\ c.step = "content" => c.of = diff
       /\ c.step = "cut" => c.content = c.reviewed

CallsFit == \A s \in Slot : sent[s] # None => Fits(sent[s])

(* The candidate was shown, and Cut needs one. *)
CandidateShown == candidate \in seen \cup {None} /\ (cutOn => candidate # None)

(* An operator who waits confirms what he reviewed, and nothing that was
   refused can be cut. *)
Armed ==
  waits => /\ armed => reviewed = candidate
           /\ cutOn => refused = None

PublishInductive ==
  Cut!PublishInvariant /\ CallsFit /\ OneAtATime /\ CandidateShown /\ Armed

-----------------------------------------------------------------------------
(* The steps, one request at a time. *)

LEMMA InitHolds == Cut!Init => PublishInductive
<1> SUFFICES ASSUME Cut!Init PROVE PublishInductive
  OBVIOUS
<1>1. releases \in Seq(Content) /\ Len(releases) = 0
  BY DEF Cut!Init
<1>2. Cut!TypeOK
  <2>1. 0 \in Nat
    OBVIOUS
  <2>2. sent \in [Slot -> Cut!Call \cup {None}]
    BY DEF Cut!Init
  <2> QED BY <1>1, <2>1, <2>2 DEF Cut!Init, Cut!TypeOK, Cut!Candidate
<1>3. Cut!ReviewCoherent /\ CandidateShown /\ Armed
  BY DEF Cut!Init, Cut!ReviewCoherent, CandidateShown, Armed
<1>4. CallsFit /\ OneAtATime
  BY DEF Cut!Init, CallsFit, OneAtATime, Awaits
<1> QED BY <1>2, <1>3, <1>4 DEF PublishInductive, Cut!PublishInvariant

(* A step of one handler that starts, ends or changes its request: the other
   requests still go with the view, because it stays or because none of them
   is awaited. *)
LEMMA RequestKeeps ==
  ASSUME Cut!TypeOK, CallsFit, OneAtATime, NEW s \in Slot,
         NEW c \in Cut!Call \cup {None}, sent' = [sent EXCEPT ![s] = c],
         waits' = waits, seen \subseteq seen',
         c # None => Fits(c)',
         waits => \/ Awaits(s) \/ Cut!Quiet
                  \/ UNCHANGED <<candidate, armed, cutOn, preview, diff, box, refused>>,
         waits /\ c # None /\ c.awaited => Awaits(s) \/ Cut!Quiet
  PROVE  sent' \in [Slot -> Cut!Call \cup {None}] /\ CallsFit' /\ OneAtATime'
<1>1. sent'[s] = c /\ \A t \in Slot \ {s} : sent'[t] = sent[t]
  BY DEF Cut!TypeOK
<1>2. ASSUME NEW t \in Slot \ {s}, NEW d, d = sent[t], d # None PROVE Fits(d)'
  <2>1. Fits(d)
    BY <1>2 DEF CallsFit
  <2>2. CASE ~d.awaited
    BY <2>1, <2>2 DEF Fits
  <2>3. CASE d.awaited
    <3>1. ~Cut!Quiet /\ (waits /\ Awaits(s) => t = s)
      BY <1>2, <2>3 DEF Cut!Quiet, OneAtATime, Awaits
    <3>2. waits => UNCHANGED <<candidate, armed, cutOn, preview, diff, box, refused>>
      BY <3>1
    <3> QED BY <2>1, <3>2 DEF Fits, Blank
  <2> QED BY <2>2, <2>3
<1>3. CallsFit'
  <2>1. SUFFICES ASSUME NEW t \in Slot, sent'[t] # None PROVE Fits(sent[t])'
    BY DEF CallsFit
  <2>2. PICK d : d = sent'[t]
    OBVIOUS
  <2>3. Fits(d)'
    BY <1>1, <1>2, <2>1, <2>2
  <2> QED BY <2>2, <2>3 DEF Fits
<1>4. OneAtATime'
  BY <1>1 DEF OneAtATime, Awaits, Cut!Quiet
<1> QED BY <1>3, <1>4 DEF Cut!TypeOK

(* A step that leaves the view as it is. *)
LEMMA ViewStays ==
  ASSUME PublishInductive, NEW s \in Slot,
         NEW c \in Cut!Call \cup {None}, sent' = [sent EXCEPT ![s] = c],
         UNCHANGED <<waits, Cut!panes, Cut!history, active, edits>>,
         releases' \in Seq(Content),
         c # None => Fits(c),
         waits /\ c # None /\ c.awaited => Awaits(s) \/ Cut!Quiet
  PROVE  PublishInductive'
<1> USE DEF PublishInductive, Cut!PublishInvariant, Cut!panes, Cut!history
<1>1. c # None => Fits(c)'
  BY DEF Fits, Blank
<1>2. sent' \in [Slot -> Cut!Call \cup {None}] /\ CallsFit' /\ OneAtATime'
  BY <1>1, RequestKeeps
<1>3. Cut!TypeOK'
  BY <1>2 DEF Cut!TypeOK
<1>4. Cut!ReviewCoherent' /\ CandidateShown' /\ Armed'
  BY DEF Cut!ReviewCoherent, CandidateShown, Armed
<1> QED BY <1>2, <1>3, <1>4

(* The answer of the server to a read. *)
LEMMA ReadKeeps ==
  ASSUME PublishInductive, waits' = waits, NEW s \in Slot,
         Cut!ServeCurrent(s) \/ Cut!ServePreview(s) \/ Cut!ServeContent(s)
  PROVE  PublishInductive'
<1> USE DEF PublishInductive, Cut!PublishInvariant
<1>1. /\ sent[s] \in Cut!Call /\ sent[s] # None /\ Fits(sent[s]) /\ sent[s].step # "cut"
      /\ sent[s].awaited
  BY DEF Cut!TypeOK, CallsFit, Cut!ServeCurrent, Cut!ServePreview, Cut!ServeContent,
         Cut!Waits, Fits
<1>2. /\ active \in Cut!Candidate /\ Len(releases) \in Nat
      /\ releases \in Seq(Content)
  BY LenProperties DEF Cut!TypeOK
<1>3. PICK c \in Cut!Call :
        /\ sent' = [sent EXCEPT ![s] = c]
        /\ c.step = sent[s].step /\ c.awaited = sent[s].awaited /\ c.of = sent[s].of
  <2>1. CASE Cut!ServeCurrent(s)
    <3> DEFINE c == [sent[s] EXCEPT !.served = TRUE, !.release = Len(releases)]
    <3>1. c \in Cut!Call /\ c.step = sent[s].step /\ c.awaited = sent[s].awaited /\ c.of = sent[s].of
      BY <1>1, <1>2 DEF Cut!Call
    <3> QED BY <2>1, <3>1 DEF Cut!ServeCurrent
  <2>2. CASE Cut!ServePreview(s)
    <3> DEFINE c == [sent[s] EXCEPT !.served = TRUE, !.content = active]
    <3>1. c \in Cut!Call /\ c.step = sent[s].step /\ c.awaited = sent[s].awaited /\ c.of = sent[s].of
      BY <1>1, <1>2 DEF Cut!Call
    <3> QED BY <2>2, <3>1 DEF Cut!ServePreview
  <2>3. CASE Cut!ServeContent(s)
    <3> DEFINE c == [sent[s] EXCEPT !.served = TRUE]
    <3>1. c \in Cut!Call /\ c.step = sent[s].step /\ c.awaited = sent[s].awaited /\ c.of = sent[s].of
      BY <1>1, <1>2 DEF Cut!Call
    <3> QED BY <2>3, <3>1 DEF Cut!ServeContent
  <2> QED BY <2>1, <2>2, <2>3
<1>4. Fits(c) /\ Awaits(s)
  BY <1>1, <1>3 DEF Fits, Awaits
<1>5. UNCHANGED <<waits, Cut!server, Cut!panes, Cut!history>>
  BY DEF Cut!ServeCurrent, Cut!ServePreview, Cut!ServeContent
<1>6. UNCHANGED <<waits, Cut!panes, Cut!history, active, edits>> /\ releases' = releases
  BY <1>5 DEF Cut!server
<1> QED BY <1>2, <1>3, <1>4, <1>6, ViewStays

LEMMA RequestFacts ==
  ASSUME NEW step \in {"current", "preview", "content", "cut"}
  PROVE  /\ Cut!Request(step) \in Cut!Call /\ Cut!Request(step).step = step /\ Cut!Request(step).awaited
         /\ Cut!Request(step).content = None /\ Cut!Request(step).reviewed = None
BY DEF Cut!Request, Cut!Call, Cut!Candidate

(* A cut appends what the expected hash names, if it was shown. *)
LEMMA ServeCutKeeps ==
  ASSUME PublishInductive, waits' = waits, NEW s \in Slot, Cut!ServeCut(s)
  PROVE  PublishInductive'
<1> USE DEF PublishInductive, Cut!PublishInvariant
<1>1. sent[s] \in Cut!Call /\ sent[s] # None /\ Fits(sent[s]) /\ sent[s].step = "cut"
  BY DEF Cut!TypeOK, CallsFit, Cut!ServeCut, Cut!Waits
<1>2. PICK c \in Cut!Call \cup {None} :
        /\ sent' = [sent EXCEPT ![s] = c]
        /\ c # None => /\ c.step = "cut" /\ c.awaited /\ sent[s].awaited
                       /\ c.content = sent[s].content /\ c.reviewed = sent[s].reviewed
  <2>1. CASE ~sent[s].awaited
    BY <2>1 DEF Cut!ServeCut
  <2>2. CASE sent[s].awaited
    <3> DEFINE c == [sent[s] EXCEPT !.served = TRUE, !.ok = Cut!Cuts(s), !.lint = (active = None)]
    <3>1. Cut!Cuts(s) \in BOOLEAN
      BY DEF Cut!Cuts
    <3>2. /\ c \in Cut!Call /\ c.step = "cut" /\ c.awaited = sent[s].awaited
          /\ c.content = sent[s].content /\ c.reviewed = sent[s].reviewed
      BY <1>1, <3>1 DEF Cut!Call
    <3>3. sent' = [sent EXCEPT ![s] = c]
      BY <2>2 DEF Cut!ServeCut
    <3> HIDE DEF c
    <3> QED BY <2>2, <3>2, <3>3
  <2> QED BY <2>1, <2>2
<1>3. c # None => Fits(c) /\ Awaits(s)
  BY <1>1, <1>2 DEF Fits, Awaits
<1>4. releases' \in Seq(Content)
  <2>1. CASE Cut!Cuts(s)
    <3>1. active \in Content /\ releases' = Append(releases, active) /\ Len(releases) < MaxRelease
      BY <2>1 DEF Cut!ServeCut, Cut!Cuts, Cut!TypeOK, Cut!Candidate
    <3> QED BY <3>1, AppendProperties, LenProperties DEF Cut!TypeOK
  <2>2. CASE ~Cut!Cuts(s)
    BY <2>2 DEF Cut!ServeCut, Cut!TypeOK
  <2> QED BY <2>1, <2>2
<1>5. UNCHANGED <<waits, Cut!panes, Cut!history, active, edits>>
  BY DEF Cut!ServeCut
<1> QED BY <1>2, <1>3, <1>4, <1>5, ViewStays

(* Other editors change what a cut would release, not what the page shows. *)
LEMMA OthersKeep ==
  ASSUME PublishInductive, waits' = waits, Cut!Others
  PROVE  PublishInductive'
<1> USE DEF PublishInductive, Cut!PublishInvariant
<1>1. ASSUME NEW c \in Cut!Candidate, Cut!Edited(c) PROVE PublishInductive'
  <2>1. /\ UNCHANGED <<releases, Cut!panes, sent, seen, reviewed>>
        /\ active' \in Cut!Candidate /\ edits' \in Nat /\ refused' \in {refused, None}
    BY <1>1 DEF Cut!Edited, Cut!TypeOK
  <2>2. Cut!TypeOK'
    BY <2>1 DEF Cut!TypeOK, Cut!panes, Cut!Candidate
  <2>3. \A x : Fits(x) => Fits(x)'
    BY <2>1 DEF Fits, Blank, Cut!panes
  <2>4. CallsFit'
    BY <2>1, <2>3 DEF CallsFit, Fits, Cut!panes
  <2>5. OneAtATime' /\ Cut!ReviewCoherent' /\ CandidateShown' /\ Armed'
    BY <2>1 DEF OneAtATime, Awaits, Cut!ReviewCoherent, CandidateShown, Armed, Cut!panes
  <2> QED BY <2>2, <2>4, <2>5
<1>2. CASE Cut!CutElsewhere
  <2>1. UNCHANGED <<active, edits, Cut!panes, sent, Cut!history>> /\ active \in Content
    BY <1>2 DEF Cut!CutElsewhere, Cut!TypeOK, Cut!Candidate
  <2>2. releases' \in Seq(Content)
    BY <1>2, <2>1, AppendProperties, LenProperties DEF Cut!CutElsewhere, Cut!TypeOK
  <2>3. Cut!TypeOK'
    BY <2>1, <2>2 DEF Cut!TypeOK, Cut!panes, Cut!history
  <2>4. CallsFit'
    BY <2>1 DEF CallsFit, Fits, Blank, Cut!panes, Cut!history
  <2>5. OneAtATime' /\ Cut!ReviewCoherent' /\ CandidateShown' /\ Armed'
    BY <2>1 DEF OneAtATime, Awaits, Cut!ReviewCoherent, CandidateShown, Armed,
                Cut!panes, Cut!history
  <2> QED BY <2>3, <2>4, <2>5
<1> QED BY <1>1, <1>2 DEF Cut!Others

-----------------------------------------------------------------------------
(* The steps of the page. *)

(* A refresh blanks the view, whoever asked for it. *)
LEMMA RefreshKeeps ==
  ASSUME PublishInductive, waits' = waits, NEW s \in Slot, Cut!RefreshPublish(s),
         waits => Awaits(s) \/ Cut!Quiet
  PROVE  PublishInductive'
<1> USE DEF PublishInductive, Cut!PublishInvariant, Cut!RefreshPublish
<1>1. PICK c \in Cut!Call : c = Cut!Request("current")
  BY RequestFacts
<1>2. c.step = "current" /\ c.awaited
  BY <1>1, RequestFacts
<1>3. Fits(c)'
  BY <1>2 DEF Fits, Blank
<1>4. sent' \in [Slot -> Cut!Call \cup {None}] /\ CallsFit' /\ OneAtATime'
  <2>1. sent' = [sent EXCEPT ![s] = c] /\ seen \subseteq seen'
    BY <1>1
  <2> QED BY <1>3, <2>1, RequestKeeps
<1>5. Cut!TypeOK'
  <2>1. 0 \in Nat /\ None \in Cut!Candidate
    BY DEF Cut!Candidate
  <2>2. /\ published' \in Nat /\ candidate' \in Cut!Candidate /\ preview' \in Cut!Candidate
        /\ refused' \in Cut!Candidate /\ armed' \in BOOLEAN /\ cutOn' \in BOOLEAN
        /\ diff' \in Cut!Diff \cup {None} /\ box' \in Cut!Diff \cup {None}
    BY <2>1
  <2> QED BY <1>4, <2>2 DEF Cut!TypeOK, Cut!server
<1>6. Cut!ReviewCoherent' /\ CandidateShown' /\ Armed'
  BY DEF Cut!ReviewCoherent, CandidateShown, Armed
<1> QED BY <1>4, <1>5, <1>6

(* refreshPublish goes on to the preview, with the current release or
   without. *)
LEMMA CurrentKeeps ==
  ASSUME PublishInductive, waits' = waits, NEW s \in Slot,
         Cut!CurrentArrives(s) \/ Cut!CurrentFails(s)
  PROVE  PublishInductive'
<1> USE DEF PublishInductive, Cut!PublishInvariant
<1>1. sent[s] \in Cut!Call /\ sent[s] # None /\ Fits(sent[s]) /\ sent[s].step = "current"
      /\ sent[s].awaited
  BY DEF Cut!TypeOK, CallsFit, Cut!CurrentArrives, Cut!CurrentFails, Cut!Answered, Fits
<1>2. /\ sent' = [sent EXCEPT ![s] = Cut!Request("preview")]
      /\ UNCHANGED <<Cut!server, candidate, armed, cutOn, preview, diff, box, Cut!history>>
      /\ published' \in Nat
  BY <1>1 DEF Cut!CurrentArrives, Cut!CurrentFails, Cut!panes, Cut!TypeOK, Cut!Call
<1>3. PICK c \in Cut!Call : c = Cut!Request("preview")
  BY RequestFacts
<1>4. c.step = "preview" /\ c.awaited
  BY <1>3, RequestFacts
<1>5. Fits(c)' /\ Awaits(s) /\ (waits => ~cutOn)
  BY <1>1, <1>2, <1>4 DEF Fits, Blank, Awaits, Cut!history
<1>6. sent' \in [Slot -> Cut!Call \cup {None}] /\ CallsFit' /\ OneAtATime'
  BY <1>2, <1>3, <1>5, RequestKeeps DEF Cut!history
<1>7. Cut!TypeOK'
  BY <1>2, <1>6 DEF Cut!TypeOK, Cut!server, Cut!history
<1>8. Cut!ReviewCoherent' /\ CandidateShown' /\ Armed'
  BY <1>2, <1>5 DEF Cut!ReviewCoherent, CandidateShown, Armed, Cut!history
<1> QED BY <1>6, <1>7, <1>8

(* The end of refreshPublish: what is displayed is of one preview. *)
LEMMA PreviewKeeps ==
  ASSUME PublishInductive, waits' = waits, NEW s \in Slot,
         Cut!PreviewArrives(s) \/ Cut!PreviewFails(s)
  PROVE  PublishInductive'
<1> USE DEF PublishInductive, Cut!PublishInvariant
<1>1. sent[s] \in Cut!Call /\ sent[s] # None /\ Fits(sent[s]) /\ sent[s].step = "preview"
      /\ sent[s].awaited
  BY DEF Cut!TypeOK, CallsFit, Cut!PreviewArrives, Cut!PreviewFails, Cut!Answered, Fits
<1>2. Awaits(s) /\ (waits => Blank)
  BY <1>1 DEF Awaits, Fits
<1>3. /\ sent' = [sent EXCEPT ![s] = None]
      /\ UNCHANGED <<Cut!server, published, armed, box, reviewed, refused>>
      /\ diff' = [old |-> published, new |-> candidate'] /\ cutOn' = (candidate' # None)
      /\ preview' \in Cut!Candidate /\ candidate' \in Cut!Candidate /\ seen' \subseteq Content
      /\ seen \subseteq seen' /\ candidate' \in seen' \cup {None}
      /\ waits => preview' = candidate'
  <2>1. CASE Cut!PreviewArrives(s)
    <3>1. sent[s].content \in Cut!Candidate
      BY <1>1 DEF Cut!Call
    <3> QED BY <2>1, <3>1 DEF Cut!PreviewArrives, Cut!Ends, Cut!Rendered, Cut!TypeOK,
                              Cut!Candidate
  <2>2. CASE Cut!PreviewFails(s)
    BY <1>2, <2>2 DEF Cut!PreviewFails, Cut!Ends, Cut!Rendered, Cut!TypeOK,
                      Cut!Candidate, CandidateShown, Cut!history,
                      Blank
  <2> QED BY <2>1, <2>2
<1>4. sent' \in [Slot -> Cut!Call \cup {None}] /\ CallsFit' /\ OneAtATime'
  BY <1>2, <1>3, RequestKeeps
<1>5. Cut!TypeOK'
  <2>1. diff' \in Cut!Diff
    BY <1>3 DEF Cut!TypeOK, Cut!Diff
  <2> QED BY <1>3, <1>4, <2>1 DEF Cut!TypeOK, Cut!server
<1>6. Cut!ReviewCoherent' /\ CandidateShown' /\ Armed'
  BY <1>2, <1>3 DEF Cut!ReviewCoherent, CandidateShown, Armed, Blank
<1> QED BY <1>4, <1>5, <1>6

(* The answer to a cut: a refresh, or a view in which nothing can be cut. *)
LEMMA CutArrivesKeeps ==
  ASSUME PublishInductive, waits' = waits, NEW s \in Slot, Cut!CutArrives(s)
  PROVE  PublishInductive'
<1>1. sent[s] \in Cut!Call /\ sent[s] # None /\ Awaits(s)
  BY DEF PublishInductive, Cut!PublishInvariant, Cut!TypeOK, Cut!CutArrives,
         Cut!Answered, Awaits
<1>2. CASE sent[s].ok
  BY <1>1, <1>2, RefreshKeeps DEF Cut!CutArrives
<1>3. CASE ~sent[s].ok
  <2> USE DEF PublishInductive, Cut!PublishInvariant
  <2>1. /\ sent' = [sent EXCEPT ![s] = None]
        /\ armed' = FALSE /\ candidate' = None /\ cutOn' = FALSE
        /\ refused' \in Cut!Candidate
        /\ UNCHANGED <<Cut!server, published, preview, diff, box, seen, reviewed>>
    BY <1>1, <1>3 DEF Cut!CutArrives, Cut!Ends, Cut!Call, Cut!TypeOK
  <2>2. sent' \in [Slot -> Cut!Call \cup {None}] /\ CallsFit' /\ OneAtATime'
    BY <1>1, <2>1, RequestKeeps
  <2>3. Cut!TypeOK'
    BY <2>1, <2>2 DEF Cut!TypeOK, Cut!server, Cut!Candidate
  <2>4. Cut!ReviewCoherent' /\ CandidateShown' /\ Armed'
    BY <2>1 DEF Cut!ReviewCoherent, CandidateShown, Armed
  <2> QED BY <2>2, <2>3, <2>4
<1> QED BY <1>2, <1>3

(* The content diff: of an entry of the manifest diff that was clicked. *)
LEMMA ContentKeeps ==
  ASSUME PublishInductive, waits' = waits, NEW s \in Slot,
         Cut!ContentArrives(s) \/ Cut!ContentFails(s)
  PROVE  PublishInductive'
<1> USE DEF PublishInductive, Cut!PublishInvariant
<1>1. sent[s] \in Cut!Call /\ sent[s] # None /\ Fits(sent[s]) /\ sent[s].step = "content"
      /\ sent[s].awaited
  BY DEF Cut!TypeOK, CallsFit, Cut!ContentArrives, Cut!ContentFails, Cut!Answered, Fits
<1>2. Awaits(s) /\ (waits => sent[s].of = diff)
  BY <1>1 DEF Awaits, Fits
<1>3. /\ sent' = [sent EXCEPT ![s] = None]
      /\ UNCHANGED <<Cut!server, published, candidate, armed, cutOn, preview, diff, Cut!history>>
      /\ box' \in {None, sent[s].of}
  BY DEF Cut!ContentArrives, Cut!ContentFails, Cut!Ends
<1>4. sent' \in [Slot -> Cut!Call \cup {None}] /\ CallsFit' /\ OneAtATime'
  BY <1>2, <1>3, RequestKeeps DEF Cut!history
<1>5. Cut!TypeOK'
  <2>1. box' \in Cut!Diff \cup {None}
    BY <1>1, <1>3 DEF Cut!Call
  <2> QED BY <1>3, <1>4, <2>1 DEF Cut!TypeOK, Cut!server, Cut!history
<1>6. Cut!ReviewCoherent' /\ CandidateShown' /\ Armed'
  BY <1>2, <1>3 DEF Cut!ReviewCoherent, CandidateShown, Armed, Cut!history
<1> QED BY <1>4, <1>5, <1>6

(* A request that ends, or that nobody awaits any more. *)
LEMMA EndsKeeps ==
  ASSUME PublishInductive, waits' = waits, NEW s \in Slot,
         Cut!CutFails(s) \/ Cut!CutLost(s) \/ Cut!Rejected(s)
  PROVE  PublishInductive'
<1> USE DEF PublishInductive, Cut!PublishInvariant
<1>1. sent[s] \in Cut!Call /\ sent[s] # None /\ Fits(sent[s])
  BY DEF Cut!TypeOK, CallsFit, Cut!CutFails, Cut!CutLost, Cut!Rejected
<1>2. releases \in Seq(Content)
      /\ UNCHANGED <<waits, Cut!panes, Cut!history, active, edits, releases>>
  BY DEF Cut!TypeOK, Cut!CutFails, Cut!CutLost, Cut!Rejected, Cut!server
<1>3. CASE sent' = [sent EXCEPT ![s] = None]
  BY <1>2, <1>3, ViewStays
<1>4. CASE Cut!CutFails(s) /\ ~sent[s].served /\ sent' = [sent EXCEPT ![s].awaited = FALSE]
  <2>1. PICK c \in Cut!Call : c = [sent[s] EXCEPT !.awaited = FALSE]
    BY <1>1 DEF Cut!Call
  <2>2. /\ c.step = "cut" /\ ~c.served /\ ~c.awaited
        /\ c.content = sent[s].content /\ c.reviewed = sent[s].reviewed
    BY <1>1, <1>4, <2>1 DEF Cut!CutFails, Cut!Call
  <2>3. Fits(c)
    BY <1>1, <1>4, <2>2 DEF Fits, Cut!CutFails
  <2>4. sent' = [sent EXCEPT ![s] = c]
    BY <1>4, <2>1
  <2> QED BY <1>2, <2>2, <2>3, <2>4, ViewStays
<1> QED BY <1>3, <1>4 DEF Cut!CutFails, Cut!CutLost, Cut!Rejected, Cut!Ends

-----------------------------------------------------------------------------
(* The operator. *)

(* A cut carries the candidate, and to the operator who waits that is what he
   reviewed. *)
LEMMA ConfirmKeeps ==
  ASSUME PublishInductive, waits' = waits, NEW s \in Slot, Cut!ConfirmPublishCut(s),
         waits => Cut!Quiet
  PROVE  PublishInductive'
<1> USE DEF PublishInductive, Cut!PublishInvariant
<1>1. releases \in Seq(Content)
      /\ UNCHANGED <<waits, Cut!panes, Cut!history, active, edits, releases>>
  BY DEF Cut!TypeOK, Cut!ConfirmPublishCut, Cut!server
<1>2. PICK c \in Cut!Call :
        /\ c = [Cut!Request("cut") EXCEPT !.content = candidate, !.reviewed = reviewed]
        /\ c.step = "cut" /\ c.awaited /\ c.content = candidate /\ c.reviewed = reviewed
  <2>1. PICK r \in Cut!Call : r = Cut!Request("cut") /\ r.step = "cut" /\ r.awaited
    BY RequestFacts
  <2>2. candidate \in Cut!Candidate /\ reviewed \in Cut!Candidate
    BY DEF Cut!TypeOK
  <2> DEFINE request == [r EXCEPT !.content = candidate, !.reviewed = reviewed]
  <2>3. /\ request \in Cut!Call /\ request.step = "cut" /\ request.awaited
        /\ request.content = candidate /\ request.reviewed = reviewed
    BY <2>1, <2>2 DEF Cut!Call
  <2>4. request = [Cut!Request("cut") EXCEPT !.content = candidate, !.reviewed = reviewed]
    BY <2>1
  <2> HIDE DEF request
  <2> QED BY <2>3, <2>4
<1>3. Fits(c)
  BY <1>2 DEF Fits, CandidateShown, Armed, Cut!ConfirmPublishCut
<1>4. sent' = [sent EXCEPT ![s] = c]
  BY <1>2 DEF Cut!ConfirmPublishCut
<1> QED BY <1>1, <1>3, <1>4, ViewStays

LEMMA ShowKeeps ==
  ASSUME PublishInductive, waits' = waits, NEW s \in Slot, Cut!ShowContent(s),
         waits => Cut!Quiet
  PROVE  PublishInductive'
<1> USE DEF PublishInductive, Cut!PublishInvariant
<1>1. releases \in Seq(Content)
      /\ UNCHANGED <<waits, Cut!panes, Cut!history, active, edits, releases>>
  BY DEF Cut!TypeOK, Cut!ShowContent, Cut!server
<1>2. PICK c \in Cut!Call :
        /\ c = [Cut!Request("content") EXCEPT !.of = diff]
        /\ c.step = "content" /\ c.awaited /\ c.of = diff
  <2>1. PICK r \in Cut!Call : r = Cut!Request("content") /\ r.step = "content" /\ r.awaited
    BY RequestFacts
  <2>2. diff \in Cut!Diff \cup {None}
    BY DEF Cut!TypeOK
  <2> DEFINE request == [r EXCEPT !.of = diff]
  <2>3. request \in Cut!Call /\ request.step = "content" /\ request.awaited /\ request.of = diff
    BY <2>1, <2>2 DEF Cut!Call
  <2>4. request = [Cut!Request("content") EXCEPT !.of = diff]
    BY <2>1
  <2> HIDE DEF request
  <2> QED BY <2>3, <2>4
<1>3. Fits(c)
  BY <1>2 DEF Fits
<1>4. sent' = [sent EXCEPT ![s] = c]
  BY <1>2 DEF Cut!ShowContent
<1> QED BY <1>1, <1>3, <1>4, ViewStays

(* Cut arms what the pane shows, Cancel disarms. *)
LEMMA ArmKeeps ==
  ASSUME PublishInductive, waits' = waits, Cut!ArmPublishCut \/ Cut!CancelPublishCut,
         waits => Cut!Quiet
  PROVE  PublishInductive'
<1> USE DEF PublishInductive, Cut!PublishInvariant
<1>1. /\ UNCHANGED <<Cut!server, published, candidate, cutOn, preview, diff, box, sent, seen, refused>>
      /\ armed' \in BOOLEAN /\ reviewed' \in Cut!Candidate
      /\ waits /\ armed' => reviewed' = candidate
  BY DEF Cut!ArmPublishCut, Cut!CancelPublishCut, Cut!TypeOK, Cut!history,
         Cut!ReviewCoherent
<1>2. Cut!TypeOK'
  BY <1>1 DEF Cut!TypeOK, Cut!server
<1>3. ASSUME NEW s \in Slot, NEW c, c = sent[s], c # None PROVE Fits(c)'
  <2>1. Fits(c) /\ (waits => ~c.awaited)
    BY <1>3 DEF CallsFit, Cut!Quiet
  <2> QED BY <1>1, <2>1 DEF Fits
<1>4. CallsFit'
  BY <1>1, <1>3 DEF CallsFit, Fits
<1>5. OneAtATime' /\ Cut!ReviewCoherent' /\ CandidateShown' /\ Armed'
  BY <1>1 DEF OneAtATime, Awaits, Cut!ReviewCoherent, CandidateShown, Armed
<1> QED BY <1>2, <1>4, <1>5

LEMMA NextKeeps == PublishInductive /\ [Cut!Next]_(Cut!vars) => PublishInductive'
<1> SUFFICES ASSUME PublishInductive, [Cut!Next]_(Cut!vars) PROVE PublishInductive'
  OBVIOUS
<1>1. CASE Cut!Next
  <2>1. waits' = waits
    BY <1>1 DEF Cut!Next
  <2>2. CASE Cut!Others
    BY <2>1, <2>2, OthersKeep
  <2>3. ASSUME NEW s \in Slot, Cut!Answer(s) PROVE PublishInductive'
    BY <2>1, <2>3, ReadKeeps, ServeCutKeeps, CurrentKeeps, PreviewKeeps, CutArrivesKeeps,
       ContentKeeps, EndsKeeps DEF Cut!Answer
  <2>4. ASSUME NEW s \in Slot, Cut!Operator(s), waits => Cut!Quiet PROVE PublishInductive'
    BY <2>1, <2>4, RefreshKeeps, ConfirmKeeps, ShowKeeps DEF Cut!Operator, Cut!Click
  <2>5. CASE (Cut!ArmPublishCut \/ Cut!CancelPublishCut) /\ (waits => Cut!Quiet)
    BY <2>1, <2>5, ArmKeeps
  <2> QED BY <1>1, <2>2, <2>3, <2>4, <2>5 DEF Cut!Next
<1>2. CASE UNCHANGED Cut!vars
  <2>1. UNCHANGED <<waits, Cut!panes, sent, Cut!history, Cut!server>>
    BY <1>2 DEF Cut!vars
  <2>2. Cut!TypeOK' /\ OneAtATime' /\ Cut!ReviewCoherent' /\ CandidateShown' /\ Armed'
    BY <2>1 DEF PublishInductive, Cut!PublishInvariant, Cut!TypeOK, OneAtATime, Awaits,
                Cut!ReviewCoherent,
                CandidateShown, Armed, Cut!panes, Cut!history, Cut!server
  <2>3. CallsFit'
    BY <2>1 DEF PublishInductive, CallsFit, Fits, Blank, Cut!panes, Cut!history
  <2> QED BY <2>2, <2>3 DEF PublishInductive, Cut!PublishInvariant
<1> QED BY <1>1, <1>2

LEMMA InductiveAlways == Cut!Spec => []PublishInductive
<1>1. Cut!Init => PublishInductive
  BY InitHolds
<1>2. PublishInductive /\ [Cut!Next]_(Cut!vars) => PublishInductive'
  BY NextKeeps
<1> QED BY <1>1, <1>2, PTL DEF Cut!Spec

-----------------------------------------------------------------------------
(* What refreshPublish and the cut promise. *)

(* What an operator who waits looks at when Cut can be clicked belongs
   together, for any number of other editors, cuts and errors. *)
THEOREM ReviewsWhatBelongsTogether == Cut!Spec => []PublishInvariant
<1>1. PublishInductive => PublishInvariant
  BY DEF PublishInductive, PublishInvariant
<1> QED BY <1>1, InductiveAlways, PTL

(* The step in which a cut of the page is served is that of its own request,
   whose expected hash was that of what is released. *)
LEMMA CutServedFacts ==
  ASSUME PublishInductive, Cut!Next, NEW s \in Slot, Cut!CutServed(s)
  PROVE  /\ active # None /\ sent[s].content = active /\ Fits(sent[s])
         /\ sent[s].step = "cut"
<1>1. sent[s] # None /\ sent[s].step = "cut" /\ Fits(sent[s])
  BY DEF Cut!CutServed, Cut!Waits, PublishInductive, CallsFit
<1>2. Cut!ServeCut(s) /\ Cut!Cuts(s)
  <2>1. ASSUME NEW t \in Slot, Cut!ServeCut(t) PROVE t = s
    <3>1. sent' = [sent EXCEPT ![t] = sent'[t]]
      BY <2>1 DEF Cut!ServeCut, PublishInductive, Cut!PublishInvariant, Cut!TypeOK
    <3> QED BY <3>1 DEF Cut!CutServed, PublishInductive, Cut!PublishInvariant,
                        Cut!TypeOK
  <2>2. ~Cut!CutElsewhere
    BY DEF Cut!CutServed, Cut!CutElsewhere
  <2>3. releases' # releases
    BY DEF Cut!CutServed
  <2>4. \E t \in Slot : Cut!ServeCut(t)
    BY <2>2, <2>3
       DEF Cut!Next, Cut!Others, Cut!Edited, Cut!Answer, Cut!ServeCurrent,
           Cut!ServePreview, Cut!ServeContent,
           Cut!CurrentArrives, Cut!PreviewArrives, Cut!CutArrives, Cut!ContentArrives,
           Cut!CurrentFails,
           Cut!PreviewFails, Cut!CutFails, Cut!ContentFails, Cut!CutLost, Cut!Rejected,
           Cut!Operator, Cut!Click,
           Cut!RefreshPublish, Cut!ConfirmPublishCut, Cut!ShowContent,
           Cut!ArmPublishCut, Cut!CancelPublishCut,
           Cut!server
  <2> QED BY <2>1, <2>3, <2>4 DEF Cut!ServeCut
<1> QED BY <1>1, <1>2 DEF Cut!Cuts

(* The page never releases content its preview pane has not shown, however
   many other editors there are and however often a cut is sent again. *)
THEOREM CutsWhatWasShown == Cut!Spec => CutWasShown
<1> DEFINE Shown == \A s \in Slot : Cut!CutServed(s) => active \in seen
<1>1. PublishInductive /\ [Cut!Next]_(Cut!vars) => [Shown]_(Cut!vars)
  BY CutServedFacts DEF Fits
<1> QED BY <1>1, InductiveAlways, PTL DEF CutWasShown, Cut!CutWasShown, Cut!Spec

(* An operator who waits releases exactly what the pane showed when he clicked
   Cut, even when the server gets to the request after he has given up. *)
THEOREM CutsWhatWasReviewed == Cut!Spec => CutAsReviewed
<1> DEFINE Reviewed == \A s \in Slot : waits /\ Cut!CutServed(s) => active = sent[s].reviewed
<1>1. PublishInductive /\ [Cut!Next]_(Cut!vars) => [Reviewed]_(Cut!vars)
  BY CutServedFacts DEF Fits
<1> QED BY <1>1, InductiveAlways, PTL DEF CutAsReviewed, Cut!CutAsReviewed, Cut!Spec

(* For an operator who waits a refused candidate cannot be cut again before a
   refresh, as the comment of confirmPublishCut has it: what breaks it is a
   handler that overlaps another one. *)
THEOREM WaitingKeepsCutDisabled == Cut!Spec => [](waits => Cut!DisabledUntilRefresh)
<1>1. PublishInductive => (waits => Cut!DisabledUntilRefresh)
  BY DEF PublishInductive, Armed, Cut!DisabledUntilRefresh
<1> QED BY <1>1, InductiveAlways, PTL

-----------------------------------------------------------------------------
(* The manifest diff. *)

(* After any number of entries, manifestDiff has sorted those it has looked
   at. *)
Sorted ==
  /\ old \in Manifests!Manifest /\ new \in Manifests!Manifest
  /\ newLeft \subseteq DOMAIN new /\ oldLeft \subseteq DOMAIN old
  /\ added = {p \in DOMAIN new \ newLeft : p \notin DOMAIN old}
  /\ changed = {p \in DOMAIN new \ newLeft : p \in DOMAIN old /\ Manifests!Differs(p)}
  /\ removed = {p \in DOMAIN old \ oldLeft : p \notin DOMAIN new}

LEMMA SortedAlways == Manifests!Spec => []Sorted
<1>1. Manifests!Init => Sorted
  BY DEF Manifests!Init, Sorted
<1>2. Sorted /\ [Manifests!Next]_(Manifests!vars) => Sorted'
  <2> SUFFICES ASSUME Sorted, [Manifests!Next]_(Manifests!vars) PROVE Sorted'
    OBVIOUS
  <2>1. ASSUME NEW p \in Path, Manifests!LookAtNew(p) PROVE Sorted'
    BY <2>1 DEF Manifests!LookAtNew, Sorted, Manifests!Differs
  <2>2. ASSUME NEW p \in Path, Manifests!LookAtOld(p) PROVE Sorted'
    BY <2>2 DEF Manifests!LookAtOld, Sorted, Manifests!Differs
  <2>3. CASE UNCHANGED Manifests!vars
    BY <2>3 DEF Manifests!vars, Sorted, Manifests!Differs
  <2> QED BY <2>1, <2>2, <2>3 DEF Manifests!Next
<1> QED BY <1>1, <1>2, PTL DEF Manifests!Spec

(* The list the view draws tells everything that happens to a host that moves
   from the current release to the candidate, and lists no entry that is the
   same in both, for manifests of any size. *)
THEOREM ListTellsWhatHostsGet == Manifests!Spec => []TellsWhatHostsGet
<1>1. Sorted => TellsWhatHostsGet
  <2> SUFFICES ASSUME Sorted, Manifests!Done PROVE TellsWhatHostsGet
    BY DEF TellsWhatHostsGet, Manifests!TellsWhatHostsGet
  <2> DEFINE keeps == DOMAIN old \ (removed \cup changed)
             kept == Manifests!Restrict(Manifests!Tree(old), keeps)
             put == Manifests!Restrict(Manifests!Tree(new), added \cup changed)
             moved == [p \in DOMAIN kept \cup DOMAIN put |->
                         IF p \in DOMAIN put THEN put[p] ELSE kept[p]]
  <2>1. /\ newLeft = {} /\ oldLeft = {}
        /\ added = DOMAIN new \ DOMAIN old /\ removed = DOMAIN old \ DOMAIN new
        /\ changed \subseteq DOMAIN new \cap DOMAIN old
        /\ \A p \in DOMAIN new \cap DOMAIN old :
             p \in changed <=> old[p].sha256 # new[p].sha256
    BY DEF Sorted, Manifests!Done, Manifests!Differs
  <2>2. /\ DOMAIN kept = keeps /\ \A p \in keeps : kept[p] = old[p].sha256
        /\ DOMAIN put = added \cup changed
        /\ \A p \in added \cup changed : put[p] = new[p].sha256
    BY <2>1 DEF Manifests!Restrict, Manifests!Tree
  <2> HIDE DEF kept, put
  <2>3. DOMAIN moved = DOMAIN new /\ \A p \in DOMAIN new : moved[p] = new[p].sha256
    BY <2>1, <2>2
  <2>4. Manifests!Tree(new) = moved
    BY <2>3 DEF Manifests!Tree
  <2>5. \A p \in changed : old[p] # new[p]
    BY <2>1
  <2>6. added \cap DOMAIN old = {} /\ removed \subseteq DOMAIN old \ DOMAIN new
    BY <2>1
  <2> QED BY <2>4, <2>5, <2>6 DEF TellsWhatHostsGet, Manifests!TellsWhatHostsGet, kept, put
<1> QED BY <1>1, SortedAlways, PTL

-----------------------------------------------------------------------------
(* The line diff: its table, for texts of any length. *)

(* The cells of the table, and what each is computed from. *)
Cells == (0..Len(a)) \X (0..Len(b))

Entry(t, x, y) ==
  IF x = 0 \/ y = 0 THEN 0
  ELSE IF a[x] = b[y] THEN t[<<x - 1, y - 1>>] + 1
  ELSE IF t[<<x - 1, y>>] > t[<<x, y - 1>>] THEN t[<<x - 1, y>>] ELSE t[<<x, y - 1>>]

Lengths == Len(a) \in Nat /\ Len(b) \in Nat

(* An entry depends on those before it, and is a number when they are. *)
Before(x, y) == {c \in Cells : c[1] + c[2] < x + y}

LEMMA EntryFacts ==
  ASSUME Lengths, NEW x \in 0..Len(a), NEW y \in 0..Len(b), NEW f, NEW g
  PROVE  /\ (\A c \in Before(x, y) : f[c] \in Nat) => Entry(f, x, y) \in Nat
         /\ (\A c \in Before(x, y) : f[c] = g[c]) => Entry(f, x, y) = Entry(g, x, y)
<1>1. CASE x = 0 \/ y = 0
  BY <1>1 DEF Entry
<1>2. CASE x # 0 /\ y # 0
  <2>1. /\ x - 1 \in 0..Len(a) /\ y - 1 \in 0..Len(b)
        /\ (x - 1) + (y - 1) < x + y /\ (x - 1) + y < x + y /\ x + (y - 1) < x + y
    BY <1>2 DEF Lengths
  <2>2. /\ <<x - 1, y - 1>> \in Before(x, y) /\ <<x - 1, y>> \in Before(x, y)
        /\ <<x, y - 1>> \in Before(x, y)
    BY <2>1 DEF Cells, Before
  <2>3. ASSUME \A c \in Before(x, y) : f[c] \in Nat PROVE Entry(f, x, y) \in Nat
    <3>1. f[<<x - 1, y - 1>>] \in Nat /\ f[<<x - 1, y>>] \in Nat /\ f[<<x, y - 1>>] \in Nat
      BY <2>2, <2>3
    <3> QED BY <3>1 DEF Entry
  <2>4. ASSUME \A c \in Before(x, y) : f[c] = g[c] PROVE Entry(f, x, y) = Entry(g, x, y)
    <3>1. /\ f[<<x - 1, y - 1>>] = g[<<x - 1, y - 1>>] /\ f[<<x - 1, y>>] = g[<<x - 1, y>>]
          /\ f[<<x, y - 1>>] = g[<<x, y - 1>>]
      BY <2>2, <2>4
    <3> QED BY <3>1 DEF Entry
  <2> QED BY <2>3, <2>4
<1> QED BY <1>1, <1>2

(* t is filled up to the diagonal s. *)
Filled(t, s) == \A x \in 0..Len(a), y \in 0..Len(b) : x + y <= s => t[<<x, y>>] = Entry(t, x, y)

LEMMA TableExists ==
  ASSUME Lengths
  PROVE  \E t \in [Cells -> Nat] : \A x \in 0..Len(a), y \in 0..Len(b) : t[<<x, y>>] = Entry(t, x, y)
<1> DEFINE N == Len(a) + Len(b)
           Good == {s \in 0..N : \E t \in [Cells -> Nat] : Filled(t, s)}
<1>1. N \in Nat /\ N \in 0..N /\ 0 \in 0..N
  BY DEF Lengths
<1>2. 0 \in Good
  <2> DEFINE t == [c \in Cells |-> 0]
  <2>1. t \in [Cells -> Nat]
    OBVIOUS
  <2>2. ASSUME NEW x \in 0..Len(a), NEW y \in 0..Len(b), x + y <= 0
        PROVE  t[<<x, y>>] = Entry(t, x, y)
    <3>1. x = 0 /\ y = 0 /\ <<x, y>> \in Cells
      BY <2>2 DEF Lengths, Cells
    <3> QED BY <3>1 DEF Entry
  <2> HIDE DEF t
  <2>3. Filled(t, 0)
    BY <2>2 DEF Filled
  <2> QED BY <1>1, <2>1, <2>3
<1>3. ASSUME NEW s \in 1..N, s - 1 \in Good PROVE s \in Good
  <2>1. PICK f \in [Cells -> Nat] : Filled(f, s - 1)
    BY <1>3
  <2> DEFINE g == [c \in Cells |-> IF c[1] + c[2] <= s - 1 THEN f[c] ELSE Entry(f, c[1], c[2])]
  <2>2. \A x \in 0..Len(a), y \in 0..Len(b) :
          g[<<x, y>>] = IF x + y <= s - 1 THEN f[<<x, y>>] ELSE Entry(f, x, y)
    <3>1. \A x \in 0..Len(a), y \in 0..Len(b) : <<x, y>> \in Cells
      BY DEF Cells
    <3> QED BY <3>1
  <2>3. g \in [Cells -> Nat]
    <3> SUFFICES ASSUME NEW c \in Cells
                 PROVE  (IF c[1] + c[2] <= s - 1 THEN f[c] ELSE Entry(f, c[1], c[2])) \in Nat
      OBVIOUS
    <3>1. c[1] \in 0..Len(a) /\ c[2] \in 0..Len(b)
      BY DEF Cells
    <3>2. Entry(f, c[1], c[2]) \in Nat
      <4>1. \A d \in Before(c[1], c[2]) : f[d] \in Nat
        BY DEF Before
      <4> QED BY <3>1, <4>1, EntryFacts
    <3> QED BY <3>2
  <2> HIDE DEF g
  <2>4. ASSUME NEW x \in 0..Len(a), NEW y \in 0..Len(b), x + y <= s
        PROVE  g[<<x, y>>] = Entry(g, x, y)
    <3>1. ASSUME NEW c \in Before(x, y) PROVE f[c] = g[c]
      <4>1. c[1] \in 0..Len(a) /\ c[2] \in 0..Len(b) /\ c = <<c[1], c[2]>> /\ c[1] + c[2] <= s - 1
        BY <2>4 DEF Lengths, Before, Cells
      <4> QED BY <2>2, <4>1
    <3>2. Entry(f, x, y) = Entry(g, x, y)
      BY <3>1, EntryFacts
    <3>3. x + y <= s - 1 => f[<<x, y>>] = Entry(f, x, y)
      BY <2>1 DEF Filled
    <3> QED BY <2>2, <3>2, <3>3
  <2>5. Filled(g, s)
    BY <2>4 DEF Filled
  <2>6. s \in 0..N
    BY <1>1
  <2> QED BY <2>3, <2>5, <2>6
<1> HIDE DEF Good
<1>4. \A s \in 0..N : s \in Good
  <2> HIDE DEF N
  <2> QED BY <1>1, <1>2, <1>3, Induction
<1>5. PICK t \in [Cells -> Nat] : Filled(t, N)
  BY <1>1, <1>4 DEF Good
<1>6. \A x \in 0..Len(a), y \in 0..Len(b) : x + y <= N
  BY DEF Lengths
<1> QED BY <1>5, <1>6 DEF Filled

(* The table of lineDiff. *)
LEMMA TableFacts ==
  ASSUME Lengths
  PROVE  \A x \in 0..Len(a), y \in 0..Len(b) :
           Bodies!dp[<<x, y>>] \in Nat /\ Bodies!dp[<<x, y>>] = Entry(Bodies!dp, x, y)
<1> DEFINE Table(t) == t = [c \in Cells |-> Entry(t, c[1], c[2])]
<1>1. Bodies!dp = CHOOSE t : Table(t)
  BY DEF Bodies!dp, Entry, Cells
<1>2. PICK f \in [Cells -> Nat] :
        \A x \in 0..Len(a), y \in 0..Len(b) : f[<<x, y>>] = Entry(f, x, y)
  BY TableExists
<1>3. Table(f)
  <2>1. f = [c \in Cells |-> f[c]]
    OBVIOUS
  <2>2. ASSUME NEW c \in Cells PROVE f[c] = Entry(f, c[1], c[2])
    <3>1. c[1] \in 0..Len(a) /\ c[2] \in 0..Len(b) /\ c = <<c[1], c[2]>>
      BY DEF Cells
    <3> QED BY <1>2, <3>1
  <2> QED BY <2>1, <2>2
<1> DEFINE t == CHOOSE t_1 : Table(t_1)
<1>4. Table(t)
  <2> HIDE DEF Table
  <2> QED BY <1>3
<1>5. \A x \in 0..Len(a), y \in 0..Len(b) : t[<<x, y>>] = Entry(t, x, y)
  <2>1. \A x \in 0..Len(a), y \in 0..Len(b) : <<x, y>> \in Cells
    BY DEF Cells
  <2> HIDE DEF t
  <2> QED BY <1>4, <2>1
<1> HIDE DEF t
<1> DEFINE N == Len(a) + Len(b)
           Good == {s \in 0..N : \A c \in Cells : c[1] + c[2] <= s => t[c] \in Nat}
<1>6. N \in Nat /\ N \in 0..N /\ 0 \in 0..N
  BY DEF Lengths
<1>7. ASSUME NEW s \in 0..N, NEW c \in Cells, c[1] + c[2] <= s,
             \A d \in Cells : d[1] + d[2] < s => t[d] \in Nat
      PROVE  t[c] \in Nat
  <2>1. c[1] \in 0..Len(a) /\ c[2] \in 0..Len(b) /\ c = <<c[1], c[2]>>
    BY DEF Cells
  <2>2. \A d \in Before(c[1], c[2]) : t[d] \in Nat
    <3> SUFFICES ASSUME NEW d \in Before(c[1], c[2]) PROVE t[d] \in Nat
      OBVIOUS
    <3>1. d \in Cells /\ d[1] + d[2] < c[1] + c[2] /\ d[1] + d[2] \in Nat
      BY DEF Before, Cells, Lengths
    <3>2. d[1] + d[2] < s
      BY <1>7, <2>1, <3>1 DEF Lengths
    <3> QED BY <1>7, <3>1, <3>2
  <2>3. Entry(t, c[1], c[2]) \in Nat
    BY <2>1, <2>2, EntryFacts
  <2> QED BY <1>5, <2>1, <2>3
<1>8. 0 \in Good
  <2>1. \A d \in Cells : ~(d[1] + d[2] < 0)
    BY DEF Cells, Lengths
  <2> HIDE DEF N
  <2> QED BY <1>6, <1>7, <2>1
<1>9. ASSUME NEW s \in 1..N, s - 1 \in Good PROVE s \in Good
  <2>1. s \in 0..N
    BY <1>6
  <2>2. \A d \in Cells : d[1] + d[2] < s => d[1] + d[2] <= s - 1
    BY <2>1 DEF Cells, Lengths
  <2>3. \A d \in Cells : d[1] + d[2] < s => t[d] \in Nat
    BY <1>9, <2>2
  <2> HIDE DEF N
  <2> QED BY <1>7, <2>1, <2>3
<1>10. N \in Good
  <2> HIDE DEF N, Good
  <2> QED BY <1>6, <1>8, <1>9, Induction
<1>11. ASSUME NEW x \in 0..Len(a), NEW y \in 0..Len(b) PROVE t[<<x, y>>] \in Nat
  <2>1. <<x, y>> \in Cells /\ x + y <= N
    BY DEF Cells, Lengths
  <2> HIDE DEF N
  <2> QED BY <1>10, <2>1
<1>12. Bodies!dp = t
  BY <1>1 DEF t
<1> QED BY <1>5, <1>11, <1>12

(* The table, by name. *)
At(x, y) == Bodies!dp[<<x, y>>]

LEMMA AtFacts ==
  ASSUME Lengths
  PROVE  /\ \A x \in 0..Len(a), y \in 0..Len(b) : At(x, y) \in Nat
         /\ \A x \in 0..Len(a) : At(x, 0) = 0
         /\ \A y \in 0..Len(b) : At(0, y) = 0
         /\ \A x \in 1..Len(a), y \in 1..Len(b) :
              At(x, y) = IF a[x] = b[y] THEN At(x - 1, y - 1) + 1
                         ELSE IF At(x - 1, y) > At(x, y - 1) THEN At(x - 1, y) ELSE At(x, y - 1)
<1>1. 0 \in 0..Len(a) /\ 0 \in 0..Len(b)
  BY DEF Lengths
<1>2. ASSUME NEW x \in 1..Len(a), NEW y \in 1..Len(b)
      PROVE  At(x, y) = IF a[x] = b[y] THEN At(x - 1, y - 1) + 1
                        ELSE IF At(x - 1, y) > At(x, y - 1) THEN At(x - 1, y) ELSE At(x, y - 1)
  <2>1. x \in 0..Len(a) /\ y \in 0..Len(b) /\ x # 0 /\ y # 0
    BY DEF Lengths
  <2> QED BY <2>1, TableFacts DEF At, Entry
<1>3. \A x \in 0..Len(a) : At(x, 0) = 0
  BY <1>1, TableFacts DEF At, Entry
<1>4. \A y \in 0..Len(b) : At(0, y) = 0
  BY <1>1, TableFacts DEF At, Entry
<1>5. \A x \in 0..Len(a), y \in 0..Len(b) : At(x, y) \in Nat
  BY TableFacts DEF At
<1> QED BY <1>2, <1>3, <1>4, <1>5

(* One line more matches one more at most. *)
Steady(x, y) ==
  /\ x > 0 => At(x - 1, y) <= At(x, y) /\ At(x, y) <= At(x - 1, y) + 1
  /\ y > 0 => At(x, y - 1) <= At(x, y) /\ At(x, y) <= At(x, y - 1) + 1

LEMMA TableSteady ==
  ASSUME Lengths
  PROVE  \A x \in 0..Len(a), y \in 0..Len(b) : Steady(x, y)
<1> DEFINE N == Len(a) + Len(b)
           Good == {s \in 0..N : \A c \in Cells : c[1] + c[2] <= s => Steady(c[1], c[2])}
<1>1. N \in Nat /\ N \in 0..N /\ 0 \in 0..N
  BY DEF Lengths
<1>2. ASSUME NEW x \in 0..Len(a), NEW y \in 0..Len(b),
             \A c \in Cells : c[1] + c[2] < x + y => Steady(c[1], c[2])
      PROVE  Steady(x, y)
  <2>1. CASE x = 0 \/ y = 0
    <3>1. At(x, y) = 0
      BY <2>1, AtFacts
    <3>2. x > 0 => y = 0 /\ x - 1 \in 0..Len(a)
      BY <2>1 DEF Lengths
    <3>3. y > 0 => x = 0 /\ y - 1 \in 0..Len(b)
      BY <2>1 DEF Lengths
    <3>4. x > 0 => At(x - 1, y) = 0
      BY <3>2, AtFacts
    <3>5. y > 0 => At(x, y - 1) = 0
      BY <3>3, AtFacts
    <3> QED BY <3>1, <3>4, <3>5 DEF Steady
  <2>2. CASE x # 0 /\ y # 0
    <3>1. /\ x \in 1..Len(a) /\ y \in 1..Len(b) /\ x - 1 \in 0..Len(a) /\ y - 1 \in 0..Len(b)
          /\ (x - 1) + y < x + y /\ x + (y - 1) < x + y /\ x > 0 /\ y > 0
      BY <2>2 DEF Lengths
    <3>2. <<x - 1, y>> \in Cells /\ <<x, y - 1>> \in Cells
      BY <3>1 DEF Cells
    <3>3. Steady(x - 1, y)
      BY <1>2, <3>1, <3>2
    <3>4. Steady(x, y - 1)
      BY <1>2, <3>1, <3>2
    <3> DEFINE d == At(x - 1, y - 1)
               p == At(x - 1, y)
               q == At(x, y - 1)
               r == At(x, y)
    <3>5. d <= p /\ p <= d + 1
      BY <3>1, <3>3 DEF Steady
    <3>6. d <= q /\ q <= d + 1
      BY <3>1, <3>4 DEF Steady
    <3>7. d \in Nat /\ p \in Nat /\ q \in Nat /\ r \in Nat
      BY <3>1, AtFacts
    <3>8. r = d + 1 \/ r = (IF p > q THEN p ELSE q)
      BY <3>1, AtFacts
    <3> HIDE DEF d, p, q, r
    <3>9. p <= r /\ r <= p + 1 /\ q <= r /\ r <= q + 1
      BY <3>5, <3>6, <3>7, <3>8
    <3> QED BY <3>9 DEF Steady, p, q, r
  <2> QED BY <2>1, <2>2
<1>3. 0 \in Good
  <2>1. \A c \in Cells : c[1] + c[2] <= 0 => c[1] = 0 /\ c[2] = 0
    BY DEF Cells, Lengths
  <2>2. Steady(0, 0)
    BY DEF Steady
  <2> HIDE DEF N
  <2> QED BY <1>1, <2>1, <2>2
<1>4. ASSUME NEW s \in 1..N, s - 1 \in Good PROVE s \in Good
  <2>1. s \in 0..N /\ s \in Nat
    BY <1>1
  <2>2. ASSUME NEW c \in Cells, c[1] + c[2] <= s PROVE Steady(c[1], c[2])
    <3>1. c[1] \in 0..Len(a) /\ c[2] \in 0..Len(b)
      BY DEF Cells
    <3>2. \A d \in Cells : d[1] + d[2] < c[1] + c[2] => d[1] + d[2] <= s - 1
      BY <2>1, <2>2, <3>1 DEF Cells, Lengths
    <3>3. \A d \in Cells : d[1] + d[2] < c[1] + c[2] => Steady(d[1], d[2])
      BY <1>4, <3>2
    <3> QED BY <1>2, <3>1, <3>3
  <2> HIDE DEF N
  <2> QED BY <2>1, <2>2
<1>5. N \in Good
  <2> HIDE DEF N, Good
  <2> QED BY <1>1, <1>3, <1>4, Induction
<1> SUFFICES ASSUME NEW x \in 0..Len(a), NEW y \in 0..Len(b) PROVE Steady(x, y)
  OBVIOUS
<1>6. <<x, y>> \in Cells /\ x + y <= N
  BY DEF Cells, Lengths
<1>7. \A c \in Cells : c[1] + c[2] <= N => Steady(c[1], c[2])
  <2> HIDE DEF N
  <2> QED BY <1>5
<1> QED BY <1>6, <1>7

(* The table grows with either text. *)
LEMMA TableGrows ==
  ASSUME Lengths, NEW x \in 0..Len(a), NEW y \in 0..Len(b), NEW v \in 0..x, NEW w \in 0..y
  PROVE  At(v, w) <= At(x, y)
<1>1. v \in 0..Len(a) /\ w \in 0..Len(b)
  BY DEF Lengths
<1>2. At(v, w) \in Nat /\ At(v, y) \in Nat /\ At(x, y) \in Nat
  BY <1>1, AtFacts
<1>3. At(v, w) <= At(v, y)
  <2> DEFINE Good == {d \in 0..(y - w) : At(v, w) <= At(v, w + d)}
  <2>1. y - w \in Nat /\ 0 \in 0..(y - w) /\ w + 0 = w /\ w + (y - w) = y
    BY DEF Lengths
  <2>2. 0 \in Good
    BY <1>2, <2>1
  <2>3. ASSUME NEW d \in 1..(y - w), d - 1 \in Good PROVE d \in Good
    <3>1. /\ d \in 0..(y - w) /\ w + d \in 0..Len(b) /\ w + d > 0
          /\ (w + d) - 1 = w + (d - 1) /\ w + (d - 1) \in 0..Len(b)
      BY <1>1 DEF Lengths
    <3>2. At(v, w + (d - 1)) <= At(v, w + d)
      BY <1>1, <3>1, TableSteady DEF Steady
    <3>3. At(v, w + (d - 1)) \in Nat /\ At(v, w + d) \in Nat
      BY <1>1, <3>1, AtFacts
    <3>4. At(v, w) <= At(v, w + (d - 1))
      BY <2>3
    <3>5. At(v, w) <= At(v, w + d)
      BY <1>2, <3>2, <3>3, <3>4
    <3> QED BY <3>1, <3>5
  <2> HIDE DEF Good
  <2>4. y - w \in Good
    <3>1. y - w \in 0..(y - w)
      BY <2>1
    <3> QED BY <2>1, <2>2, <2>3, <3>1, Induction
  <2> QED BY <2>1, <2>4 DEF Good
<1>4. At(v, y) <= At(x, y)
  <2> DEFINE Good == {d \in 0..(x - v) : At(v, y) <= At(v + d, y)}
  <2>1. x - v \in Nat /\ 0 \in 0..(x - v) /\ v + 0 = v /\ v + (x - v) = x
    BY DEF Lengths
  <2>2. 0 \in Good
    BY <1>2, <2>1
  <2>3. ASSUME NEW d \in 1..(x - v), d - 1 \in Good PROVE d \in Good
    <3>1. /\ d \in 0..(x - v) /\ v + d \in 0..Len(a) /\ v + d > 0
          /\ (v + d) - 1 = v + (d - 1) /\ v + (d - 1) \in 0..Len(a)
      BY <1>1 DEF Lengths
    <3>2. At(v + (d - 1), y) <= At(v + d, y)
      BY <3>1, TableSteady DEF Steady
    <3>3. At(v + (d - 1), y) \in Nat /\ At(v + d, y) \in Nat
      BY <3>1, AtFacts
    <3>4. At(v, y) <= At(v + (d - 1), y)
      BY <2>3
    <3>5. At(v, y) <= At(v + d, y)
      BY <1>2, <3>2, <3>3, <3>4
    <3> QED BY <3>1, <3>5
  <2> HIDE DEF Good
  <2>4. x - v \in Good
    <3>1. x - v \in 0..(x - v)
      BY <2>1
    <3> QED BY <2>1, <2>2, <2>3, <3>1, Induction
  <2> QED BY <2>1, <2>4 DEF Good
<1> QED BY <1>2, <1>3, <1>4

LEMMA Below ==
  ASSUME NEW n \in Nat, NEW p \in 1..n
  PROVE  /\ p - 1 \in 0..n /\ 0 \in 0..(p - 1)
         /\ \A q \in 1..n : q < p => q \in 0..(p - 1)
         /\ \A q \in 0..(p - 1) : q \in 0..n
OBVIOUS

(* No common subsequence is longer than the table says. *)
LEMMA CommonBound ==
  ASSUME MaxLength \in Nat, a \in Bodies!Texts, b \in Bodies!Texts, NEW c \in Bodies!Common
  PROVE  Len(c) \in Nat /\ Len(c) <= At(Len(a), Len(b))
<1>1. /\ Lengths /\ Len(a) \in 0..MaxLength /\ Len(b) \in 0..MaxLength
  BY DEF Bodies!Texts, Lengths
<1>2. PICK f \in Bodies!Picks[Len(a)], g \in Bodies!Picks[Len(b)] :
        c = [k \in DOMAIN f |-> a[f[k]]] /\ c = [k \in DOMAIN g |-> b[g[k]]]
  BY DEF Bodies!Common, Bodies!Subsequences
<1>3. PICK n \in 0..Len(a) :
        f \in [1..n -> 1..Len(a)] /\ \A k \in 1..(n - 1) : f[k] < f[k + 1]
  BY <1>1, <1>2 DEF Bodies!Picks
<1>4. PICK m \in 0..Len(b) :
        g \in [1..m -> 1..Len(b)] /\ \A k \in 1..(m - 1) : g[k] < g[k + 1]
  BY <1>1, <1>2 DEF Bodies!Picks
<1>5. n \in Nat /\ m \in Nat
  BY <1>1 DEF Lengths
<1>6. DOMAIN c = 1..n /\ DOMAIN c = 1..m
  BY <1>2, <1>3, <1>4
<1>7. m = n
  BY <1>5, <1>6
<1>8. Len(c) = n
  <2>1. c = [k \in 1..n |-> c[k]]
    BY <1>2, <1>6
  <2>2. c \in [1..n -> {c[k] : k \in 1..n}]
    BY <2>1
  <2>3. c \in Seq({c[k] : k \in 1..n})
    BY <1>5, <2>2, SeqDef
  <2> QED BY <1>5, <1>6, <2>3
<1>9. \A k \in 1..n : a[f[k]] = b[g[k]]
  BY <1>2, <1>3, <1>4, <1>7
<1> DEFINE F(k) == IF k = 0 THEN 0 ELSE f[k]
           G(k) == IF k = 0 THEN 0 ELSE g[k]
           Good == {k \in 0..n : k <= At(F(k), G(k))}
<1>10. 0 \in Good
  <2>1. 0 \in 0..Len(a) /\ 0 \in 0..Len(b) /\ 0 \in 0..n
    BY <1>1, <1>5 DEF Lengths
  <2>2. At(0, 0) = 0
    BY <1>1, <2>1, AtFacts
  <2> QED BY <2>1, <2>2
<1>11. ASSUME NEW k \in 1..n, k - 1 \in Good PROVE k \in Good
  <2>1. f[k] \in 1..Len(a) /\ g[k] \in 1..Len(b) /\ F(k) = f[k] /\ G(k) = g[k]
    BY <1>3, <1>4, <1>5, <1>7
  <2>20. /\ f[k] - 1 \in 0..Len(a) /\ 0 \in 0..(f[k] - 1)
         /\ \A q \in 1..Len(a) : q < f[k] => q \in 0..(f[k] - 1)
         /\ \A q \in 0..(f[k] - 1) : q \in 0..Len(a)
    BY <1>1, <2>1, Below DEF Lengths
  <2>21. /\ g[k] - 1 \in 0..Len(b) /\ 0 \in 0..(g[k] - 1)
         /\ \A q \in 1..Len(b) : q < g[k] => q \in 0..(g[k] - 1)
         /\ \A q \in 0..(g[k] - 1) : q \in 0..Len(b)
    BY <1>1, <2>1, Below DEF Lengths
  <2>2. /\ f[k] - 1 \in 0..Len(a) /\ F(k - 1) \in 0..(f[k] - 1)
        /\ g[k] - 1 \in 0..Len(b) /\ G(k - 1) \in 0..(g[k] - 1)
    <3>1. CASE k = 1
      <4>1. k - 1 = 0
        BY <3>1
      <4> QED BY <2>20, <2>21, <4>1
    <3>2. CASE k # 1
      <4>1. k - 1 \in 1..(n - 1) /\ k - 1 \in 1..n /\ (k - 1) + 1 = k /\ k - 1 # 0
        BY <1>5, <3>2
      <4>2. f[k - 1] < f[k] /\ g[k - 1] < g[k]
        BY <1>3, <1>4, <1>7, <4>1
      <4>3. f[k - 1] \in 1..Len(a) /\ g[k - 1] \in 1..Len(b)
        BY <1>3, <1>4, <1>7, <4>1
      <4>4. F(k - 1) = f[k - 1] /\ G(k - 1) = g[k - 1]
        BY <4>1
      <4> HIDE DEF F, G
      <4> QED BY <2>20, <2>21, <4>2, <4>3, <4>4
    <3> QED BY <3>1, <3>2
  <2> DEFINE x == f[k] - 1
             y == g[k] - 1
             v == F(k - 1)
             w == G(k - 1)
  <2>3. At(v, w) <= At(x, y)
    <3> HIDE DEF F, G
    <3> QED BY <1>1, <2>2, TableGrows
  <2>4. At(f[k], g[k]) = At(x, y) + 1
    BY <1>1, <1>9, <2>1, AtFacts
  <2>5. At(x, y) \in Nat
    BY <1>1, <2>2, AtFacts
  <2>6. At(v, w) \in Nat
    <3>1. v \in 0..Len(a) /\ w \in 0..Len(b)
      <4> HIDE DEF F, G
      <4> QED BY <2>2, <2>20, <2>21
    <3> HIDE DEF v, w
    <3> QED BY <1>1, <3>1, AtFacts
  <2>7. k - 1 <= At(v, w)
    BY <1>11
  <2>8. k \in 0..n
    BY <1>5
  <2> HIDE DEF v, w, x, y, F, G
  <2>9. k <= At(f[k], g[k])
    BY <1>5, <2>3, <2>4, <2>5, <2>6, <2>7
  <2> QED BY <2>1, <2>8, <2>9
<1>12. n \in Good
  <2>1. n \in 0..n
    BY <1>5
  <2> HIDE DEF Good
  <2> QED BY <1>5, <1>10, <1>11, <2>1, Induction
<1>13. F(n) \in 0..Len(a) /\ G(n) \in 0..Len(b)
  <2>1. n = 0 \/ n \in 1..n
    BY <1>5
  <2> QED BY <1>1, <1>3, <1>4, <1>7, <2>1 DEF Lengths
<1>14. n <= At(F(n), G(n))
  BY <1>12
<1> HIDE DEF F, G
<1>15. At(F(n), G(n)) <= At(Len(a), Len(b))
  <2>1. Len(a) \in 0..Len(a) /\ Len(b) \in 0..Len(b)
    BY <1>1 DEF Lengths
  <2> QED BY <1>1, <1>13, <2>1, TableGrows
<1>16. At(F(n), G(n)) \in Nat /\ At(Len(a), Len(b)) \in Nat
  <2>1. Len(a) \in 0..Len(a) /\ Len(b) \in 0..Len(b)
    BY <1>1 DEF Lengths
  <2> QED BY <1>1, <1>13, <2>1, AtFacts
<1> QED BY <1>5, <1>8, <1>14, <1>15, <1>16

-----------------------------------------------------------------------------
(* The rows of a diff. *)

Tag == {"eq", "del", "add"}
DiffRow == [tag : Tag, text : Line]

(* What Texted does with a row. *)
Pick(s, r, tags) == IF r.tag \in tags THEN Append(s, r.text) ELSE s

LEMMA TextedFold ==
  ASSUME NEW rs \in Seq(DiffRow), NEW tags
  PROVE  \E g \in [0..Len(rs) -> Seq(Line)] :
           /\ g[0] = <<>>
           /\ \A k \in 1..Len(rs) : g[k] = Pick(g[k - 1], rs[k], tags)
           /\ Bodies!Texted(rs, tags) = g[Len(rs)]
<1> DEFINE n == Len(rs)
           F == [p \in (1..n) \X Seq(Line) |-> Pick(p[2], rs[p[1]], tags)]
           Eq(f) == f = [s \in SUBSET (1..n) |->
                     IF s = {} THEN <<>>
                     ELSE Pick(f[s \ {Max(s)}], rs[Max(s)], tags)]
<1>1. n \in Nat /\ DOMAIN rs = 1..n /\ <<>> \in Seq(Line)
  OBVIOUS
<1>2. Bodies!Texted(rs, tags) = (CHOOSE f : Eq(f))[1..n]
  BY <1>1 DEF Bodies!Texted, Bodies!FoldLeft, Bodies!MapThenFoldSet, Bodies!Max, Max, Pick
<1>3. \A s \in Seq(Line), r \in DiffRow : Pick(s, r, tags) \in Seq(Line)
  BY DEF Pick, DiffRow
<1>4. \A k \in 1..n : rs[k] \in DiffRow
  BY <1>1
<1>5. F \in [(1..n) \X Seq(Line) -> Seq(Line)]
  BY <1>3, <1>4
<1> HIDE DEF F, n
<1>6. PICK f \in [SUBSET (1..n) -> Seq(Line)] : IsFold(f, n, <<>>, F)
  BY <1>1, <1>5, FoldExists
<1>7. Eq(f)
  <2>1. ASSUME NEW s \in SUBSET (1..n), s # {}
        PROVE  F[<<Max(s), f[s \ {Max(s)}]>>] = Pick(f[s \ {Max(s)}], rs[Max(s)], tags)
    <3>1. Max(s) \in 1..n
      BY <1>1, <2>1, MaxIn
    <3>2. f[s \ {Max(s)}] \in Seq(Line)
      BY <1>6
    <3> QED BY <3>1, <3>2 DEF F
  <2> QED BY <1>6, <2>1 DEF IsFold
<1> DEFINE h == CHOOSE f_1 : Eq(f_1)
<1>8. Eq(h)
  <2> HIDE DEF Eq
  <2> QED BY <1>7
<1>9. Bodies!Texted(rs, tags) = h[1..n]
  BY <1>2
<1> HIDE DEF h
<1>10. h[{}] = <<>>
  BY <1>8
<1>11. ASSUME NEW k \in 1..n PROVE h[1..k] = Pick(h[1..(k - 1)], rs[k], tags)
  <2>1. 1..k \in SUBSET (1..n) /\ 1..k # {} /\ (1..k) \ {k} = 1..(k - 1) /\ Max(1..k) = k
    BY <1>1, Upto
  <2> QED BY <1>8, <2>1
<1>12. Runs(h, n, <<>>, Seq(Line))
  <2>1. \A k \in 1..n : h[1..(k - 1)] \in Seq(Line) => h[1..k] \in Seq(Line)
    BY <1>4, <1>11, <1>3
  <2> QED BY <1>10, <2>1 DEF Runs
<1>13. PICK g \in [0..n -> Seq(Line)] : Trace(g, h, n, <<>>)
  BY <1>1, <1>12, Running
<1>14. /\ g[0] = <<>> /\ g[n] = h[1..n]
       /\ \A k \in 1..n : g[k] = Pick(g[k - 1], rs[k], tags)
  BY <1>11, <1>13 DEF Trace
<1> QED BY <1>9, <1>13, <1>14 DEF n

(* The line of one row, if it is tagged so. *)
One(r, tags) == IF r.tag \in tags THEN <<r.text>> ELSE <<>>

LEMMA TextedPush ==
  ASSUME NEW rs \in Seq(DiffRow), NEW r \in DiffRow, NEW tags
  PROVE  /\ Bodies!Texted(rs, tags) \in Seq(Line)
         /\ Bodies!Texted(<<r>> \o rs, tags) = One(r, tags) \o Bodies!Texted(rs, tags)
<1>20. \A s, t, v \in Seq(Line) : (s \o t) \o v = s \o (t \o v) /\ s \o t \in Seq(Line)
  BY Regroup
<1> DEFINE n == Len(rs)
           all == <<r>> \o rs
           one == One(r, tags)
<1>1. /\ n \in Nat /\ all \in Seq(DiffRow) /\ Len(all) = n + 1 /\ all[1] = r
      /\ \A k \in 1..n : all[k + 1] = rs[k] /\ rs[k] \in DiffRow
  OBVIOUS
<1>2. one \in Seq(Line) /\ <<>> \o one = one /\ one \o <<>> = one
  BY DEF One, DiffRow
<1>3. PICK g \in [0..n -> Seq(Line)] :
        /\ g[0] = <<>>
        /\ \A k \in 1..n : g[k] = Pick(g[k - 1], rs[k], tags)
        /\ Bodies!Texted(rs, tags) = g[n]
  BY TextedFold
<1> HIDE DEF all
<1>4. PICK h \in [0..Len(all) -> Seq(Line)] :
        /\ h[0] = <<>>
        /\ \A k \in 1..Len(all) : h[k] = Pick(h[k - 1], all[k], tags)
        /\ Bodies!Texted(all, tags) = h[Len(all)]
  BY <1>1, TextedFold
<1>5. \A k \in 1..(n + 1) : h[k] = Pick(h[k - 1], all[k], tags)
  BY <1>1, <1>4
<1> DEFINE Good == {k \in 0..n : h[k + 1] = one \o g[k]}
<1>6. h[1] = one
  <2>1. 1 \in 1..(n + 1) /\ 1 - 1 = 0
    BY <1>1
  <2>2. h[1] = Pick(<<>>, r, tags)
    BY <1>1, <1>4, <1>5, <2>1
  <2>3. Append(<<>>, r.text) = <<r.text>>
    OBVIOUS
  <2> QED BY <2>2, <2>3 DEF Pick, One
<1> HIDE DEF n, one
<1>7. 0 \in Good
  <2>1. 0 \in 0..n /\ 0 + 1 = 1
    BY <1>1
  <2> QED BY <1>2, <1>3, <1>6, <2>1
<1>8. ASSUME NEW k \in 1..n, k - 1 \in Good PROVE k \in Good
  <2>1. k \in 0..n /\ k + 1 \in 1..(n + 1) /\ (k + 1) - 1 = k /\ (k - 1) + 1 = k /\ k - 1 \in 0..n
    BY <1>1
  <2>2. h[k] = one \o g[k - 1]
    BY <1>8, <2>1
  <2>3. all[k + 1] = rs[k] /\ rs[k] \in DiffRow
    BY <1>1
  <2>4. h[k + 1] = Pick(one \o g[k - 1], rs[k], tags)
    BY <1>5, <2>1, <2>2, <2>3
  <2>5. g[k] = Pick(g[k - 1], rs[k], tags) /\ g[k - 1] \in Seq(Line)
    BY <1>3, <2>1
  <2> DEFINE s == g[k - 1]
             l == rs[k].text
  <2>6. s \in Seq(Line) /\ l \in Line
    BY <2>3, <2>5 DEF DiffRow
  <2> HIDE DEF s, l
  <2>7. Append(one \o s, l) = one \o Append(s, l)
    <3>1. one \o s \in Seq(Line) /\ <<l>> \in Seq(Line)
      BY <1>2, <1>20, <2>6
    <3>2. Append(one \o s, l) = (one \o s) \o <<l>> /\ Append(s, l) = s \o <<l>>
      BY <2>6, <3>1, AppendIsConcat
    <3>3. (one \o s) \o <<l>> = one \o (s \o <<l>>)
      <4> DEFINE e == <<l>>
      <4>1. one \in Seq(Line) /\ s \in Seq(Line) /\ e \in Seq(Line)
        BY <1>2, <2>6, <3>1
      <4> HIDE DEF e
      <4>2. (one \o s) \o e = one \o (s \o e)
        BY <1>20, <4>1
      <4> QED BY <4>2 DEF e
    <3> QED BY <3>2, <3>3
  <2>8. Pick(one \o s, rs[k], tags) = one \o Pick(s, rs[k], tags)
    BY <2>7 DEF Pick, l
  <2>9. h[k + 1] = one \o g[k]
    BY <2>4, <2>5, <2>8 DEF s
  <2> QED BY <2>1, <2>9
<1> HIDE DEF Good
<1>9. n \in Good
  <2>1. n \in 0..n
    BY <1>1
  <2> QED BY <1>1, <1>7, <1>8, <2>1, Induction
<1>10. h[n + 1] = one \o g[n] /\ g[n] \in Seq(Line)
  <2>1. n \in 0..n
    BY <1>1
  <2> QED BY <1>3, <1>9, <2>1 DEF Good
<1> QED BY <1>1, <1>3, <1>4, <1>10 DEF all, one

LEMMA TextedEmpty == \A tags : Bodies!Texted(<<>>, tags) = <<>>
<1> SUFFICES ASSUME NEW tags PROVE Bodies!Texted(<<>>, tags) = <<>>
  OBVIOUS
<1>1. <<>> \in Seq(DiffRow) /\ Len(<<>>) = 0
  OBVIOUS
<1>2. \E g \in [0..Len(<<>>) -> Seq(Line)] :
           /\ g[0] = <<>>
           /\ Bodies!Texted(<<>>, tags) = g[Len(<<>>)]
  BY <1>1, TextedFold
<1> QED BY <1>1, <1>2

-----------------------------------------------------------------------------
(* The walk back through the table. *)

LineBounds == MaxLength \in Nat

LEMMA TableStays == ASSUME a' = a, b' = b PROVE \A x, y : At(x, y)' = At(x, y)
<1>1. (Bodies!dp)' = Bodies!dp
  BY DEF Bodies!dp
<1> QED BY <1>1 DEF At

(* Where the walk is. *)
DiffFits ==
  /\ a \in Bodies!Texts /\ b \in Bodies!Texts
  /\ i \in 0..Len(a) /\ j \in 0..Len(b)
  /\ rows \in Seq(DiffRow)
  /\ phase = "done" => i = 0 /\ j = 0

(* The rows show both texts from where the walk is. *)
BothShown ==
  /\ Bodies!Texted(rows, {"eq", "del"}) = SubSeq(a, i + 1, Len(a))
  /\ Bodies!Texted(rows, {"eq", "add"}) = SubSeq(b, j + 1, Len(b))

(* What is matched, with what can still be, is the most there is. *)
MostMatched == Len(Bodies!Texted(rows, {"eq"})) + At(i, j) = At(Len(a), Len(b))

(* After a deletion the table forbids an addition. *)
NoAddNext ==
  rows # <<>> /\ rows[1].tag = "del" /\ j > 0 => i < Len(a) /\ At(i, j) > At(i + 1, j - 1)

DiffInductive == DiffFits /\ BothShown /\ MostMatched /\ NoAddNext /\ Bodies!DelBeforeAdd

LEMMA TextFacts ==
  ASSUME LineBounds, NEW t \in Bodies!Texts
  PROVE  /\ t \in Seq(Line) /\ Len(t) \in Nat /\ SubSeq(t, Len(t) + 1, Len(t)) = <<>>
         /\ SubSeq(t, 1, Len(t)) = t
         /\ \A k \in 1..Len(t) : t[k] \in Line
         /\ \A k \in 1..Len(t) : SubSeq(t, k, Len(t)) = <<t[k]>> \o SubSeq(t, k + 1, Len(t))
<1>1. t \in Seq(Line) /\ Len(t) \in Nat
  BY DEF LineBounds, Bodies!Texts
<1>2. SubSeq(t, Len(t) + 1, Len(t)) = <<>>
  <2>1. Len(t) + 1 \in Int /\ Len(t) \in Int /\ Len(t) < Len(t) + 1
    BY <1>1
  <2> QED BY <2>1, SubSeqEmpty
<1>3. SubSeq(t, 1, Len(t)) = t
  BY <1>1, SubSeqFull
<1>4. ASSUME NEW k \in 1..Len(t)
      PROVE  SubSeq(t, k, Len(t)) = <<t[k]>> \o SubSeq(t, k + 1, Len(t))
  <2>1. Len(t) \in k..Len(t)
    BY <1>1
  <2> QED BY <1>1, <2>1, SubSeqRecursiveFirst
<1>5. \A k \in 1..Len(t) : t[k] \in Line
  BY <1>1
<1> QED BY <1>1, <1>2, <1>3, <1>4, <1>5

LEMMA DiffStarts == ASSUME LineBounds PROVE Bodies!Init => DiffInductive
<1> SUFFICES ASSUME Bodies!Init PROVE DiffInductive
  OBVIOUS
<1>1. a \in Bodies!Texts /\ b \in Bodies!Texts /\ i = Len(a) /\ j = Len(b) /\ rows = <<>>
      /\ phase = "start"
  BY DEF Bodies!Init
<1>2. Len(a) \in Nat /\ Len(b) \in Nat
  BY <1>1, TextFacts
<1>3. DiffFits
  <2>1. <<>> \in Seq(DiffRow) /\ phase # "done"
    BY <1>1
  <2> QED BY <1>1, <1>2, <2>1 DEF DiffFits
<1>4. BothShown
  <2>1. SubSeq(a, i + 1, Len(a)) = <<>> /\ SubSeq(b, j + 1, Len(b)) = <<>>
    BY <1>1, TextFacts
  <2> QED BY <1>1, <2>1, TextedEmpty DEF BothShown
<1>5. MostMatched
  <2>1. Len(Bodies!Texted(rows, {"eq"})) = 0
    BY <1>1, TextedEmpty
  <2>2. At(i, j) \in Nat /\ At(i, j) = At(Len(a), Len(b))
    <3>1. Len(a) \in 0..Len(a) /\ Len(b) \in 0..Len(b) /\ Lengths
      BY <1>2 DEF Lengths
    <3> QED BY <1>1, <3>1, AtFacts
  <2> QED BY <2>1, <2>2 DEF MostMatched
<1>6. NoAddNext
  BY <1>1 DEF NoAddNext
<1>7. Bodies!DelBeforeAdd
  <2>1. Len(rows) - 1 = 0 - 1 /\ 1..(0 - 1) = {}
    BY <1>1
  <2> QED BY <2>1 DEF Bodies!DelBeforeAdd
<1> QED BY <1>3, <1>4, <1>5, <1>6, <1>7 DEF DiffInductive

(* A row is put in front. *)
LEMMA PushFacts ==
  ASSUME DiffInductive, NEW r \in DiffRow, rows' = <<r>> \o rows
  PROVE  /\ rows' \in Seq(DiffRow) /\ rows' # <<>> /\ rows'[1] = r
         /\ \A tags : /\ Bodies!Texted(rows, tags) \in Seq(Line)
                      /\ Bodies!Texted(rows', tags) = One(r, tags) \o Bodies!Texted(rows, tags)
         /\ ~(r.tag = "add" /\ rows # <<>> /\ rows[1].tag = "del") => Bodies!DelBeforeAdd'
<1>1. rows \in Seq(DiffRow) /\ Len(rows) \in Nat
  BY DEF DiffInductive, DiffFits
<1>2. /\ rows' \in Seq(DiffRow) /\ rows' # <<>> /\ rows'[1] = r /\ Len(rows') = Len(rows) + 1
      /\ \A k \in 1..Len(rows) : rows'[k + 1] = rows[k]
  BY <1>1
<1>3. ASSUME NEW tags
      PROVE  /\ Bodies!Texted(rows, tags) \in Seq(Line)
             /\ Bodies!Texted(rows', tags) = One(r, tags) \o Bodies!Texted(rows, tags)
  BY <1>1, TextedPush
<1>4. ASSUME ~(r.tag = "add" /\ rows # <<>> /\ rows[1].tag = "del") PROVE Bodies!DelBeforeAdd'
  <2> SUFFICES ASSUME NEW k \in 1..(Len(rows') - 1), rows'[k].tag = "add", rows'[k + 1].tag = "del"
               PROVE  FALSE
    BY DEF Bodies!DelBeforeAdd
  <2>1. k \in 1..Len(rows) /\ rows'[k + 1] = rows[k]
    BY <1>1, <1>2
  <2>2. CASE k = 1
    BY <1>1, <1>2, <1>4, <2>1, <2>2
  <2>3. CASE k # 1
    <3>1. k - 1 \in 1..(Len(rows) - 1) /\ (k - 1) + 1 = k /\ k - 1 \in 1..Len(rows)
      BY <1>1, <2>1, <2>3
    <3>2. rows'[k] = rows[k - 1]
      BY <1>2, <3>1
    <3> QED BY <2>1, <3>1, <3>2 DEF DiffInductive, Bodies!DelBeforeAdd
  <2> QED BY <2>2, <2>3
<1> QED BY <1>2, <1>3, <1>4

(* What one row tells of either text. *)
LEMMA OneFacts ==
  ASSUME NEW l
  PROVE  /\ One([tag |-> "eq", text |-> l], {"eq", "del"}) = <<l>>
         /\ One([tag |-> "eq", text |-> l], {"eq", "add"}) = <<l>>
         /\ One([tag |-> "eq", text |-> l], {"eq"}) = <<l>>
         /\ One([tag |-> "del", text |-> l], {"eq", "del"}) = <<l>>
         /\ One([tag |-> "del", text |-> l], {"eq", "add"}) = <<>>
         /\ One([tag |-> "del", text |-> l], {"eq"}) = <<>>
         /\ One([tag |-> "add", text |-> l], {"eq", "del"}) = <<>>
         /\ One([tag |-> "add", text |-> l], {"eq", "add"}) = <<l>>
         /\ One([tag |-> "add", text |-> l], {"eq"}) = <<>>
BY DEF One

LEMMA EqKeeps == ASSUME LineBounds, DiffInductive, Bodies!Eq PROVE DiffInductive'
<1> DEFINE r == [tag |-> "eq", text |-> a[i]]
<1>1. /\ i > 0 /\ j > 0 /\ a[i] = b[j] /\ i' = i - 1 /\ j' = j - 1 /\ a' = a /\ b' = b
      /\ phase' = phase /\ phase = "walk" /\ rows' = <<r>> \o rows
  BY DEF Bodies!Eq, Bodies!Push, Bodies!Row
<1>2. /\ a \in Bodies!Texts /\ b \in Bodies!Texts /\ Len(a) \in Nat /\ Len(b) \in Nat
      /\ i \in 1..Len(a) /\ j \in 1..Len(b) /\ i' \in 0..Len(a) /\ j' \in 0..Len(b)
      /\ i' + 1 = i /\ j' + 1 = j
  BY <1>1, TextFacts DEF DiffInductive, DiffFits
<1>3. r \in DiffRow /\ r.tag = "eq"
  BY <1>2, TextFacts DEF DiffRow, Tag
<1>4. r = [tag |-> "eq", text |-> a[i]] /\ r = [tag |-> "eq", text |-> b[j]]
  BY <1>1
<1> HIDE DEF r
<1>5. /\ rows' \in Seq(DiffRow) /\ rows' # <<>> /\ rows'[1] = r
      /\ \A tags : /\ Bodies!Texted(rows, tags) \in Seq(Line)
                   /\ Bodies!Texted(rows', tags) = One(r, tags) \o Bodies!Texted(rows, tags)
      /\ Bodies!DelBeforeAdd'
  BY <1>1, <1>3, PushFacts
<1>6. \A x, y : At(x, y)' = At(x, y)
  BY <1>1, TableStays
<1>7. DiffFits'
  BY <1>1, <1>2, <1>5 DEF DiffFits
<1>8. BothShown'
  <2>1. Bodies!Texted(rows', {"eq", "del"}) = SubSeq(a, i, Len(a))
    <3>1. Bodies!Texted(rows', {"eq", "del"}) = <<a[i]>> \o SubSeq(a, i + 1, Len(a))
      BY <1>4, <1>5, OneFacts DEF DiffInductive, BothShown
    <3> QED BY <1>2, <3>1, TextFacts
  <2>2. Bodies!Texted(rows', {"eq", "add"}) = SubSeq(b, j, Len(b))
    <3>1. Bodies!Texted(rows', {"eq", "add"}) = <<b[j]>> \o SubSeq(b, j + 1, Len(b))
      BY <1>4, <1>5, OneFacts DEF DiffInductive, BothShown
    <3> QED BY <1>2, <3>1, TextFacts
  <2> QED BY <1>1, <1>2, <2>1, <2>2 DEF BothShown
<1>9. MostMatched'
  <2> DEFINE s == Bodies!Texted(rows, {"eq"})
  <2>1. s \in Seq(Line) /\ Bodies!Texted(rows', {"eq"}) = <<a[i]>> \o s /\ a[i] \in Line
    <3>1. One(r, {"eq"}) = <<a[i]>>
      BY <1>4, OneFacts
    <3>2. a[i] \in Line
      BY <1>2, TextFacts
    <3> QED BY <1>5, <3>1, <3>2
  <2> HIDE DEF s
  <2>2. Len(<<a[i]>> \o s) = Len(s) + 1 /\ Len(s) \in Nat
    BY <2>1
  <2>3. At(i, j) = At(i', j') + 1 /\ At(i', j') \in Nat
    BY <1>1, <1>2, AtFacts DEF Lengths
  <2>4. Len(s) + At(i, j) = At(Len(a), Len(b))
    BY DEF DiffInductive, MostMatched, s
  <2>5. Len(Bodies!Texted(rows', {"eq"})) + At(i', j') = At(Len(a), Len(b))
    <3>1. Len(Bodies!Texted(rows', {"eq"})) = Len(s) + 1
      BY <2>1, <2>2
    <3>2. \A x, y \in Nat : (x + 1) + y = x + (y + 1)
      OBVIOUS
    <3> QED BY <2>2, <2>3, <2>4, <3>1, <3>2
  <2> QED BY <1>1, <1>6, <2>5 DEF MostMatched
<1>10. NoAddNext'
  BY <1>3, <1>5 DEF NoAddNext
<1> QED BY <1>5, <1>7, <1>8, <1>9, <1>10 DEF DiffInductive

LEMMA DelKeeps == ASSUME LineBounds, DiffInductive, Bodies!Del PROVE DiffInductive'
<1> DEFINE r == [tag |-> "del", text |-> a[i]]
<1>1. /\ i > 0 /\ i' = i - 1 /\ UNCHANGED <<a, b, j, phase>> /\ phase = "walk" /\ rows' = <<r>> \o rows
      /\ j > 0 => a[i] # b[j] /\ At(i - 1, j) > At(i, j - 1)
  BY DEF Bodies!Del, Bodies!Push, Bodies!Row, Bodies!Up, At
<1>2. /\ a \in Bodies!Texts /\ b \in Bodies!Texts /\ Len(a) \in Nat /\ Len(b) \in Nat
      /\ i \in 1..Len(a) /\ i \in 0..Len(a) /\ j \in 0..Len(b) /\ i' \in 0..Len(a) /\ j' = j
      /\ i' + 1 = i
  BY <1>1, TextFacts DEF DiffInductive, DiffFits
<1>3. r \in DiffRow /\ r.tag = "del"
  BY <1>2, TextFacts DEF DiffRow, Tag
<1>4. r = [tag |-> "del", text |-> a[i]]
  BY <1>1
<1> HIDE DEF r
<1>5. /\ rows' \in Seq(DiffRow) /\ rows' # <<>> /\ rows'[1] = r
      /\ \A tags : /\ Bodies!Texted(rows, tags) \in Seq(Line)
                   /\ Bodies!Texted(rows', tags) = One(r, tags) \o Bodies!Texted(rows, tags)
      /\ Bodies!DelBeforeAdd'
  BY <1>1, <1>3, PushFacts
<1>6. \A x, y : At(x, y)' = At(x, y)
  BY <1>1, TableStays
<1>7. DiffFits'
  BY <1>1, <1>2, <1>5 DEF DiffFits
<1>20. \A s \in Seq(Line) : <<>> \o s = s
  BY ConcatEmptySeq
<1>8. BothShown'
  <2>1. Bodies!Texted(rows', {"eq", "del"}) = SubSeq(a, i, Len(a))
    <3>1. Bodies!Texted(rows', {"eq", "del"}) = <<a[i]>> \o SubSeq(a, i + 1, Len(a))
      BY <1>4, <1>5, OneFacts DEF DiffInductive, BothShown
    <3> QED BY <1>2, <3>1, TextFacts
  <2>2. Bodies!Texted(rows', {"eq", "add"}) = Bodies!Texted(rows, {"eq", "add"})
    BY <1>4, <1>5, <1>20, OneFacts
  <2> QED BY <1>1, <1>2, <2>1, <2>2 DEF DiffInductive, BothShown
<1>21. At(i - 1, j) \in Nat /\ At(i, j) \in Nat /\ (j > 0 => At(i, j - 1) \in Nat)
  <2>1. i - 1 \in 0..Len(a) /\ (j > 0 => j - 1 \in 0..Len(b))
    BY <1>2
  <2> QED BY <1>2, <2>1, AtFacts DEF Lengths
<1>22. At(i, j) = At(i - 1, j)
  <2>1. CASE j = 0
    BY <1>1, <1>2, <2>1, AtFacts DEF Lengths
  <2>2. CASE j > 0
    <3>1. j \in 1..Len(b)
      BY <1>2, <2>2
    <3> QED BY <1>1, <1>2, <2>2, <3>1, AtFacts DEF Lengths
  <2> QED BY <1>2, <2>1, <2>2
<1>9. MostMatched'
  <2>1. Bodies!Texted(rows', {"eq"}) = Bodies!Texted(rows, {"eq"})
    BY <1>4, <1>5, <1>20, OneFacts
  <2>2. At(i', j') = At(i, j)
    BY <1>1, <1>22
  <2> QED BY <1>1, <1>6, <2>1, <2>2 DEF MostMatched, DiffInductive
<1>10. NoAddNext'
  <2> SUFFICES ASSUME j > 0 PROVE i' < Len(a) /\ At(i', j) > At(i' + 1, j - 1)
    BY <1>1, <1>6 DEF NoAddNext
  <2> QED BY <1>1, <1>2
<1> QED BY <1>5, <1>7, <1>8, <1>9, <1>10 DEF DiffInductive

LEMMA AddKeeps == ASSUME LineBounds, DiffInductive, Bodies!Add PROVE DiffInductive'
<1> DEFINE r == [tag |-> "add", text |-> b[j]]
<1>1. /\ j > 0 /\ j' = j - 1 /\ UNCHANGED <<a, b, i, phase>> /\ phase = "walk" /\ rows' = <<r>> \o rows
      /\ i > 0 => a[i] # b[j] /\ ~(At(i - 1, j) > At(i, j - 1))
  BY DEF Bodies!Add, Bodies!Push, Bodies!Row, Bodies!Up, At
<1>2. /\ a \in Bodies!Texts /\ b \in Bodies!Texts /\ Len(a) \in Nat /\ Len(b) \in Nat
      /\ j \in 1..Len(b) /\ j \in 0..Len(b) /\ i \in 0..Len(a) /\ j' \in 0..Len(b) /\ i' = i
      /\ j' + 1 = j
  BY <1>1, TextFacts DEF DiffInductive, DiffFits
<1>3. r \in DiffRow /\ r.tag = "add"
  BY <1>2, TextFacts DEF DiffRow, Tag
<1>4. r = [tag |-> "add", text |-> b[j]]
  BY <1>1
<1> HIDE DEF r
<1>21. At(i, j - 1) \in Nat /\ At(i, j) \in Nat /\ (i > 0 => At(i - 1, j) \in Nat)
  <2>1. j - 1 \in 0..Len(b) /\ (i > 0 => i - 1 \in 0..Len(a))
    BY <1>2
  <2> QED BY <1>2, <2>1, AtFacts DEF Lengths
<1>22. At(i, j) = At(i, j - 1)
  <2>1. CASE i = 0
    BY <1>1, <1>2, <2>1, AtFacts DEF Lengths
  <2>2. CASE i > 0
    <3>1. i \in 1..Len(a)
      BY <1>2, <2>2
    <3> QED BY <1>1, <1>2, <2>2, <3>1, AtFacts DEF Lengths
  <2> QED BY <1>2, <2>1, <2>2
<1>23. ~(rows # <<>> /\ rows[1].tag = "del")
  <2> SUFFICES ASSUME rows # <<>>, rows[1].tag = "del" PROVE FALSE
    OBVIOUS
  <2>1. i < Len(a) /\ At(i, j) > At(i + 1, j - 1)
    BY <1>1 DEF DiffInductive, NoAddNext
  <2>2. i + 1 \in 0..Len(a) /\ j - 1 \in 0..Len(b) /\ i \in 0..(i + 1) /\ j - 1 \in 0..(j - 1)
    BY <1>2, <2>1
  <2>3. At(i, j - 1) <= At(i + 1, j - 1)
    BY <1>2, <2>2, TableGrows DEF Lengths
  <2>4. At(i + 1, j - 1) \in Nat
    BY <1>2, <2>2, AtFacts DEF Lengths
  <2> QED BY <1>21, <1>22, <2>1, <2>3, <2>4
<1>5. /\ rows' \in Seq(DiffRow) /\ rows' # <<>> /\ rows'[1] = r
      /\ \A tags : /\ Bodies!Texted(rows, tags) \in Seq(Line)
                   /\ Bodies!Texted(rows', tags) = One(r, tags) \o Bodies!Texted(rows, tags)
      /\ Bodies!DelBeforeAdd'
  BY <1>1, <1>3, <1>23, PushFacts
<1>6. \A x, y : At(x, y)' = At(x, y)
  BY <1>1, TableStays
<1>7. DiffFits'
  BY <1>1, <1>2, <1>5 DEF DiffFits
<1>20. \A s \in Seq(Line) : <<>> \o s = s
  BY ConcatEmptySeq
<1>8. BothShown'
  <2>1. Bodies!Texted(rows', {"eq", "add"}) = SubSeq(b, j, Len(b))
    <3>1. Bodies!Texted(rows', {"eq", "add"}) = <<b[j]>> \o SubSeq(b, j + 1, Len(b))
      BY <1>4, <1>5, OneFacts DEF DiffInductive, BothShown
    <3> QED BY <1>2, <3>1, TextFacts
  <2>2. Bodies!Texted(rows', {"eq", "del"}) = Bodies!Texted(rows, {"eq", "del"})
    BY <1>4, <1>5, <1>20, OneFacts
  <2> QED BY <1>1, <1>2, <2>1, <2>2 DEF DiffInductive, BothShown
<1>9. MostMatched'
  <2>1. Bodies!Texted(rows', {"eq"}) = Bodies!Texted(rows, {"eq"})
    BY <1>4, <1>5, <1>20, OneFacts
  <2>2. At(i', j') = At(i, j)
    BY <1>1, <1>22
  <2> QED BY <1>1, <1>6, <2>1, <2>2 DEF MostMatched, DiffInductive
<1>10. NoAddNext'
  BY <1>3, <1>5 DEF NoAddNext
<1> QED BY <1>5, <1>7, <1>8, <1>9, <1>10 DEF DiffInductive

LEMMA DiffNext == ASSUME LineBounds PROVE DiffInductive /\ [Bodies!Next]_(Bodies!vars) => DiffInductive'
<1> SUFFICES ASSUME DiffInductive, [Bodies!Next]_(Bodies!vars) PROVE DiffInductive'
  OBVIOUS
<1>1. CASE UNCHANGED <<a, b, i, j, rows>> /\ (phase' = "done" => i = 0 /\ j = 0)
  <2>1. \A x, y : At(x, y)' = At(x, y)
    BY <1>1, TableStays
  <2>2. DiffFits'
    BY <1>1 DEF DiffInductive, DiffFits
  <2>3. BothShown' /\ MostMatched' /\ NoAddNext' /\ Bodies!DelBeforeAdd'
    BY <1>1, <2>1 DEF DiffInductive, BothShown, MostMatched, NoAddNext, Bodies!DelBeforeAdd
  <2> QED BY <2>2, <2>3 DEF DiffInductive
<1>2. CASE Bodies!Start
  BY <1>1, <1>2 DEF Bodies!Start
<1>3. CASE Bodies!Finish
  BY <1>1, <1>3 DEF Bodies!Finish
<1>4. CASE UNCHANGED Bodies!vars
  BY <1>1, <1>4 DEF Bodies!vars, DiffInductive, DiffFits
<1>5. CASE Bodies!Eq
  BY <1>5, EqKeeps
<1>6. CASE Bodies!Del
  BY <1>6, DelKeeps
<1>7. CASE Bodies!Add
  BY <1>7, AddKeeps
<1> QED BY <1>2, <1>3, <1>4, <1>5, <1>6, <1>7 DEF Bodies!Next

(* Every diff of the page shows both texts whole, marks as few lines as any,
   and puts a replacement's deletion before its addition (lineDiff), for texts
   of any length. *)
THEOREM DiffsAreRight == ASSUME LineBounds PROVE Bodies!Spec => []DiffInvariant
<1>1. DiffInductive => DiffInvariant
  <2> SUFFICES ASSUME DiffInductive PROVE DiffInvariant
    OBVIOUS
  <2>1. a \in Bodies!Texts /\ b \in Bodies!Texts /\ (phase = "done" => i = 0 /\ j = 0) /\ rows \in Seq(DiffRow)
    BY DEF DiffInductive, DiffFits
  <2>2. Bodies!ShowsBoth
    <3> SUFFICES ASSUME phase = "done"
                 PROVE  /\ Bodies!Texted(rows, {"eq", "del"}) = a
                        /\ Bodies!Texted(rows, {"eq", "add"}) = b
      BY DEF Bodies!ShowsBoth
    <3>1. i + 1 = 1 /\ j + 1 = 1
      BY <2>1
    <3> QED BY <2>1, <3>1, TextFacts DEF DiffInductive, BothShown
  <2>3. Bodies!Shortest
    <3> SUFFICES ASSUME phase = "done", NEW c \in Bodies!Common
                 PROVE  Len(Bodies!Texted(rows, {"eq"})) >= Len(c)
      BY DEF Bodies!Shortest
    <3>1. Len(c) \in Nat /\ Len(c) <= At(Len(a), Len(b))
      BY <2>1, CommonBound DEF LineBounds
    <3>2. At(i, j) = 0
      <4>1. Len(a) \in Nat /\ Len(b) \in Nat /\ 0 \in 0..Len(b)
        BY <2>1, TextFacts
      <4> QED BY <2>1, <4>1, AtFacts DEF Lengths
    <3>3. Len(Bodies!Texted(rows, {"eq"})) \in Nat
      <4>1. Bodies!Texted(rows, {"eq"}) \in Seq(Line)
        <5>1. PICK g \in [0..Len(rows) -> Seq(Line)] : Bodies!Texted(rows, {"eq"}) = g[Len(rows)]
          BY <2>1, TextedFold
        <5>2. Len(rows) \in 0..Len(rows)
          BY <2>1
        <5> QED BY <5>1, <5>2
      <4> QED BY <4>1
    <3>4. Len(Bodies!Texted(rows, {"eq"})) + At(i, j) = At(Len(a), Len(b))
      BY DEF DiffInductive, MostMatched
    <3> QED BY <3>1, <3>2, <3>3, <3>4
  <2> QED BY <2>2, <2>3 DEF DiffInductive, DiffInvariant, Bodies!DiffInvariant
<1>2. Bodies!Init => DiffInductive
  BY DiffStarts
<1>3. DiffInductive /\ [Bodies!Next]_(Bodies!vars) => DiffInductive'
  BY DiffNext
<1> QED BY <1>1, <1>2, <1>3, PTL DEF Bodies!Spec
=============================================================================
