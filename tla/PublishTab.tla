----------------------------- MODULE PublishTab -----------------------------
(***************************************************************************)
(* The publish view of the editing surface: refreshPublish, armPublishCut, *)
(* cancelPublishCut, confirmPublishCut and renderChangedContentDiff of     *)
(* knowledge-server/ui/app.js, cut at their awaits, against the server's   *)
(* PreviewRelease and CutRelease, other editors and other cuts.            *)
(*                                                                         *)
(* What a release would contain is a member of Content, which stands for   *)
(* its content hash as well; None is a candidate that lint refuses.  The   *)
(* view is entered through refreshPublish, so leaving it needs no action.  *)
(***************************************************************************)
EXTENDS Naturals, Sequences

CONSTANTS
  Content,      \* what a release may contain
  Slot,         \* requests in flight
  None,         \* no value
  MaxRelease,   \* bound: releases
  MaxEdit       \* bound: changes by other editors

VARIABLES
  patient,      \* the operator waits for every answer
  (* server *)
  active,       \* what a release cut now would contain
  releases,     \* the contents of the releases, in order
  edits,        \* changes made so far
  (* page *)
  current,      \* publishCurrent: a release, 0 for none
  candidate,    \* publishCandidate
  armed,        \* publishConfirmArmed; Confirm and Cancel are visible
  cutOn,        \* the Cut button is enabled
  preview,      \* the candidate in the preview pane, None for a text
  diff,         \* the manifest diff: of which release and candidate
  box,          \* the content diff: of an entry of which manifest diff
  call,         \* the requests of the running handlers
  (* history *)
  seen,         \* candidates the preview pane has shown
  reviewed,     \* the candidate it showed when Cut was clicked last
  refused       \* the candidate the page was told is out of date, no refresh since

server == <<active, releases, edits>>
panes == <<current, candidate, armed, cutOn, preview, diff, box>>
history == <<seen, reviewed, refused>>
vars == <<patient, server, panes, call, history>>

Candidate == Content \cup {None}
Diff == [old : Nat, new : Candidate]

Call ==
  [step : {"current", "preview", "content", "cut"}, awaited : BOOLEAN,
   served : BOOLEAN, ok : BOOLEAN, lint : BOOLEAN, release : Nat,
   content : Candidate, reviewed : Candidate, of : Diff \cup {None}]

TypeOK ==
  /\ patient \in BOOLEAN
  /\ active \in Candidate
  /\ releases \in Seq(Content)
  /\ edits \in Nat
  /\ current \in Nat
  /\ candidate \in Candidate
  /\ armed \in BOOLEAN /\ cutOn \in BOOLEAN
  /\ preview \in Candidate
  /\ diff \in Diff \cup {None}
  /\ box \in Diff \cup {None}
  /\ call \in [Slot -> Call \cup {None}]
  /\ seen \subseteq Content /\ reviewed \in Candidate /\ refused \in Candidate

Init ==
  /\ patient \in BOOLEAN
  /\ active \in Candidate
  /\ releases = <<>>
  /\ edits = 0
  /\ current = 0 /\ candidate = None /\ armed = FALSE /\ cutOn = FALSE
  /\ preview = None /\ diff = None /\ box = None
  /\ call = [s \in Slot |-> None]
  /\ seen = {} /\ reviewed = None /\ refused = None

-----------------------------------------------------------------------------
(* The server and the other editors. *)

Edited(c) ==
  /\ edits < MaxEdit /\ c # active
  /\ active' = c
  /\ edits' = edits + 1
  /\ refused' = IF c = refused THEN None ELSE refused
  /\ UNCHANGED <<releases, panes, call, seen, reviewed>>

CutElsewhere ==
  /\ active # None /\ Len(releases) < MaxRelease
  /\ releases' = Append(releases, active)
  /\ UNCHANGED <<active, edits, panes, call, history>>

Waits(s, step) ==
  call[s] # None /\ call[s].step = step /\ ~call[s].served

ServeCurrent(s) ==
  /\ Waits(s, "current")
  /\ call' = [call EXCEPT ![s].served = TRUE, ![s].release = Len(releases)]
  /\ UNCHANGED <<server, panes, history>>

ServePreview(s) ==
  /\ Waits(s, "preview")
  /\ call' = [call EXCEPT ![s].served = TRUE, ![s].content = active]
  /\ UNCHANGED <<server, panes, history>>

(* Two versions of a document, which never change. *)
ServeContent(s) ==
  /\ Waits(s, "content")
  /\ call' = [call EXCEPT ![s].served = TRUE]
  /\ UNCHANGED <<server, panes, history>>

(* Mutant: the expected hash is not compared. *)
CutsBlindly(s) == active # None

(* CutRelease lints the candidate, then compares its hash with the expected
   one. *)
Cuts(s) == active # None /\ call[s].content = active

ServeCut(s) ==
  /\ Waits(s, "cut")
  /\ Cuts(s) => Len(releases) < MaxRelease
  /\ releases' = IF Cuts(s) THEN Append(releases, active) ELSE releases
  /\ call' = [call EXCEPT ![s] =
       IF call[s].awaited
         THEN [call[s] EXCEPT !.served = TRUE, !.ok = Cuts(s), !.lint = (active = None)]
         ELSE None]
  /\ UNCHANGED <<active, edits, panes, history>>

-----------------------------------------------------------------------------
(* The page. *)

Request(step) ==
  [step |-> step, awaited |-> TRUE, served |-> FALSE, ok |-> FALSE,
   lint |-> FALSE, release |-> 0, content |-> None, reviewed |-> None, of |-> None]

Ends(s) == call' = [call EXCEPT ![s] = None]

Answered(s, step) ==
  call[s] # None /\ call[s].step = step /\ call[s].awaited /\ call[s].served

(* Mutant: the candidate of the last refresh is kept. *)
RefreshKeepsCandidate(s) ==
  /\ current' = 0
  /\ armed' = FALSE /\ cutOn' = FALSE
  /\ preview' = None /\ diff' = None /\ box' = None
  /\ refused' = None
  /\ call' = [call EXCEPT ![s] = Request("current")]
  /\ UNCHANGED <<server, candidate, seen, reviewed>>

(* refreshPublish up to its first await: everything is reset. *)
RefreshPublish(s) ==
  /\ current' = 0 /\ candidate' = None
  /\ armed' = FALSE /\ cutOn' = FALSE
  /\ preview' = None /\ diff' = None /\ box' = None
  /\ refused' = None
  /\ call' = [call EXCEPT ![s] = Request("current")]
  /\ UNCHANGED <<server, seen, reviewed>>

Click(s) == call[s] = None /\ RefreshPublish(s)

(* The current release, or its absence; then the preview is asked for. *)
CurrentArrives(s) ==
  /\ Answered(s, "current")
  /\ current' = call[s].release
  /\ call' = [call EXCEPT ![s] = Request("preview")]
  /\ UNCHANGED <<server, candidate, armed, cutOn, preview, diff, box, history>>

(* The end of refreshPublish: the manifests are compared, and Cut is enabled
   when there is a candidate. *)
Rendered ==
  /\ diff' = [old |-> current, new |-> candidate']
  /\ cutOn' = (candidate' # None)

PreviewArrives(s) ==
  /\ Answered(s, "preview")
  /\ Ends(s)
  /\ candidate' = call[s].content
  /\ preview' = call[s].content
  /\ seen' = seen \cup ({call[s].content} \ {None})
  /\ Rendered
  /\ UNCHANGED <<server, current, armed, box, reviewed, refused>>

ArmPublishCut ==
  /\ cutOn /\ candidate # None
  /\ armed' = TRUE
  /\ reviewed' = preview
  /\ UNCHANGED <<server, current, candidate, cutOn, preview, diff, box, call,
                 seen, refused>>

CancelPublishCut ==
  /\ armed
  /\ armed' = FALSE
  /\ UNCHANGED <<server, current, candidate, cutOn, preview, diff, box, call,
                 history>>

(* Mutant: Confirm cuts whatever is there, without a hash. *)
ConfirmUnconditional(s) ==
  /\ armed /\ candidate # None /\ call[s] = None
  /\ call' = [call EXCEPT ![s] = [Request("cut") EXCEPT !.content = active]]
  /\ UNCHANGED <<server, panes, history>>

(* confirmPublishCut up to its await; the buttons stay as they are. *)
ConfirmPublishCut(s) ==
  /\ armed /\ candidate # None /\ call[s] = None
  /\ call' = [call EXCEPT ![s] =
       [Request("cut") EXCEPT !.content = candidate, !.reviewed = reviewed]]
  /\ UNCHANGED <<server, panes, history>>

(* The answer to a cut: done, and refresh; or lint or a changed candidate,
   and Cut is disabled. *)
CutArrives(s) ==
  /\ Answered(s, "cut")
  /\ IF call[s].ok
       THEN RefreshPublish(s)
       ELSE /\ Ends(s)
            /\ armed' = FALSE /\ candidate' = None /\ cutOn' = FALSE
            /\ refused' = IF call[s].lint THEN refused ELSE call[s].content
            /\ UNCHANGED <<server, current, preview, diff, box, seen, reviewed>>

(* A changed entry of the manifest diff is clicked. *)
ShowContent(s) ==
  /\ diff # None /\ diff.old # 0 /\ diff.new # None /\ call[s] = None
  /\ call' = [call EXCEPT ![s] = [Request("content") EXCEPT !.of = diff]]
  /\ UNCHANGED <<server, panes, history>>

ContentArrives(s) ==
  /\ Answered(s, "content")
  /\ Ends(s)
  /\ box' = call[s].of
  /\ UNCHANGED <<server, current, candidate, armed, cutOn, preview, diff, history>>

-----------------------------------------------------------------------------
(* Errors: another status, or no answer. *)

(* refreshPublish goes on after an error, with what the state holds. *)
CurrentFails(s) ==
  /\ call[s] # None /\ call[s].step = "current"
  /\ call' = [call EXCEPT ![s] = Request("preview")]
  /\ UNCHANGED <<server, panes, history>>

PreviewFails(s) ==
  /\ call[s] # None /\ call[s].step = "preview"
  /\ Ends(s)
  /\ preview' = None
  /\ UNCHANGED candidate
  /\ Rendered
  /\ UNCHANGED <<server, current, armed, box, history>>

ContentFails(s) ==
  /\ call[s] # None /\ call[s].step = "content"
  /\ Ends(s)
  /\ box' = None
  /\ UNCHANGED <<server, current, candidate, armed, cutOn, preview, diff, history>>

(* A cut may be served before the answer is lost, later, or never. *)
CutFails(s) ==
  /\ call[s] # None /\ call[s].step = "cut" /\ call[s].awaited
  /\ \/ Ends(s)
     \/ ~call[s].served /\ call' = [call EXCEPT ![s].awaited = FALSE]
  /\ UNCHANGED <<server, panes, history>>

CutLost(s) ==
  /\ call[s] # None /\ ~call[s].awaited
  /\ Ends(s)
  /\ UNCHANGED <<server, panes, history>>

(* A 401: the handler stops; the operator is sent to the login view.  An answer
   that is cut in its body stops the handler in the same way. *)
Rejected(s) ==
  /\ call[s] # None /\ call[s].awaited /\ ~call[s].served
  /\ Ends(s)
  /\ UNCHANGED <<server, panes, history>>

-----------------------------------------------------------------------------
Others == (\E c \in Candidate : Edited(c)) \/ CutElsewhere

Answer(s) ==
  \/ ServeCurrent(s) \/ ServePreview(s) \/ ServeContent(s) \/ ServeCut(s)
  \/ CurrentArrives(s) \/ PreviewArrives(s) \/ CutArrives(s) \/ ContentArrives(s)
  \/ CurrentFails(s) \/ PreviewFails(s) \/ CutFails(s) \/ ContentFails(s)
  \/ CutLost(s) \/ Rejected(s)

Operator(s) == Click(s) \/ ConfirmPublishCut(s) \/ ShowContent(s)

Quiet == \A s \in Slot : call[s] # None => ~call[s].awaited

Next ==
  /\ UNCHANGED patient
  /\ \/ Others
     \/ \E s \in Slot : Answer(s)
     \/ /\ patient => Quiet
        /\ \/ \E s \in Slot : Operator(s)
           \/ ArmPublishCut
           \/ CancelPublishCut

Spec == Init /\ [][Next]_vars

-----------------------------------------------------------------------------
(* What must hold. *)

(* A cut of the page is served in this step. *)
CutServed(s) == Waits(s, "cut") /\ releases' # releases /\ call'[s] # call[s]

(* "The UI submits the preview content hash" (README.md): whatever the other
   editors do, and however often a cut is sent again, the page never releases
   content its preview pane has not shown. *)
CutWasShown == [][\A s \in Slot : CutServed(s) => active \in seen]_vars

(* An operator who waits releases exactly what the pane showed when Cut was
   clicked, even when the request is served after he has given up on it. *)
CutAsReviewed == [][\A s \in Slot : patient /\ CutServed(s) => active = call[s].reviewed]_vars

(* What such an operator looks at when Cut can be clicked belongs together: the
   preview, the candidate whose hash would be sent, the manifest diff and the
   content diff. *)
ReviewCoherent ==
  patient /\ cutOn =>
    /\ candidate # None
    /\ preview = candidate
    /\ diff = [old |-> current, new |-> candidate]
    /\ box \in {None, diff}

(* What every state of refreshPublish and the cut satisfies: what an operator
   who waits looks at belongs together. *)
PublishInvariant == TypeOK /\ ReviewCoherent

(* "The stale hash is useless now, so the candidate is dropped and Cut stays
   disabled until the next refresh recomputes both - re-cutting the same stale
   hash would only clear this guidance and 409 again" (confirmPublishCut). *)
DisabledUntilRefresh == refused # None => ~(cutOn /\ candidate = refused)
=============================================================================
