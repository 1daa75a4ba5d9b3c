----------------------------- MODULE EditorTab -----------------------------
(***************************************************************************)
(* The editor and history views of the editing surface: openEditor,        *)
(* submitEditorSave, enterHistoryView, viewHistoryVersion and              *)
(* diffTwoVersions of knowledge-server/ui/app.js, cut at their awaits,     *)
(* against the documents of the server and the saves of other editors.     *)
(*                                                                         *)
(* A document is a list of versions, a version is who wrote it.  The form  *)
(* is what it was filled from: the family, and the last version the        *)
(* operator had before him when typing (0 for a document that is not       *)
(* there).  After an await a handler goes on only if state.current is the  *)
(* object it started with and, in the history view, if no later request    *)
(* was made; fresh says whether both still hold.                           *)
(***************************************************************************)
EXTENDS Naturals, Sequences, FiniteSets

CONSTANTS
  Family,       \* documents
  Slot,         \* requests in flight
  None,         \* no value
  MaxVersion    \* bound: versions of a document

ASSUME BoundAssumption == MaxVersion \in Nat \ {0}
ASSUME NoneAssumption == None \notin Family

VARIABLES
  task,       \* what the operator is at: "edit" or "read"
  author,     \* server: author[f][v] wrote version v of f
  current,    \* state.current
  form,       \* the fields of the editor, None when they are blank
  reload,     \* the Reload button is enabled
  history,    \* historyDocument, the list, the diff pane and the path above
  view,       \* the visible view; "other" stands for those of other modules
  call,       \* the requests of the running handlers
  cut,        \* history: an answer the open editor waited for was cut short
  orphaned,   \* history: families with a save whose answer the page misses
  asked       \* history: what the operator asked the history view for last

page == <<current, form, reload, history, view>>
vars == <<task, author, page, call, cut, orphaned, asked>>

Version == 0..MaxVersion
Form == [of : Family, from : Version]
Pane == [of : Family, versions : SUBSET Version]

Call ==
  [step : {"load", "save", "list", "show"}, of : Family, fresh : BOOLEAN,
   awaited : BOOLEAN, served : BOOLEAN, ok : BOOLEAN, version : Version,
   form : Form \cup {None}, base : Version, shows : SUBSET Version]

(* Types; and a save never sends the blank form of a document that is being
   loaded (setEditorLoading). *)
TypeOK ==
  /\ task \in {"edit", "read"}
  /\ author \in [Family -> Seq({"page", "other"})]
  /\ \A f \in Family : Len(author[f]) <= MaxVersion
  /\ current \in {None} \cup
       [of : Family, base : Version, loading : BOOLEAN, saving : BOOLEAN,
        conflict : BOOLEAN]
  /\ form \in Form \cup {None}
  /\ reload \in BOOLEAN
  /\ history \in [of : Family \cup {None}, listed : Version,
                  pane : Pane \cup {None}, path : Family \cup {None}]
  /\ view \in {"editor", "history", "other"}
  /\ call \in [Slot -> Call \cup {None}]
  /\ \A s \in Slot : call[s] # None /\ call[s].step = "save" => call[s].form # None
  /\ cut \in BOOLEAN
  /\ orphaned \subseteq Family
  /\ asked \in Pane \cup {None}

NoHistory == [of |-> None, listed |-> 0, pane |-> None, path |-> None]

Init ==
  /\ task \in {"edit", "read"}
  /\ author \in [Family -> {<<>>, <<"other">>}]
  /\ current = None
  /\ form = None
  /\ reload = FALSE
  /\ history = NoHistory
  /\ view = "other"
  /\ call = [s \in Slot |-> None]
  /\ cut = FALSE
  /\ orphaned = {}
  /\ asked = None

-----------------------------------------------------------------------------
(* The server and the other editors. *)

Latest(f) == Len(author[f])

(* Another editor's save is accepted. *)
Edited(f) ==
  /\ Latest(f) < MaxVersion
  /\ author' = [author EXCEPT ![f] = Append(@, "other")]
  /\ UNCHANGED <<page, call, cut, orphaned, asked>>

Waits(s, steps) ==
  call[s] # None /\ call[s].step \in steps /\ ~call[s].served

(* GetDoc without a version answers the latest, 404 when there is none (0);
   DocHistory lists them all; versions never change, so what a view or a diff
   fetches does not depend on when. *)
ServeRead(s) ==
  /\ Waits(s, {"load", "list", "show"})
  /\ call' = [call EXCEPT ![s].served = TRUE, ![s].ok = TRUE,
                          ![s].version = Latest(call[s].of)]
  /\ UNCHANGED <<author, page, cut, orphaned, asked>>

(* SaveDoc: a base_version (0 for none) must be the current version, or the
   save is refused with 409.  Nobody may be waiting for the answer any more. *)
ServeSave(s) ==
  LET c == call[s]
      ok == c.base \in {0, Latest(c.of)}
  IN  /\ Waits(s, {"save"})
      /\ ok => Latest(c.of) < MaxVersion
      /\ author' = IF ok THEN [author EXCEPT ![c.of] = Append(@, "page")] ELSE author
      /\ call' = [call EXCEPT ![s] =
           IF c.awaited THEN [c EXCEPT !.served = TRUE, !.ok = ok,
                                       !.version = IF ok THEN Latest(c.of) + 1 ELSE 0]
                        ELSE None]
      /\ UNCHANGED <<page, cut, orphaned, asked>>

-----------------------------------------------------------------------------
(* The editor. *)

Request(step, f) ==
  [step |-> step, of |-> f, fresh |-> TRUE, awaited |-> TRUE, served |-> FALSE,
   ok |-> FALSE, version |-> 0, form |-> None, base |-> 0, shows |-> {}]

Answered(s, step) ==
  call[s] # None /\ call[s].step = step /\ call[s].served /\ call[s].awaited

Ends(s) == call' = [call EXCEPT ![s] = None]

(* The requests of handlers that will find another state.current. *)
Outdated == [t \in Slot |-> IF call[t] = None THEN None
                                              ELSE [call[t] EXCEPT !.fresh = FALSE]]

(* Families of saves whose handler would still have used the answer. *)
AwaitedSaves ==
  {call[t].of : t \in {t \in Slot :
     call[t] # None /\ call[t].step = "save" /\ call[t].awaited}}

(* openEditor up to its await: the new object, a blank locked form.  A reload
   hands the old save state (base) over, which the lock keeps from being
   used. *)
OpenEditor(s, f, base) ==
  /\ call[s] = None
  /\ view' = "editor"
  /\ current' = [of |-> f, base |-> base, loading |-> TRUE, saving |-> FALSE,
                 conflict |-> FALSE]
  /\ form' = None
  /\ reload' = FALSE
  /\ call' = [Outdated EXCEPT ![s] = Request("load", f)]
  /\ cut' = FALSE
  /\ orphaned' = orphaned \cup AwaitedSaves
  /\ UNCHANGED <<author, history, asked>>

(* A row of the list of documents, or the name of a new one. *)
Open(s, f) == view = "other" /\ OpenEditor(s, f, 0)

Reload(s) ==
  /\ view = "editor" /\ reload
  /\ OpenEditor(s, current.of, current.base)

(* Mutant: openEditor does not look at what is open when the answer comes. *)
LoadArrivesAnyway(s) ==
  LET c == call[s]
  IN  /\ Answered(s, "load")
      /\ Ends(s)
      /\ current' = [current EXCEPT !.base = c.version, !.loading = FALSE]
      /\ form' = [of |-> c.of, from |-> c.version]
      /\ reload' = TRUE
      /\ UNCHANGED <<author, history, view, cut, orphaned, asked>>

(* The document, or its absence, arrives: the form is filled and unlocked. *)
LoadArrives(s) ==
  LET c == call[s]
  IN  /\ Answered(s, "load")
      /\ Ends(s)
      /\ IF c.fresh
           THEN /\ current' = [current EXCEPT !.base = c.version, !.loading = FALSE]
                /\ form' = [of |-> c.of, from |-> c.version]
                /\ reload' = TRUE
           ELSE UNCHANGED <<current, form, reload>>
      /\ UNCHANGED <<author, history, view, cut, orphaned, asked>>

(* Mutant: a second click sends the save again. *)
SubmitSaveAgain(s) ==
  /\ view = "editor" /\ current # None /\ ~current.loading
  /\ call[s] = None
  /\ current' = [current EXCEPT !.saving = TRUE]
  /\ call' = [call EXCEPT ![s] =
       [Request("save", current.of) EXCEPT !.form = form, !.base = current.base]]
  /\ UNCHANGED <<author, form, reload, history, view, cut, orphaned, asked>>

(* submitEditorSave up to its await. *)
SubmitSave(s) ==
  /\ view = "editor" /\ current # None /\ ~current.loading /\ ~current.saving
  /\ call[s] = None
  /\ current' = [current EXCEPT !.saving = TRUE]
  /\ call' = [call EXCEPT ![s] =
       [Request("save", current.of) EXCEPT !.form = form, !.base = current.base]]
  /\ UNCHANGED <<author, form, reload, history, view, cut, orphaned, asked>>

(* The answer to a save.  The form keeps what was typed, which now follows the
   saved version; a refusal keeps the base and shows the merge button. *)
SaveArrives(s) ==
  LET c == call[s]
  IN  /\ Answered(s, "save")
      /\ Ends(s)
      /\ IF ~c.fresh
           THEN UNCHANGED <<current, form>>
         ELSE IF c.ok
           THEN /\ current' = [current EXCEPT !.saving = FALSE, !.base = c.version,
                                              !.conflict = FALSE]
                /\ form' = [form EXCEPT !.from = c.version]
           ELSE /\ current' = [current EXCEPT !.saving = FALSE, !.conflict = TRUE]
                /\ UNCHANGED form
      /\ UNCHANGED <<author, reload, history, view, cut, orphaned, asked>>

-----------------------------------------------------------------------------
(* The history view. *)

HistorySteps == {"list", "show"}

(* ++state.historyGen: the earlier requests of the view will be ignored. *)
Newer(s, request) ==
  [t \in Slot |->
     IF t = s THEN request
     ELSE IF call[t] # None /\ call[t].step \in HistorySteps
       THEN [call[t] EXCEPT !.fresh = FALSE]
     ELSE call[t]]

(* enterHistoryView up to its await; a list of the same document stays until
   the new one is there. *)
EnterHistory(s) ==
  /\ view = "editor" /\ current # None /\ ~current.loading
  /\ call[s] = None
  /\ view' = "history"
  /\ history' = [(IF history.of = current.of THEN history ELSE NoHistory)
                   EXCEPT !.path = current.of]
  /\ asked' = None
  /\ call' = Newer(s, Request("list", current.of))
  /\ UNCHANGED <<author, current, form, reload, cut, orphaned>>

ListArrives(s) ==
  LET c == call[s]
  IN  /\ Answered(s, "list")
      /\ Ends(s)
      /\ history' = IF c.fresh
                      THEN [history EXCEPT !.of = c.of, !.listed = c.version,
                                           !.pane = None]
                      ELSE history
      /\ UNCHANGED <<author, current, form, reload, view, cut, orphaned, asked>>

(* Mutant: a request does not outdate the ones before it. *)
ShowVersionsUnnumbered(s, vs) ==
  /\ view = "history" /\ current # None
  /\ call[s] = None
  /\ asked' = [of |-> current.of, versions |-> vs]
  /\ call' = [call EXCEPT ![s] = [Request("show", current.of) EXCEPT !.shows = vs]]
  /\ UNCHANGED <<author, page, cut, orphaned>>

(* viewHistoryVersion of one version or diffTwoVersions of two, up to the
   await; the versions are those of the list, the family that of the editor. *)
ShowVersions(s, vs) ==
  /\ view = "history" /\ current # None
  /\ call[s] = None
  /\ asked' = [of |-> current.of, versions |-> vs]
  /\ call' = Newer(s, [Request("show", current.of) EXCEPT !.shows = vs])
  /\ UNCHANGED <<author, page, cut, orphaned>>

ShowArrives(s) ==
  LET c == call[s]
  IN  /\ Answered(s, "show")
      /\ Ends(s)
      /\ history' = IF c.fresh
                      THEN [history EXCEPT !.pane = [of |-> c.of, versions |-> c.shows]]
                      ELSE history
      /\ UNCHANGED <<author, current, form, reload, view, cut, orphaned, asked>>

-----------------------------------------------------------------------------
(* Errors. *)

(* A save that was sent may be served after the page has given up on it, or
   get lost then. *)
GivenUp(s) ==
  \/ Ends(s)
  \/ /\ call[s].step = "save" /\ ~call[s].served
     /\ call' = [call EXCEPT ![s].awaited = FALSE]

Lost(s) ==
  /\ call[s] # None /\ ~call[s].awaited
  /\ Ends(s)
  /\ UNCHANGED <<author, page, cut, orphaned, asked>>

(* The handler gets no answer it can use; the history view keeps what it
   shows. *)
Unanswered(s) ==
  LET c == call[s]
  IN  /\ c # None /\ c.awaited
      /\ GivenUp(s)
      /\ orphaned' = IF c.step = "save" THEN orphaned \cup {c.of} ELSE orphaned
      /\ asked' = IF c.fresh /\ c.step \in HistorySteps THEN history.pane ELSE asked
      /\ UNCHANGED <<author, form, history, view>>

(* An error answer or none: a load leaves the form locked and enables Reload,
   a save may be tried again. *)
Fails(s) ==
  LET c == call[s]
  IN  /\ Unanswered(s)
      /\ reload' = (reload \/ (c.fresh /\ c.step = "load"))
      /\ current' = IF c.fresh /\ c.step = "save"
                      THEN [current EXCEPT !.saving = FALSE] ELSE current
      /\ UNCHANGED cut

(* An answer that is cut in its body: resp.text() rejects outside the try of
   apiFetch and no handler of these views catches it, so that nothing after
   their await is run.  A load whose 200 does not parse ends the same way. *)
CutShort(s) ==
  /\ Unanswered(s)
  /\ cut' = (cut \/ (call[s].fresh /\ call[s].step \in {"load", "save"}))
  /\ UNCHANGED <<current, reload>>

(* A 401: apiFetch shows the login view whoever asked; the handler stops. *)
Rejected(s) ==
  LET c == call[s]
  IN  /\ c # None /\ c.awaited /\ ~c.served
      /\ Ends(s)
      /\ view' = "other"
      /\ current' = IF c.fresh /\ c.step = "save"
                      THEN [current EXCEPT !.saving = FALSE] ELSE current
      /\ asked' = IF c.fresh /\ c.step \in HistorySteps THEN history.pane ELSE asked
      /\ UNCHANGED <<author, form, reload, history, cut, orphaned>>

-----------------------------------------------------------------------------
(* The navigation bar, the merge button, and Back to editor. *)
Leave == view # "other" /\ view' = "other"
         /\ UNCHANGED <<author, current, form, reload, history, call, cut, orphaned, asked>>

Back == view = "history" /\ view' = "editor"
        /\ UNCHANGED <<author, current, form, reload, history, call, cut, orphaned, asked>>

Answer(s) ==
  \/ ServeRead(s) \/ ServeSave(s)
  \/ LoadArrives(s) \/ SaveArrives(s) \/ ListArrives(s) \/ ShowArrives(s)
  \/ Fails(s) \/ CutShort(s) \/ Rejected(s) \/ Lost(s)

Opens(s) == (\E f \in Family : Open(s, f)) \/ Reload(s)

Reads(s) ==
  \/ EnterHistory(s)
  \/ \E vs \in SUBSET (1..history.listed) :
       Cardinality(vs) \in {1, 2} /\ ShowVersions(s, vs)

Others == \E f \in Family : Edited(f)

(* The two views touch disjoint state but for the document that is open, so
   they are explored apart: an operator who edits, and one who reads. *)
Next ==
  /\ UNCHANGED task
  /\ \/ Others
     \/ \E s \in Slot :
          \/ Answer(s) \/ Opens(s)
          \/ task = "edit" /\ SubmitSave(s)
          \/ task = "read" /\ Reads(s)
     \/ Leave
     \/ Back

Spec == Init /\ [][Next]_vars

-----------------------------------------------------------------------------
(* What must hold. *)

(* What the server accepts from the page was typed into a form that was filled
   for that very document, over the version it replaces; only a form filled
   for a document that was not there may go over versions nobody saw here.
   (The load gate and the request identity of docs/plans/ui-help-loading.md,
   UX-2 and UX-3, together with base_version.) *)
SavesWhatWasShown ==
  [][\A s \in Slot :
       Waits(s, {"save"}) /\ author' # author /\ call'[s] # call[s] =>
         call[s].form \in {[of |-> call[s].of, from |-> Latest(call[s].of)],
                           [of |-> call[s].of, from |-> 0]}
         /\ call[s].form.from = call[s].base]_vars

(* The page never competes with itself: when a save finds another version than
   the one it was based on, some other editor was at work since, or an answer
   to an earlier save was missed (a double click does not save twice, nor end
   in a conflict with itself). *)
NoSelfRace ==
  [][\A s \in Slot :
       /\ Waits(s, {"save"}) /\ ~Waits(s, {"save"})'
       /\ author' # author \/ (call'[s] # None /\ call'[s].served)
       /\ Latest(call[s].of) # call[s].base
       => \/ call[s].of \in orphaned
          \/ \E v \in DOMAIN author[call[s].of] :
               v > call[s].base /\ author[call[s].of][v] = "other"]_vars

(* UX-4: history of one document is never shown under the path of another. *)
HistoryUnderItsPath ==
  view = "history" =>
    /\ history.path = current.of
    /\ history.of \in {None, history.path}
    /\ history.pane # None => history.pane.of = history.path

(* UX-5: once the answers are in, the pane shows what was asked for last; an
   answer to an earlier click does not replace it. *)
PaneAsAsked ==
  view = "history" /\ (\A s \in Slot : call[s] # None => call[s].step \notin HistorySteps)
    => history.pane = asked

AwaitsAnswer(step) ==
  \E s \in Slot : call[s] # None /\ call[s].step = step /\ call[s].fresh /\ call[s].awaited

(* UX-2: an editor whose document did not come ("every other response") can
   be loaded again. *)
NeverStuck ==
  view = "editor" => ~current.loading \/ reload \/ AwaitsAnswer("load")

(* An open editor refuses a save only while the answer to one is awaited. *)
SavesAgain ==
  current # None /\ current.saving => AwaitsAnswer("save")

(* What keeps an editor locked, or its save button dead, for longer than an
   answer takes is a handler that died of an answer cut short, and nothing
   else: no error, no late or missed answer, no click in between. *)
LockedByCutOnly == cut \/ (NeverStuck /\ SavesAgain)

(* What every state of openEditor and enterHistoryView satisfies, however their
   answers come: an editor is locked for a reason, and history is shown under
   its own path and as asked for last. *)
EditorInvariant == TypeOK /\ LockedByCutOnly /\ HistoryUnderItsPath /\ PaneAsAsked
=============================================================================
