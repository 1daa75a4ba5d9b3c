---------------------------- MODULE ConflictView ----------------------------
(***************************************************************************)
(* The conflict page of the editing surface: openConflict and              *)
(* submitResolve of knowledge-server/ui/app.js, cut at their awaits,       *)
(* against the conflict register of the server.  The browser runs one      *)
(* handler at a time up to its next await; answers arrive in any order;    *)
(* the operator may click on while answers are awaited; and other editors  *)
(* save and are refused meanwhile.                                         *)
(*                                                                         *)
(* A document is its version number, 0 before there is one; a refused      *)
(* payload is the number of its attempt.  Every conflict is of a family of *)
(* its own.                                                                *)
(***************************************************************************)
EXTENDS Naturals

CONSTANTS
  Record,       \* conflict records
  Slot,         \* requests in flight
  None,         \* no value
  MaxVersion,   \* bound: versions of a family
  MaxAttempts   \* bound: attempts of a record

VARIABLES
  patient,    \* the operator waits for every answer
  (* server *)
  merges,     \* the record is an edit conflict, not a policy or claim one
  born,       \* its family had a version when the conflict was recorded
  open,       \* the record is open
  attempts,   \* its attempts; attempted is the payload of the last one
  version,    \* the current version of its family
  saves,      \* history: resolutions of the record that saved a version
  (* page *)
  conflict,   \* state.conflict; version is that of the document of from
  form,       \* the merge form: of which record, which attempt, 0 for current
  keepOn, saveOn,   \* the two resolve buttons are enabled
  hidden,     \* the resolution field and the keep button are hidden
  merging,    \* the merge form and the save button are not
  shown,      \* the conflict view is the visible one
  call        \* the requests of the running handlers

kinds == <<merges, born>>
server == <<open, attempts, version, saves>>
page == <<conflict, form, keepOn, saveOn, hidden, merging, shown>>
vars == <<patient, kinds, server, page, call>>

Form == [of : Record, attempt : 0..MaxAttempts]

(* A request and, once it is served, its answer.  seen is the attempts of the
   record fetched or resolved, version that of the document fetched or the
   base_version sent. *)
Call ==
  [step : {"record", "current", "resolve"}, served : BOOLEAN, ok : BOOLEAN,
   id : Record, seen : 0..MaxAttempts, open : BOOLEAN,
   version : 0..MaxVersion, save : Form \cup {None}]

TypeOK ==
  /\ patient \in BOOLEAN
  /\ {merges, born} \subseteq [Record -> BOOLEAN]
  /\ open \in [Record -> BOOLEAN]
  /\ attempts \in [Record -> 1..MaxAttempts]
  /\ version \in [Record -> 0..MaxVersion]
  /\ saves \in [Record -> 0..MaxVersion]
  /\ conflict \in {None} \cup
       [id : Record, seen : 1..MaxAttempts,
        from : Record \cup {None}, version : 0..MaxVersion]
  /\ form \in Form \cup {None}
  /\ {keepOn, saveOn, hidden, merging, shown} \subseteq BOOLEAN
  /\ call \in [Slot -> Call \cup {None}]

Init ==
  /\ patient \in BOOLEAN
  /\ merges \in [Record -> BOOLEAN]
  /\ born \in [Record -> BOOLEAN] /\ \A r \in Record : born[r] \/ merges[r]
  /\ open = [r \in Record |-> TRUE]
  /\ attempts = [r \in Record |-> 1]
  /\ version = [r \in Record |-> IF born[r] THEN 1 ELSE 0]
  /\ saves = [r \in Record |-> 0]
  /\ conflict = None
  /\ form = None
  /\ keepOn = FALSE /\ saveOn = FALSE /\ hidden = FALSE
  /\ merging = FALSE /\ shown = FALSE
  /\ call = [s \in Slot |-> None]

-----------------------------------------------------------------------------
(* The server and the other editors. *)

(* Another editor's save is accepted.  The page does not read the documents of
   a record that is not to be merged. *)
Edited(r) ==
  /\ merges[r] /\ version[r] < MaxVersion
  /\ version' = [version EXCEPT ![r] = @ + 1]
  /\ UNCHANGED <<open, attempts, saves, page, call>>

(* Another editor's save or cut is refused and recorded on the open conflict. *)
Refused(r) ==
  /\ open[r] /\ attempts[r] < MaxAttempts
  /\ attempts' = [attempts EXCEPT ![r] = @ + 1]
  /\ UNCHANGED <<open, version, saves, page, call>>

(* Request s of that step is waiting to be served. *)
Waits(s, step) ==
  call[s] # None /\ call[s].step = step /\ ~call[s].served

ServeRecord(s) ==
  /\ Waits(s, "record")
  /\ call' = [call EXCEPT ![s].served = TRUE, ![s].ok = TRUE,
                          ![s].seen = attempts[call[s].id],
                          ![s].open = open[call[s].id]]
  /\ UNCHANGED <<server, page>>

(* A family without versions is answered by 404. *)
ServeCurrent(s) ==
  /\ Waits(s, "current")
  /\ call' = [call EXCEPT ![s].served = TRUE, ![s].ok = TRUE,
                          ![s].version = version[call[s].id]]
  /\ UNCHANGED <<server, page>>

(* Mutant: a resolution that does not look at the attempts. *)
AcceptedUnseen(c) ==
  /\ open[c.id]
  /\ c.save # None => c.version \in {0, version[c.id]} /\ version[c.id] < MaxVersion

(* ResolveConflict accepts: open, no attempt since, and a save only of an edit
   conflict, on the current version, or on any when no base_version is sent
   (0). *)
Accepted(c) ==
  /\ open[c.id]
  /\ c.seen = attempts[c.id]
  /\ c.save # None =>
       merges[c.id] /\ c.version \in {0, version[c.id]} /\ version[c.id] < MaxVersion

ServeResolve(s) ==
  LET c == call[s]
      n == IF Accepted(c) /\ c.save # None THEN 1 ELSE 0
  IN  /\ Waits(s, "resolve")
      /\ call' = [call EXCEPT ![s].served = TRUE, ![s].ok = Accepted(c)]
      /\ open' = [open EXCEPT ![c.id] = @ /\ ~Accepted(c)]
      /\ version' = [version EXCEPT ![c.id] = @ + n]
      /\ saves' = [saves EXCEPT ![c.id] = @ + n]
      /\ UNCHANGED <<attempts, page>>

-----------------------------------------------------------------------------
(* The page. *)

Request(step, id) ==
  [step |-> step, served |-> FALSE, ok |-> FALSE, id |-> id, seen |-> 0,
   open |-> FALSE, version |-> 0, save |-> None]

Ends(s) == call' = [call EXCEPT ![s] = None]

(* openConflict up to its first await: the entry reset. *)
OpenConflict(s, id) ==
  /\ conflict' = None
  /\ keepOn' = FALSE /\ saveOn' = FALSE /\ hidden' = FALSE /\ merging' = FALSE
  /\ shown' = TRUE
  /\ call' = [call EXCEPT ![s] = Request("record", id)]
  /\ UNCHANGED <<server, form>>

(* A click on a row of the list, or on the editor's merge button. *)
Click(s, id) == call[s] = None /\ OpenConflict(s, id)

(* The operator leaves the view. *)
Leave == shown /\ shown' = FALSE /\ UNCHANGED <<server, conflict, form, keepOn,
                                               saveOn, hidden, merging, call>>

Answered(s, step) == call[s] # None /\ call[s].step = step /\ call[s].served

(* Any request may come back as an error; its handler shows it and ends.  A
   document that cannot be read leaves the record without a base version. *)
Fails(s) ==
  /\ call[s] # None
  /\ Ends(s)
  /\ conflict' = IF call[s].step = "current" /\ conflict # None
                   THEN [conflict EXCEPT !.version = 0] ELSE conflict
  /\ UNCHANGED <<server, form, keepOn, saveOn, hidden, merging, shown>>

(* Mutant: the buttons are enabled before the form is filled. *)
RecordArrivesEnabled(s) ==
  /\ Answered(s, "record")
  /\ conflict' = [id |-> call[s].id, seen |-> call[s].seen,
                  from |-> None, version |-> 0]
  /\ keepOn' = TRUE /\ saveOn' = TRUE /\ merging' = TRUE
  /\ call' = [call EXCEPT ![s] = [Request("current", call[s].id) EXCEPT !.seen = call[s].seen]]
  /\ UNCHANGED <<server, form, hidden, shown>>

(* The record arrives: a resolved one is shown read-only, one without a merge
   may be resolved at once, and an edit conflict fills the form and goes on to
   fetch the document. *)
RecordArrives(s) ==
  LET c == call[s]
  IN  /\ Answered(s, "record")
      /\ conflict' = [id |-> c.id, seen |-> c.seen, from |-> None, version |-> 0]
      /\ \/ /\ ~c.open
            /\ hidden' = TRUE /\ merging' = FALSE
            /\ Ends(s)
            /\ UNCHANGED <<form, keepOn, saveOn>>
         \/ /\ c.open /\ ~merges[c.id]
            /\ keepOn' = TRUE /\ merging' = FALSE
            /\ Ends(s)
            /\ UNCHANGED <<form, saveOn, hidden>>
         \/ /\ c.open /\ merges[c.id]
            /\ form' = [of |-> c.id, attempt |-> c.seen]
            /\ keepOn' = FALSE /\ saveOn' = FALSE /\ merging' = TRUE
            /\ call' = [call EXCEPT ![s] = [Request("current", c.id)
                                              EXCEPT !.seen = c.seen]]
            /\ UNCHANGED hidden
      /\ UNCHANGED <<server, shown>>

(* The document arrives, or the answer that there is none; a handler whose
   record is gone stops with an exception. *)
CurrentArrives(s) ==
  LET c == call[s]
  IN  /\ Answered(s, "current")
      /\ Ends(s)
      /\ IF conflict = None
           THEN UNCHANGED <<conflict, form, keepOn, saveOn>>
           ELSE /\ conflict' = [conflict EXCEPT
                                  !.from = IF c.version = 0 THEN None ELSE c.id,
                                  !.version = c.version]
                /\ form' = IF c.version = 0 THEN form
                                            ELSE [of |-> c.id, attempt |-> c.seen]
                /\ keepOn' = TRUE /\ saveOn' = TRUE
      /\ UNCHANGED <<server, hidden, merging, shown>>

(* The "Load attempted" and "Load current" buttons.  Without a document the
   latter only empties the form; the server refuses an empty save. *)
LoadAttempted ==
  /\ shown /\ merging /\ conflict # None
  /\ form' = [of |-> conflict.id, attempt |-> conflict.seen]
  /\ UNCHANGED <<server, conflict, keepOn, saveOn, hidden, merging, shown, call>>

LoadCurrent ==
  /\ shown /\ merging /\ conflict # None /\ conflict.from # None
  /\ form' = [of |-> conflict.from, attempt |-> 0]
  /\ UNCHANGED <<server, conflict, keepOn, saveOn, hidden, merging, shown, call>>

(* submitResolve up to its await; the buttons stay enabled.  Without the
   resolution field there is no resolution text, and it does not get here. *)
Submit(s, withSave) ==
  /\ shown /\ ~hidden /\ conflict # None /\ call[s] = None
  /\ IF withSave THEN saveOn /\ merging ELSE keepOn
  /\ call' = [call EXCEPT ![s] =
       [Request("resolve", conflict.id)
          EXCEPT !.seen = conflict.seen, !.version = conflict.version,
                 !.save = IF withSave THEN form ELSE None]]
  /\ UNCHANGED <<server, page>>

(* The answer to a resolution: back to the list, or open the record again. *)
ResolveArrives(s) ==
  /\ Answered(s, "resolve")
  /\ IF call[s].ok
       THEN shown' = FALSE /\ Ends(s) /\ UNCHANGED <<server, conflict, form,
                                                     keepOn, saveOn, hidden, merging>>
       ELSE OpenConflict(s, call[s].id)

-----------------------------------------------------------------------------
Others == \E r \in Record : Edited(r) \/ Refused(r)

Answer(s) ==
  \/ ServeRecord(s) \/ ServeCurrent(s) \/ ServeResolve(s)
  \/ RecordArrives(s) \/ CurrentArrives(s) \/ ResolveArrives(s) \/ Fails(s)

(* What makes requests, and what does not. *)
Operator(s) ==
  /\ patient => \A t \in Slot : call[t] = None
  /\ \/ \E r \in Record : Click(s, r)
     \/ \E withSave \in BOOLEAN : Submit(s, withSave)

Next ==
  /\ UNCHANGED <<patient, kinds>>
  /\ \/ Others
     \/ \E s \in Slot : Answer(s) \/ Operator(s)
     \/ Leave
     \/ LoadAttempted
     \/ LoadCurrent

Spec == Init /\ [][Next]_vars

-----------------------------------------------------------------------------
(* What must hold. *)

(* "every flag touched by ANY branch is reset here first so no state leaks
   between successive conflict views" (openConflict): what the save button
   would send is the form of the record it would resolve, an edit conflict, as
   that record was fetched. *)
NoLeak ==
  saveOn /\ merging /\ conflict # None =>
    /\ merges[conflict.id]
    /\ form # None /\ form.of = conflict.id /\ form.attempt \in {0, conflict.seen}

(* A page whose operator waits for the answers does not leak. *)
NoLeakIfPatient == patient => NoLeak

(* For such an operator, a record that is resolved with a save was resolved
   with its own content, after he saw the last refused attempt, and on the
   version he compared it with, if its family had one: expected_attempts and
   base_version are checked together, however the fetches and the other editors
   interleaved. *)
ResolvedAsSeen ==
  [][\A r \in Record : patient /\ saves'[r] > saves[r] =>
       \E s \in Slot :
         /\ call[s] # None /\ call[s].id = r /\ call[s].step = "resolve"
         /\ call[s].save.of = r
         /\ call[s].save.attempt \in {0, attempts[r]}
         /\ call[s].version = IF born[r] \/ call[s].version # 0 THEN version[r] ELSE 0]_vars

(* A record is resolved with a save at most once: not by a double click, nor
   by another try after a lost answer, nor from an old page. *)
SavedOnce == \A r \in Record : saves[r] <= 1

(* What every state of openConflict and submitResolve satisfies: the page of a
   patient operator does not leak, and no operator saves twice. *)
MergeInvariant == TypeOK /\ NoLeakIfPatient /\ SavedOnce
=============================================================================
