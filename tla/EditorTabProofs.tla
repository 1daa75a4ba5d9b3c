--------------------------- MODULE EditorTabProofs ---------------------------
(***************************************************************************)
(* Proofs about EditorTab, for every set of documents and of requests in   *)
(* flight, and any number of versions.                                     *)
(***************************************************************************)
EXTENDS EditorTab, SequenceTheorems, TLAPS

(* What state.current is when a document is open. *)
Current == [of : Family, base : Version, loading : BOOLEAN, saving : BOOLEAN,
            conflict : BOOLEAN]

(* The sentinel is none of the records. *)
NoneIsApart == None \notin Form \cup Pane \cup Call \cup Current

-----------------------------------------------------------------------------
(* The inductive invariant. *)

(* The handler of c would use its answer. *)
InHand(c) == c # None /\ c.fresh /\ c.awaited

(* No version of f after v was written by this page. *)
NoOwnAfter(f, v) == \A n \in DOMAIN author[f] : n > v => author[f][n] = "other"

(* A request of the editor: a save carries a form that was filled for its base;
   its answer is used for the document it was made for, or missed and its
   family orphaned; a load is of the document that is locked for it. *)
EditFits(c) ==
  /\ c.base <= Latest(c.of) /\ c.version <= Latest(c.of)
  /\ ~c.awaited => c.step = "save" /\ ~c.served
  /\ c.step = "save" =>
       /\ c.form # None /\ c.form.of = c.of /\ c.form.from = c.base
       /\ c.served /\ c.ok => c.version >= c.base
       /\ InHand(c) \/ c.of \in orphaned
       /\ InHand(c) =>
            /\ current # None /\ current.of = c.of /\ current.base = c.base
            /\ current.saving /\ ~current.loading
  /\ c.step = "load" /\ c.fresh =>
       /\ current # None /\ current.of = c.of /\ current.loading
       /\ c.served => c.of \in orphaned \/ NoOwnAfter(c.of, c.version)

(* A request of the history view: it is of the document in the path, and what
   was asked for last. *)
ReadFits(c) ==
  c.step \in HistorySteps /\ c.fresh =>
    /\ c.of = history.path
    /\ asked = IF c.step = "list" THEN None ELSE [of |-> c.of, versions |-> c.shows]

CallsFit == \A s \in Slot : call[s] # None => EditFits(call[s]) /\ ReadFits(call[s])

(* The editor has one load and one save in hand, the history view one
   request. *)
OneInHand ==
  \A s, t \in Slot :
    InHand(call[s]) /\ InHand(call[t]) =>
      \/ s = t
      \/ /\ call[s].step # call[t].step
         /\ ~({call[s].step, call[t].step} \subseteq HistorySteps)

(* A form that can be edited was filled for the base of the document that is
   open, and every version this page wrote over that base is one whose answer
   is in hand, or the family is orphaned. *)
FormFits ==
  current # None =>
    /\ current.base <= Latest(current.of)
    /\ ~current.loading =>
         /\ form # None /\ form.of = current.of /\ form.from = current.base
         /\ \/ current.of \in orphaned
            \/ NoOwnAfter(current.of, current.base)
            \/ \E s \in Slot :
                 /\ InHand(call[s]) /\ call[s].step = "save" /\ call[s].served /\ call[s].ok
                 /\ NoOwnAfter(current.of, call[s].version)

(* The view has a document; the history view one that is not being loaded. *)
ViewFits ==
  /\ view # "other" => current # None
  /\ view = "history" => ~current.loading /\ history.path = current.of
  /\ history.of \in {None, history.path}
  /\ history.pane # None => history.pane.of = history.path

PaneFits ==
  view = "history" =>
    \/ history.pane = asked
    \/ \E s \in Slot : InHand(call[s]) /\ call[s].step \in HistorySteps

EditorInductive ==
  TypeOK /\ CallsFit /\ OneInHand /\ FormFits /\ ViewFits /\ PaneFits /\ LockedByCutOnly

-----------------------------------------------------------------------------
(* Documents. *)

(* A document grows by a version; what the others wrote, and what was written
   to other documents, is not the page's own. *)
LEMMA AppendFacts ==
  ASSUME TypeOK, NEW f \in Family, NEW who \in {"page", "other"}, Latest(f) < MaxVersion,
         author' = [author EXCEPT ![f] = Append(@, who)]
  PROVE  /\ author' \in [Family -> Seq({"page", "other"})]
         /\ \A g \in Family : Latest(g)' \in Version /\ Latest(g)' >= Latest(g)
         /\ Latest(f)' = Latest(f) + 1
         /\ \A g \in Family, v \in Version :
              NoOwnAfter(g, v) /\ (who = "other" \/ g # f) => NoOwnAfter(g, v)'
         /\ \A v \in Version : v >= Latest(f) + 1 => NoOwnAfter(f, v)'
<1>1. /\ author \in [Family -> Seq({"page", "other"})]
      /\ \A g \in Family : /\ Latest(g) \in Version
                           /\ DOMAIN author[g] = 1..Latest(g)
  BY LenProperties, BoundAssumption DEF TypeOK, Latest, Version
<1>2. /\ Append(author[f], who) \in Seq({"page", "other"})
      /\ Len(Append(author[f], who)) = Latest(f) + 1
      /\ DOMAIN Append(author[f], who) = 1..(Latest(f) + 1)
      /\ \A n \in 1..Latest(f) : Append(author[f], who)[n] = author[f][n]
      /\ Append(author[f], who)[Latest(f) + 1] = who
  BY <1>1, AppendProperties, LenProperties DEF Latest
<1>3. author'[f] = Append(author[f], who) /\ \A g \in Family \ {f} : author'[g] = author[g]
  BY <1>1
<1>4. author' \in [Family -> Seq({"page", "other"})]
  BY <1>1, <1>2
<1>5. Latest(f)' = Latest(f) + 1 /\ \A g \in Family \ {f} : Latest(g)' = Latest(g)
  BY <1>2, <1>3 DEF Latest
<1>6. \A g \in Family : Latest(g)' \in Version /\ Latest(g)' >= Latest(g)
  BY <1>1, <1>5, BoundAssumption DEF Version
<1>7. ASSUME NEW g \in Family, NEW v \in Version, NoOwnAfter(g, v), who = "other" \/ g # f
      PROVE  NoOwnAfter(g, v)'
  <2>1. CASE g # f
    BY <1>3, <1>7, <2>1 DEF NoOwnAfter
  <2>2. CASE g = f
    <3> SUFFICES ASSUME NEW n \in DOMAIN author'[f], n > v PROVE author'[f][n] = "other"
      BY <2>2 DEF NoOwnAfter
    <3>1. n \in 1..Latest(f) \/ n = Latest(f) + 1
      BY <1>1, <1>2, <1>3 DEF Version
    <3>2. CASE n \in 1..Latest(f)
      BY <1>1, <1>2, <1>3, <1>7, <2>2, <3>2 DEF NoOwnAfter
    <3>3. CASE n = Latest(f) + 1
      BY <1>2, <1>3, <1>7, <2>2, <3>3
    <3> QED BY <3>1, <3>2, <3>3
  <2> QED BY <2>1, <2>2
<1>8. ASSUME NEW v \in Version, v >= Latest(f) + 1 PROVE NoOwnAfter(f, v)'
  BY <1>1, <1>2, <1>3, <1>8 DEF NoOwnAfter, Version
<1> QED BY <1>4, <1>5, <1>6, <1>7, <1>8

(* Nothing was written after the last version. *)
LEMMA NoneAfterLatest ==
  ASSUME TypeOK, NEW f \in Family
  PROVE  Latest(f) \in Version /\ NoOwnAfter(f, Latest(f)) /\ 0 \in Version
<1>1. Latest(f) \in Version /\ DOMAIN author[f] = 1..Latest(f)
  BY LenProperties, BoundAssumption DEF TypeOK, Latest, Version
<1>2. NoOwnAfter(f, Latest(f))
  BY <1>1 DEF NoOwnAfter, Version
<1> QED BY <1>1, <1>2, BoundAssumption DEF Version

-----------------------------------------------------------------------------
(* Requests. *)

LEMMA RequestFacts ==
  ASSUME NEW step \in {"load", "save", "list", "show"}, NEW f \in Family
  PROVE  /\ Request(step, f) \in Call
         /\ Request(step, f).step = step /\ Request(step, f).of = f
         /\ Request(step, f).fresh /\ Request(step, f).awaited /\ ~Request(step, f).served
         /\ Request(step, f).version = 0 /\ Request(step, f).base = 0
         /\ Request(step, f).form = None
BY BoundAssumption DEF Request, Call, Version

(* A step that changes one request, and leaves the others as they must be. *)
LEMMA OneChanges ==
  ASSUME TypeOK, CallsFit, OneInHand, NEW s \in Slot, NEW c \in Call \cup {None},
         call' = [call EXCEPT ![s] = c],
         c # None => EditFits(c)' /\ ReadFits(c)',
         InHand(c) => InHand(call[s]) /\ c.step = call[s].step,
         \A d \in Call : (\E t \in Slot \ {s} : call[t] = d) /\ EditFits(d) /\ ReadFits(d)
                           => EditFits(d)' /\ ReadFits(d)'
  PROVE  call' \in [Slot -> Call \cup {None}] /\ CallsFit' /\ OneInHand'
<1>1. call'[s] = c /\ \A t \in Slot \ {s} : call'[t] = call[t]
  BY DEF TypeOK
<1>2. CallsFit'
  <2> SUFFICES ASSUME NEW t \in Slot, call'[t] # None
               PROVE  EditFits(call[t])' /\ ReadFits(call[t])'
    BY DEF CallsFit
  <2>1. PICK d \in Call : d = call'[t]
    BY <1>1 DEF TypeOK
  <2>2. t # s => EditFits(d) /\ ReadFits(d) /\ d = call[t]
    BY <1>1, <2>1 DEF CallsFit
  <2>3. EditFits(d)' /\ ReadFits(d)'
    BY <1>1, <2>1, <2>2
  <2> QED BY <2>1, <2>3 DEF EditFits, ReadFits
<1>3. OneInHand'
  <2> SUFFICES ASSUME NEW q \in Slot, NEW t \in Slot, InHand(call'[q]), InHand(call'[t]), q # t
               PROVE  /\ call'[q].step # call'[t].step
                      /\ ~({call'[q].step, call'[t].step} \subseteq HistorySteps)
    BY DEF OneInHand, InHand
  <2>1. /\ InHand(call[q]) /\ call'[q].step = call[q].step
        /\ InHand(call[t]) /\ call'[t].step = call[t].step
    BY <1>1
  <2> QED BY <2>1 DEF OneInHand
<1> QED BY <1>2, <1>3 DEF TypeOK

(* The answers that an editor waits for are still awaited, unless nothing is
   locked for them any more or one of them was cut short. *)
LEMMA LocksKept ==
  ASSUME LockedByCutOnly, cut => cut',
         \A t \in Slot : InHand(call[t]) /\ call[t].step = "load" /\ ~reload' /\ ~cut'
                          => InHand(call'[t]) /\ call'[t].step = "load",
         \A t \in Slot : /\ InHand(call[t]) /\ call[t].step = "save" /\ ~cut'
                         /\ current' # None /\ current'.saving
                         => InHand(call'[t]) /\ call'[t].step = "save",
         view' = "editor" /\ current'.loading /\ ~reload'
           => view = "editor" /\ current.loading /\ ~reload,
         current' # None /\ current'.saving => current # None /\ current.saving
  PROVE  LockedByCutOnly'
<1> SUFFICES ASSUME ~cut' PROVE NeverStuck' /\ SavesAgain'
  BY DEF LockedByCutOnly
<1>1. NeverStuck /\ SavesAgain
  BY DEF LockedByCutOnly
<1>2. NeverStuck'
  <2> SUFFICES ASSUME view' = "editor", current'.loading, ~reload' PROVE AwaitsAnswer("load")'
    BY DEF NeverStuck, AwaitsAnswer
  <2>1. PICK t \in Slot : InHand(call[t]) /\ call[t].step = "load"
    BY <1>1 DEF NeverStuck, AwaitsAnswer, InHand
  <2>2. InHand(call'[t]) /\ call'[t].step = "load"
    BY <2>1
  <2> QED BY <2>2 DEF AwaitsAnswer, InHand
<1>3. SavesAgain'
  <2> SUFFICES ASSUME current' # None, current'.saving PROVE AwaitsAnswer("save")'
    BY DEF SavesAgain, AwaitsAnswer
  <2>1. PICK t \in Slot : InHand(call[t]) /\ call[t].step = "save"
    BY <1>1 DEF SavesAgain, AwaitsAnswer, InHand
  <2>2. InHand(call'[t]) /\ call'[t].step = "save"
    BY <2>1
  <2> QED BY <2>2 DEF AwaitsAnswer, InHand
<1> QED BY <1>2, <1>3

-----------------------------------------------------------------------------
(* The server and the other editors. *)

LEMMA InitHolds == ASSUME NoneIsApart PROVE Init => EditorInductive
<1> SUFFICES ASSUME Init PROVE EditorInductive
  OBVIOUS
<1>1. /\ author \in [Family -> Seq({"page", "other"})]
      /\ \A f \in Family : Len(author[f]) <= MaxVersion
  <2>1. <<>> \in Seq({"page", "other"}) /\ <<"other">> \in Seq({"page", "other"})
    OBVIOUS
  <2>2. Len(<<>>) = 0 /\ Len(<<"other">>) = 1
    OBVIOUS
  <2>3. author \in [Family -> {<<>>, <<"other">>}]
    BY DEF Init
  <2>4. \A f \in Family : author[f] \in {<<>>, <<"other">>}
    BY <2>3
  <2>5. \A f \in Family : author[f] \in Seq({"page", "other"})
    BY <2>1, <2>4
  <2>6. ASSUME NEW f \in Family PROVE Len(author[f]) <= MaxVersion
    <3>1. author[f] = <<>> \/ author[f] = <<"other">>
      BY <2>4, Zenon
    <3>2. Len(author[f]) = 0 \/ Len(author[f]) = 1
      BY <2>2, <3>1, Zenon
    <3>3. 0 <= MaxVersion /\ 1 <= MaxVersion
      BY BoundAssumption
    <3> QED BY <3>2, <3>3, Zenon
  <2>7. author = [f \in Family |-> author[f]]
    BY <2>3, Zenon
  <2>8. author \in [Family -> Seq({"page", "other"})]
    BY <2>5, <2>7, Zenon
  <2> QED BY <2>6, <2>8
<1>2. history \in [of : Family \cup {None}, listed : Version, pane : Pane \cup {None},
                   path : Family \cup {None}]
  BY BoundAssumption DEF Init, NoHistory, Version
<1>3. TypeOK
  BY <1>1, <1>2 DEF Init, TypeOK
<1>4. CallsFit /\ OneInHand /\ FormFits /\ ViewFits /\ PaneFits /\ LockedByCutOnly
  BY DEF Init, CallsFit, OneInHand, InHand, FormFits, ViewFits, PaneFits, LockedByCutOnly, NeverStuck, SavesAgain, AwaitsAnswer, NoHistory
<1> QED BY <1>3, <1>4 DEF EditorInductive

(* Another editor's version is over every base. *)
LEMMA EditedKeeps ==
  ASSUME NoneIsApart, EditorInductive, task' = task, NEW f \in Family, Edited(f)
  PROVE  EditorInductive'
<1> USE DEF EditorInductive
<1>1. UNCHANGED <<page, call, cut, orphaned, asked>>
  BY DEF Edited
<1>2. /\ author' \in [Family -> Seq({"page", "other"})]
      /\ \A g \in Family : Latest(g)' \in Version /\ Latest(g)' >= Latest(g)
      /\ \A g \in Family, v \in Version : NoOwnAfter(g, v) => NoOwnAfter(g, v)'
  <2>1. Latest(f) < MaxVersion /\ author' = [author EXCEPT ![f] = Append(@, "other")]
    BY DEF Edited
  <2> QED BY <2>1, AppendFacts
<1>3. \A g \in Family : Latest(g) \in Version /\ Latest(g)' <= MaxVersion
  BY <1>2, NoneAfterLatest DEF Version
<1>4. TypeOK'
  BY <1>1, <1>2, <1>3 DEF TypeOK, page, Latest
<1>5. ASSUME NEW d \in Call, EditFits(d), ReadFits(d) PROVE EditFits(d)' /\ ReadFits(d)'
  <2>1. d.of \in Family /\ d.base \in Version /\ d.version \in Version
    BY DEF Call
  <2>2. d.base <= Latest(d.of)' /\ d.version <= Latest(d.of)'
    <3>1. d.base <= Latest(d.of) /\ d.version <= Latest(d.of)
      BY <1>5 DEF EditFits
    <3> QED BY <1>2, <1>3, <2>1, <3>1 DEF Version
  <2>3. EditFits(d)'
    BY <1>1, <1>2, <1>5, <2>1, <2>2 DEF EditFits, InHand, page
  <2> QED BY <1>1, <1>5, <2>3 DEF ReadFits, page
<1>6. CallsFit'
  <2> SUFFICES ASSUME NEW t \in Slot, call'[t] # None
               PROVE  EditFits(call[t])' /\ ReadFits(call[t])'
    BY DEF CallsFit
  <2>1. PICK d \in Call : d = call'[t] /\ d = call[t]
    BY <1>1 DEF TypeOK
  <2>2. EditFits(d)' /\ ReadFits(d)'
    BY <1>5, <2>1 DEF CallsFit
  <2> QED BY <2>1, <2>2 DEF EditFits, ReadFits
<1>7. OneInHand' /\ ViewFits' /\ PaneFits' /\ LockedByCutOnly'
  BY <1>1 DEF OneInHand, ViewFits, PaneFits, LockedByCutOnly, NeverStuck, SavesAgain, AwaitsAnswer, page
<1>8. FormFits'
  <2> SUFFICES ASSUME current # None PROVE FormFits'
    BY <1>1 DEF FormFits, page
  <2>1. PICK g \in Family, b \in Version : g = current.of /\ b = current.base
    BY DEF TypeOK
  <2>2. b <= Latest(g)'
    <3>1. b <= Latest(g)
      BY <2>1 DEF FormFits
    <3> QED BY <1>2, <1>3, <3>1 DEF Version
  <2>3. NoOwnAfter(g, b) => NoOwnAfter(g, b)'
    BY <1>2
  <2>4. ASSUME NEW s \in Slot, InHand(call[s]), NoOwnAfter(g, call[s].version)
        PROVE  NoOwnAfter(g, call[s].version)'
    <3>1. PICK v \in Version : v = call[s].version
      BY <2>4 DEF TypeOK, InHand, Call
    <3>2. NoOwnAfter(g, v)'
      BY <1>2, <2>4, <3>1
    <3> QED BY <1>1, <3>1, <3>2 DEF NoOwnAfter
  <2> QED BY <1>1, <2>1, <2>2, <2>3, <2>4 DEF FormFits, page, NoOwnAfter, Latest
<1> QED BY <1>4, <1>6, <1>7, <1>8

(* An answer to a load or to the history view. *)
LEMMA ServeReadKeeps ==
  ASSUME NoneIsApart, EditorInductive, task' = task, NEW s \in Slot, ServeRead(s)
  PROVE  EditorInductive'
<1> USE DEF EditorInductive
<1>1. /\ UNCHANGED <<author, page, cut, orphaned, asked>>
      /\ call[s] \in Call /\ call[s] # None /\ EditFits(call[s]) /\ ReadFits(call[s])
      /\ call[s].step \in {"load", "list", "show"}
  BY DEF ServeRead, Waits, TypeOK, CallsFit
<1>2. PICK f \in Family, n \in Version : f = call[s].of /\ n = Latest(f)
  BY <1>1, NoneAfterLatest DEF Call
<1>3. PICK c \in Call :
        /\ call' = [call EXCEPT ![s] = c]
        /\ c.step = call[s].step /\ c.of = f /\ c.fresh = call[s].fresh
        /\ c.awaited = call[s].awaited /\ c.base = call[s].base /\ c.shows = call[s].shows
        /\ c.version = n
  <2> DEFINE c == [call[s] EXCEPT !.served = TRUE, !.ok = TRUE, !.version = n]
  <2>1. /\ c \in Call /\ c.step = call[s].step /\ c.of = f /\ c.fresh = call[s].fresh
        /\ c.awaited = call[s].awaited /\ c.base = call[s].base /\ c.shows = call[s].shows
        /\ c.version = n
    BY <1>1, <1>2 DEF Call
  <2>2. call' = [call EXCEPT ![s] = c]
    BY <1>2 DEF ServeRead
  <2> HIDE DEF c
  <2> QED BY <2>1, <2>2
<1>4. EditFits(c)' /\ ReadFits(c)'
  <2>1. NoOwnAfter(f, n) /\ n <= Latest(f)
    BY <1>2, NoneAfterLatest DEF Version
  <2>2. EditFits(c) /\ ReadFits(c)
    BY <1>1, <1>2, <1>3, <2>1 DEF EditFits, ReadFits, InHand
  <2> QED BY <1>1, <2>2 DEF EditFits, ReadFits, InHand, NoOwnAfter, Latest, page
<1>5. \A d \in Call : EditFits(d) /\ ReadFits(d) => EditFits(d)' /\ ReadFits(d)'
  BY <1>1 DEF EditFits, ReadFits, NoOwnAfter, Latest, page
<1>6. c # None /\ (InHand(c) => InHand(call[s]))
  BY <1>1, <1>3 DEF NoneIsApart, InHand
<1>7. call' \in [Slot -> Call \cup {None}] /\ CallsFit' /\ OneInHand'
  BY <1>1, <1>3, <1>4, <1>5, <1>6, OneChanges
<1>8. call'[s] = c /\ \A t \in Slot \ {s} : call'[t] = call[t]
  BY <1>3 DEF TypeOK
<1>9. TypeOK'
  BY <1>1, <1>3, <1>7, <1>8 DEF TypeOK, page
<1>10. FormFits'
  BY <1>1, <1>8 DEF FormFits, NoOwnAfter, Latest, page
<1>11. ViewFits' /\ PaneFits' /\ LockedByCutOnly'
  <2>1. InHand(call[s]) => InHand(c)
    BY <1>3, <1>6 DEF InHand
  <2>2. \A t \in Slot : InHand(call[t]) => InHand(call'[t]) /\ call'[t].step = call[t].step
    BY <1>3, <1>8, <2>1
  <2>3. ViewFits' /\ PaneFits'
    BY <1>1, <2>2 DEF ViewFits, PaneFits, page
  <2> QED BY <1>1, <2>2, <2>3, LocksKept DEF page
<1> QED BY <1>7, <1>9, <1>10, <1>11

(* A save is accepted, and then it is the one in hand or its family is
   orphaned; or refused; or nobody waits for it. *)
LEMMA ServeSaveKeeps ==
  ASSUME NoneIsApart, EditorInductive, task' = task, NEW s \in Slot, ServeSave(s)
  PROVE  EditorInductive'
<1> USE DEF EditorInductive
<1>1. /\ UNCHANGED <<page, cut, orphaned, asked>>
      /\ call[s] \in Call /\ call[s] # None /\ EditFits(call[s]) /\ ReadFits(call[s])
      /\ call[s].step = "save" /\ ~call[s].served /\ call[s].form # None
  BY DEF ServeSave, Waits, TypeOK, CallsFit
<1>2. PICK f \in Family, n \in Version : f = call[s].of /\ n = Latest(f)
  BY <1>1, NoneAfterLatest DEF Call
<1>3. PICK ok \in BOOLEAN : ok <=> call[s].base \in {0, n}
  <2>1. CASE call[s].base \in {0, n}
    BY <2>1
  <2>2. CASE call[s].base \notin {0, n}
    BY <2>2
  <2> QED BY <2>1, <2>2
<1>4. /\ author' = IF ok THEN [author EXCEPT ![f] = Append(@, "page")] ELSE author
      /\ ok => Latest(f) < MaxVersion
      /\ call' = [call EXCEPT ![s] =
           IF call[s].awaited THEN [call[s] EXCEPT !.served = TRUE, !.ok = ok,
                                       !.version = IF ok THEN n + 1 ELSE 0]
                        ELSE None]
  BY <1>2, <1>3 DEF ServeSave
<1>5. InHand(call[s]) \/ f \in orphaned
  BY <1>1, <1>2 DEF EditFits
<1>6. \A g \in Family : Latest(g) \in Version
  BY NoneAfterLatest
<1>7. /\ author' \in [Family -> Seq({"page", "other"})]
      /\ \A g \in Family : Latest(g)' \in Version /\ Latest(g)' >= Latest(g)
      /\ \A g \in Family, v \in Version :
           NoOwnAfter(g, v) /\ (~ok \/ g # f) => NoOwnAfter(g, v)'
      /\ ok => /\ Latest(f)' = n + 1 /\ n + 1 \in Version
               /\ NoOwnAfter(f, n + 1)'
  <2>1. CASE ok
    <3>1. /\ author' \in [Family -> Seq({"page", "other"})]
          /\ \A g \in Family : Latest(g)' \in Version /\ Latest(g)' >= Latest(g)
          /\ Latest(f)' = Latest(f) + 1
          /\ \A g \in Family, v \in Version :
               NoOwnAfter(g, v) /\ ("page" = "other" \/ g # f) => NoOwnAfter(g, v)'
          /\ \A v \in Version : v >= Latest(f) + 1 => NoOwnAfter(f, v)'
      <4>1. author' = [author EXCEPT ![f] = Append(@, "page")] /\ Latest(f) < MaxVersion
        BY <1>4, <2>1
      <4> QED BY <4>1, AppendFacts
    <3>2. n + 1 \in Version
      BY <1>2, <3>1
    <3> QED BY <1>2, <2>1, <3>1, <3>2 DEF Version
  <2>2. CASE ~ok
    <3>1. author' = author
      BY <1>4, <2>2
    <3> QED BY <1>6, <2>2, <3>1 DEF Latest, NoOwnAfter, TypeOK, Version
  <2> QED BY <2>1, <2>2
<1>8. \A g \in Family : Latest(g)' <= MaxVersion
  BY <1>7 DEF Version
<1>9. ASSUME NEW d \in Call, NEW t \in Slot \ {s}, call[t] = d, EditFits(d), ReadFits(d)
      PROVE  EditFits(d)' /\ ReadFits(d)'
  <2>1. d.of \in Family /\ d.base \in Version /\ d.version \in Version
    BY DEF Call
  <2>2. d.base <= Latest(d.of)' /\ d.version <= Latest(d.of)'
    <3>1. d.base <= Latest(d.of) /\ d.version <= Latest(d.of)
      BY <1>9 DEF EditFits
    <3> QED BY <1>6, <1>7, <2>1, <3>1 DEF Version
  <2>3. d.step = "load" /\ d.fresh /\ d.served =>
          d.of \in orphaned \/ NoOwnAfter(d.of, d.version)'
    <3> SUFFICES ASSUME d.step = "load", d.fresh, d.served, d.of \notin orphaned
                 PROVE  NoOwnAfter(d.of, d.version)'
      OBVIOUS
    <3>1. current.of = d.of /\ current.loading /\ NoOwnAfter(d.of, d.version)
      BY <1>9 DEF EditFits
    <3>2. d.of # f
      BY <1>1, <1>2, <1>5, <3>1 DEF EditFits
    <3> QED BY <1>7, <2>1, <3>1, <3>2
  <2>4. EditFits(d)'
    BY <1>1, <1>9, <2>2, <2>3 DEF EditFits, InHand, page
  <2> QED BY <1>1, <1>9, <2>4 DEF ReadFits, page
<1>10. PICK c \in Call \cup {None} :
         /\ call' = [call EXCEPT ![s] = c]
         /\ ~call[s].awaited => c = None
         /\ call[s].awaited =>
              /\ c \in Call
              /\ c.step = "save" /\ c.of = f /\ c.fresh = call[s].fresh /\ c.awaited
              /\ c.base = call[s].base /\ c.form = call[s].form
              /\ c.served /\ c.ok = ok /\ c.version = IF ok THEN n + 1 ELSE 0
  <2>1. CASE ~call[s].awaited
    BY <1>4, <2>1
  <2>2. CASE call[s].awaited
    <3> DEFINE c == [call[s] EXCEPT !.served = TRUE, !.ok = ok,
                                    !.version = IF ok THEN n + 1 ELSE 0]
    <3>1. (IF ok THEN n + 1 ELSE 0) \in Version
      BY <1>7, BoundAssumption DEF Version
    <3>2. /\ c \in Call
          /\ c.step = "save" /\ c.of = f /\ c.fresh = call[s].fresh /\ c.awaited
          /\ c.base = call[s].base /\ c.form = call[s].form
          /\ c.served /\ c.ok = ok /\ c.version = IF ok THEN n + 1 ELSE 0
      BY <1>1, <1>2, <2>2, <3>1 DEF Call
    <3>3. call' = [call EXCEPT ![s] = c]
      BY <1>4, <2>2
    <3> HIDE DEF c
    <3> QED BY <2>2, <3>2, <3>3
  <2> QED BY <2>1, <2>2
<1>11. ASSUME c # None PROVE EditFits(c)' /\ ReadFits(c)'
  <2>1. call[s].awaited /\ c.step = "save" /\ c.of = f
    BY <1>10, <1>11
  <2>2. c.base <= Latest(f)' /\ c.version <= Latest(f)' /\ (c.served /\ c.ok => c.version >= c.base)
    <3>1. c.base <= n /\ c.base \in Version
      BY <1>1, <1>2, <1>10, <2>1 DEF EditFits, Call
    <3>2. Latest(f)' >= n /\ Latest(f)' \in Version
      BY <1>2, <1>7
    <3>3. ok => Latest(f)' = n + 1
      BY <1>7
    <3> QED BY <1>2, <1>10, <2>1, <3>1, <3>2, <3>3 DEF Version
  <2>3. InHand(c) <=> InHand(call[s])
    BY <1>1, <1>10, <1>11, <2>1 DEF InHand
  <2>4. /\ c.form # None /\ c.form.of = c.of /\ c.form.from = c.base
        /\ InHand(c) \/ c.of \in orphaned
        /\ InHand(c) =>
            /\ current # None /\ current.of = c.of /\ current.base = c.base
            /\ current.saving /\ ~current.loading
    BY <1>1, <1>2, <1>10, <2>1, <2>3 DEF EditFits
  <2>5. EditFits(c)'
    BY <1>1, <1>10, <2>1, <2>2, <2>4 DEF EditFits, InHand, page
  <2> QED BY <2>1, <2>5 DEF ReadFits, HistorySteps
<1>12. InHand(c) => InHand(call[s]) /\ c.step = call[s].step
  BY <1>1, <1>10 DEF InHand
<1>13. call' \in [Slot -> Call \cup {None}] /\ CallsFit' /\ OneInHand'
  BY <1>9, <1>10, <1>11, <1>12, OneChanges
<1>14. call'[s] = c /\ \A t \in Slot \ {s} : call'[t] = call[t]
  BY <1>10 DEF TypeOK
<1>15. TypeOK'
  <2>1. \A t \in Slot : call'[t] # None /\ call'[t].step = "save" => call'[t].form # None
    BY <1>1, <1>10, <1>14 DEF TypeOK
  <2> QED BY <1>1, <1>7, <1>8, <1>13, <2>1 DEF TypeOK, page, Latest
<1>16. FormFits'
  <2> SUFFICES ASSUME current # None PROVE FormFits'
    BY <1>1 DEF FormFits, page
  <2>1. PICK g \in Family, b \in Version : g = current.of /\ b = current.base
    BY DEF TypeOK
  <2>2. b <= Latest(g)'
    <3>1. b <= Latest(g)
      BY <2>1 DEF FormFits
    <3> QED BY <1>6, <1>7, <3>1 DEF Version
  <2>3. ASSUME ~current.loading, g \notin orphaned
        PROVE  \/ NoOwnAfter(g, b)'
               \/ \E t \in Slot :
                    /\ InHand(call'[t]) /\ call'[t].step = "save" /\ call'[t].served /\ call'[t].ok
                    /\ NoOwnAfter(g, call[t].version)'
    <3>1. CASE ok /\ g = f
      <4>1. InHand(call[s])
        BY <1>5, <2>3, <3>1
      <4>2. InHand(c) /\ c.step = "save" /\ c.served /\ c.ok /\ c.version = n + 1
        BY <1>10, <3>1, <4>1 DEF InHand, NoneIsApart
      <4>3. NoOwnAfter(g, n + 1)'
        BY <1>7, <3>1
      <4>4. call'[s].version = n + 1
        BY <1>14, <4>2
      <4>5. NoOwnAfter(g, call[s].version)'
        BY <4>3, <4>4 DEF NoOwnAfter
      <4> QED BY <1>14, <4>2, <4>5
    <3>2. CASE ~ok \/ g # f
      <4>1. CASE NoOwnAfter(g, b)
        BY <1>7, <3>2, <4>1
      <4>2. CASE ~NoOwnAfter(g, b)
        <5>1. PICK t \in Slot :
                /\ InHand(call[t]) /\ call[t].step = "save" /\ call[t].served /\ call[t].ok
                /\ NoOwnAfter(g, call[t].version)
          BY <2>1, <2>3, <4>2 DEF FormFits
        <5>2. t # s
          BY <1>1, <5>1
        <5>3. PICK v \in Version : v = call[t].version
          BY <5>1 DEF TypeOK, InHand, Call
        <5>4. NoOwnAfter(g, v)'
          BY <1>7, <3>2, <5>1, <5>3
        <5>5. call'[t] = call[t]
          BY <1>14, <5>2
        <5>6. NoOwnAfter(g, call[t].version)'
          BY <5>3, <5>4, <5>5 DEF NoOwnAfter
        <5> QED BY <5>1, <5>5, <5>6
      <4> QED BY <4>1, <4>2
    <3> QED BY <3>1, <3>2
  <2> HIDE DEF EditorInductive
  <2>4. /\ ~current.loading => form # None /\ form.of = current.of /\ form.from = current.base
    BY DEF EditorInductive, FormFits
  <2>5. current' = current /\ form' = form /\ orphaned' = orphaned
    BY <1>1 DEF page
  <2> QED BY <2>1, <2>2, <2>3, <2>4, <2>5 DEF FormFits, NoOwnAfter, Latest, InHand
<1>17. ViewFits' /\ PaneFits' /\ LockedByCutOnly'
  <2>1. \A t \in Slot : InHand(call[t]) /\ call[t].step \in HistorySteps => call'[t] = call[t]
    BY <1>1, <1>14 DEF HistorySteps
  <2>2. \A t \in Slot : call[t] # None /\ call[t].step = "load" => call'[t] = call[t]
    BY <1>1, <1>14
  <2>3. InHand(call[s]) => InHand(c) /\ c.step = "save"
    BY <1>1, <1>10 DEF InHand, NoneIsApart
  <2>4. \A t \in Slot : InHand(call[t]) => InHand(call'[t]) /\ call'[t].step = call[t].step
    BY <1>1, <1>14, <2>3
  <2>5. ViewFits' /\ PaneFits'
    BY <1>1, <2>1 DEF ViewFits, PaneFits, page
  <2> QED BY <1>1, <2>4, <2>5, LocksKept DEF page
<1> QED BY <1>13, <1>15, <1>16, <1>17

-----------------------------------------------------------------------------
(* The editor. *)

(* Opening a document lets every handler down; a save that was in hand leaves
   its family orphaned. *)
LEMMA OpenEditorKeeps ==
  ASSUME NoneIsApart, EditorInductive, task' = task, NEW s \in Slot, NEW f \in Family,
         NEW b \in Version, b <= Latest(f), OpenEditor(s, f, b)
  PROVE  EditorInductive'
<1> USE DEF EditorInductive
<1>1. /\ UNCHANGED <<author, history, asked>>
      /\ view' = "editor" /\ form' = None /\ reload' = FALSE /\ cut' = FALSE
      /\ orphaned' = orphaned \cup AwaitedSaves
  BY DEF OpenEditor
<1>2. /\ current' \in Current /\ current' # None /\ current'.of = f /\ current'.base = b
      /\ current'.loading /\ ~current'.saving
  <2> DEFINE opened == [of |-> f, base |-> b, loading |-> TRUE, saving |-> FALSE,
                        conflict |-> FALSE]
  <2>1. opened \in Current /\ opened.of = f /\ opened.base = b /\ opened.loading /\ ~opened.saving
    BY DEF Current
  <2>2. current' = opened
    BY DEF OpenEditor
  <2> HIDE DEF opened
  <2> QED BY <2>1, <2>2 DEF NoneIsApart
<1>3. PICK r \in Call :
        /\ r = Request("load", f)
        /\ r.step = "load" /\ r.of = f /\ r.fresh /\ r.awaited /\ ~r.served
        /\ r.version = 0 /\ r.base = 0
  BY RequestFacts
<1>4. call'[s] = r
  BY <1>3 DEF OpenEditor, Outdated
<1>5. \A t \in Slot \ {s} :
        call'[t] = IF call[t] = None THEN None ELSE [call[t] EXCEPT !.fresh = FALSE]
  BY DEF OpenEditor, Outdated
<1>6. ASSUME NEW t \in Slot \ {s}, call'[t] # None
      PROVE  \E c \in Call : /\ c = call[t] /\ c # None
                             /\ \E d \in Call :
                                  /\ d = call'[t]
                                  /\ ~d.fresh /\ d.step = c.step /\ d.of = c.of
                                  /\ d.awaited = c.awaited /\ d.served = c.served
                                  /\ d.ok = c.ok /\ d.version = c.version /\ d.form = c.form
                                  /\ d.base = c.base /\ d.shows = c.shows
  <2>1. PICK c \in Call : c = call[t] /\ c # None
    BY <1>5, <1>6 DEF TypeOK
  <2> DEFINE d == [c EXCEPT !.fresh = FALSE]
  <2>2. /\ d \in Call
        /\ ~d.fresh /\ d.step = c.step /\ d.of = c.of
        /\ d.awaited = c.awaited /\ d.served = c.served
        /\ d.ok = c.ok /\ d.version = c.version /\ d.form = c.form
        /\ d.base = c.base /\ d.shows = c.shows
    BY <2>1 DEF Call
  <2>3. d = call'[t]
    BY <1>5, <2>1
  <2> HIDE DEF d
  <2> QED BY <2>1, <2>2, <2>3
<1>7. r # None
  BY DEF NoneIsApart
<1>8. call' \in [Slot -> Call \cup {None}]
  <2>1. \A t \in Slot : call'[t] \in Call \cup {None}
    BY <1>4, <1>6
  <2>2. call' = [t \in Slot |-> call'[t]]
    BY DEF OpenEditor, Outdated
  <2> QED BY <2>1, <2>2
<1>9. AwaitedSaves \subseteq Family
  BY DEF AwaitedSaves, TypeOK, Call
<1>10. TypeOK'
  <2>1. \A t \in Slot : call'[t] # None /\ call'[t].step = "save" => call'[t].form # None
    <3> SUFFICES ASSUME NEW t \in Slot, call'[t] # None, call'[t].step = "save"
                 PROVE  call'[t].form # None
      OBVIOUS
    <3>1. t # s
      BY <1>3, <1>4
    <3> QED BY <1>6, <3>1 DEF TypeOK
  <2> QED BY <1>1, <1>2, <1>8, <1>9, <2>1 DEF TypeOK, Current
<1>11. EditFits(r)' /\ ReadFits(r)'
  <2>1. 0 <= Latest(f)
    BY NoneAfterLatest DEF Version
  <2>2. EditFits(r)'
    BY <1>1, <1>2, <1>3, <2>1 DEF EditFits, Latest
  <2> QED BY <1>3, <2>2 DEF ReadFits, HistorySteps
<1>12. CallsFit'
  <2> SUFFICES ASSUME NEW t \in Slot, call'[t] # None
               PROVE  EditFits(call[t])' /\ ReadFits(call[t])'
    BY DEF CallsFit
  <2>1. CASE t = s
    BY <1>4, <1>11, <2>1 DEF EditFits, ReadFits
  <2>2. CASE t # s
    <3>1. PICK c \in Call, d \in Call :
            /\ c = call[t] /\ c # None /\ d = call'[t]
            /\ ~d.fresh /\ d.step = c.step /\ d.of = c.of
            /\ d.awaited = c.awaited /\ d.served = c.served
            /\ d.ok = c.ok /\ d.version = c.version /\ d.form = c.form
            /\ d.base = c.base /\ d.shows = c.shows
      BY <1>6, <2>2
    <3>2. EditFits(c)
      BY <3>1 DEF CallsFit
    <3>3. c.step = "save" => c.of \in orphaned'
      BY <1>1, <3>1, <3>2 DEF EditFits, AwaitedSaves, InHand
    <3>4. EditFits(d)'
      BY <1>1, <3>1, <3>2, <3>3 DEF EditFits, InHand, Latest
    <3>5. ReadFits(d)'
      BY <3>1 DEF ReadFits
    <3> QED BY <3>1, <3>4, <3>5 DEF EditFits, ReadFits
  <2> QED BY <2>1, <2>2
<1>13. \A t \in Slot : InHand(call'[t]) => t = s
  BY <1>6 DEF InHand
<1>14. OneInHand'
  BY <1>13 DEF OneInHand, InHand
<1>15. FormFits' /\ ViewFits' /\ PaneFits'
  BY <1>1, <1>2 DEF FormFits, ViewFits, PaneFits, Latest
<1>16. LockedByCutOnly'
  BY <1>2, <1>3, <1>4, <1>7 DEF LockedByCutOnly, NeverStuck, SavesAgain, AwaitsAnswer
<1> QED BY <1>10, <1>12, <1>14, <1>15, <1>16

(* A document arrives for the editor that was locked for it: no save is in
   hand, and nothing of this page's own is newer, unless the family is
   orphaned. *)
LEMMA LoadArrivesKeeps ==
  ASSUME NoneIsApart, EditorInductive, task' = task, NEW s \in Slot, LoadArrives(s)
  PROVE  EditorInductive'
<1> USE DEF EditorInductive
<1>1. /\ UNCHANGED <<author, history, view, cut, orphaned, asked>>
      /\ call' = [call EXCEPT ![s] = None]
      /\ call[s] # None /\ call[s].step = "load" /\ call[s].served /\ call[s].awaited
  BY DEF LoadArrives, Answered, Ends
<1>2. PICK c \in Call : c = call[s] /\ EditFits(c)
  BY <1>1 DEF TypeOK, CallsFit
<1>3. call'[s] = None /\ \A t \in Slot \ {s} : call'[t] = call[t]
  BY <1>1 DEF TypeOK
<1>4. ~InHand(None)
  BY DEF InHand
<1>5. CASE ~c.fresh
  <2>1. UNCHANGED <<current, form, reload>>
    BY <1>2, <1>5 DEF LoadArrives
  <2>2. \A d \in Call : EditFits(d) /\ ReadFits(d) => EditFits(d)' /\ ReadFits(d)'
    BY <1>1, <2>1 DEF EditFits, ReadFits, NoOwnAfter, Latest
  <2>3. call' \in [Slot -> Call \cup {None}] /\ CallsFit' /\ OneInHand'
    BY <1>1, <1>4, <2>2, OneChanges
  <2>4. TypeOK'
    BY <1>1, <1>3, <2>1, <2>3 DEF TypeOK
  <2>5. \A t \in Slot : InHand(call[t]) => call'[t] = call[t]
    BY <1>2, <1>3, <1>5 DEF InHand
  <2>6. FormFits' /\ ViewFits' /\ PaneFits'
    BY <1>1, <2>1, <2>5 DEF FormFits, ViewFits, PaneFits, NoOwnAfter, Latest
  <2>7. LockedByCutOnly'
    BY <1>1, <2>1, <2>5, LocksKept
  <2> QED BY <2>3, <2>4, <2>6, <2>7
<1>6. CASE c.fresh
  <2>1. PICK f \in Family, v \in Version : f = c.of /\ v = c.version
    BY DEF Call
  <2>2. /\ current # None /\ current \in Current /\ current.of = f /\ current.loading
        /\ f \in orphaned \/ NoOwnAfter(f, v)
        /\ v <= Latest(f)
    BY <1>1, <1>2, <1>6, <2>1 DEF EditFits, TypeOK, Current
  <2>3. /\ current' = [current EXCEPT !.base = v, !.loading = FALSE]
        /\ form' = [of |-> f, from |-> v]
        /\ reload' = TRUE
    BY <1>2, <1>6, <2>1 DEF LoadArrives
  <2>4. /\ current' \in Current /\ current' # None /\ current'.of = f /\ current'.base = v
        /\ ~current'.loading /\ current'.saving = current.saving
    <3>1. PICK x \in Current : x = current
      BY <2>2
    <3> DEFINE filled == [x EXCEPT !.base = v, !.loading = FALSE]
    <3>2. /\ filled \in Current /\ filled.of = x.of /\ filled.base = v
          /\ ~filled.loading /\ filled.saving = x.saving
      BY <3>1 DEF Current
    <3>3. current' = filled
      BY <2>3, <3>1
    <3> HIDE DEF filled
    <3> QED BY <2>2, <3>1, <3>2, <3>3 DEF NoneIsApart
  <2>5. form' \in Form /\ form' # None /\ form'.of = f /\ form'.from = v
    BY <2>3 DEF Form, NoneIsApart
  <2>6. ASSUME NEW d \in Call, NEW t \in Slot \ {s}, call[t] = d, EditFits(d), ReadFits(d)
        PROVE  EditFits(d)' /\ ReadFits(d)'
    <3>1. d.step = "save" => ~InHand(d)
      BY <2>2, <2>6 DEF EditFits
    <3>2. ~(d.step = "load" /\ d.fresh)
      <4>1. InHand(call[s])
        BY <1>1, <1>2, <1>6 DEF InHand
      <4>2. d.step = "load" /\ d.fresh => InHand(d)
        BY <2>6 DEF EditFits, InHand, NoneIsApart
      <4> QED BY <1>1, <2>6, <4>1, <4>2 DEF OneInHand
    <3>3. EditFits(d)'
      BY <1>1, <2>6, <3>1, <3>2 DEF EditFits, InHand, Latest
    <3> QED BY <1>1, <2>6, <3>3 DEF ReadFits
  <2>7. call' \in [Slot -> Call \cup {None}] /\ CallsFit' /\ OneInHand'
    BY <1>1, <1>4, <2>6, OneChanges
  <2>8. TypeOK'
    BY <1>1, <1>3, <2>3, <2>4, <2>5, <2>7 DEF TypeOK, Current
  <2>9. FormFits'
    BY <1>1, <2>2, <2>4, <2>5 DEF FormFits, NoOwnAfter, Latest
  <2>10. ViewFits'
    BY <1>1, <2>2, <2>4 DEF ViewFits
  <2>11. PaneFits'
    <3>1. \A t \in Slot : InHand(call[t]) /\ call[t].step \in HistorySteps => call'[t] = call[t]
      BY <1>1, <1>3 DEF HistorySteps
    <3> QED BY <1>1, <3>1 DEF PaneFits
  <2>12. LockedByCutOnly'
    <3>1. \A t \in Slot : InHand(call[t]) /\ call[t].step = "save" => call'[t] = call[t]
      BY <1>1, <1>3
    <3> QED BY <1>1, <2>2, <2>3, <2>4, <3>1, LocksKept
  <2> QED BY <2>7, <2>8, <2>9, <2>10, <2>11, <2>12
<1> QED BY <1>2, <1>5, <1>6 DEF Call

(* The answer to the save in hand moves the base over the version it wrote, or
   leaves the base where it was. *)
LEMMA SaveArrivesKeeps ==
  ASSUME NoneIsApart, EditorInductive, task' = task, NEW s \in Slot, SaveArrives(s)
  PROVE  EditorInductive'
<1> USE DEF EditorInductive
<1>1. /\ UNCHANGED <<author, reload, history, view, cut, orphaned, asked>>
      /\ call' = [call EXCEPT ![s] = None]
      /\ call[s] # None /\ call[s].step = "save" /\ call[s].served /\ call[s].awaited
  BY DEF SaveArrives, Answered, Ends
<1>2. PICK c \in Call : c = call[s] /\ EditFits(c)
  BY <1>1 DEF TypeOK, CallsFit
<1>3. call'[s] = None /\ \A t \in Slot \ {s} : call'[t] = call[t]
  BY <1>1 DEF TypeOK
<1>4. ~InHand(None)
  BY DEF InHand
<1>5. CASE ~c.fresh
  <2>1. UNCHANGED <<current, form>>
    BY <1>2, <1>5 DEF SaveArrives
  <2>2. \A d \in Call : EditFits(d) /\ ReadFits(d) => EditFits(d)' /\ ReadFits(d)'
    BY <1>1, <2>1 DEF EditFits, ReadFits, NoOwnAfter, Latest
  <2>3. call' \in [Slot -> Call \cup {None}] /\ CallsFit' /\ OneInHand'
    BY <1>1, <1>4, <2>2, OneChanges
  <2>4. TypeOK'
    BY <1>1, <1>3, <2>1, <2>3 DEF TypeOK
  <2>5. \A t \in Slot : InHand(call[t]) => call'[t] = call[t]
    BY <1>2, <1>3, <1>5 DEF InHand
  <2>6. FormFits' /\ ViewFits' /\ PaneFits'
    BY <1>1, <2>1, <2>5 DEF FormFits, ViewFits, PaneFits, NoOwnAfter, Latest
  <2>7. LockedByCutOnly'
    BY <1>1, <2>1, <2>5, LocksKept
  <2> QED BY <2>3, <2>4, <2>6, <2>7
<1>6. CASE c.fresh
  <2>1. PICK f \in Family, v \in Version, b \in Version : f = c.of /\ v = c.version /\ b = c.base
    BY DEF Call
  <2>2. InHand(call[s]) /\ InHand(c)
    BY <1>1, <1>2, <1>6 DEF InHand
  <2>3. /\ current # None /\ current \in Current /\ current.of = f /\ current.base = b
        /\ ~current.loading
        /\ v <= Latest(f) /\ b <= Latest(f) /\ (c.ok => v >= b)
    BY <1>1, <1>2, <2>1, <2>2 DEF EditFits, TypeOK, Current
  <2>4. form \in Form /\ form # None /\ form.of = f /\ form.from = b
    BY <2>3 DEF FormFits, TypeOK
  <2>5. \A t \in Slot \ {s} : ~(InHand(call[t]) /\ call[t].step = "save")
    BY <1>1, <2>2 DEF OneInHand
  <2>6. \/ f \in orphaned
        \/ NoOwnAfter(f, b)
        \/ c.ok /\ NoOwnAfter(f, v)
    BY <1>2, <2>1, <2>3, <2>5 DEF FormFits
  <2>7. PICK w \in Version :
          /\ w <= Latest(f)
          /\ f \in orphaned \/ NoOwnAfter(f, w)
          /\ current' \in Current /\ current'.of = f /\ current'.base = w
          /\ ~current'.loading /\ ~current'.saving
          /\ form' \in Form /\ form'.of = f /\ form'.from = w
    <3>1. PICK x \in Current, y \in Form : x = current /\ y = form
      BY <2>3, <2>4
    <3>2. CASE c.ok
      <4> DEFINE saved == [x EXCEPT !.saving = FALSE, !.base = v, !.conflict = FALSE]
                 typed == [y EXCEPT !.from = v]
      <4>1. /\ saved \in Current /\ saved.of = x.of /\ saved.base = v
            /\ saved.loading = x.loading /\ ~saved.saving
        BY DEF Current
      <4>2. typed \in Form /\ typed.of = y.of /\ typed.from = v
        BY DEF Form
      <4>3. current' = saved /\ form' = typed
        BY <1>2, <1>6, <2>1, <3>1, <3>2 DEF SaveArrives
      <4>4. NoOwnAfter(f, b) => NoOwnAfter(f, v)
        <5>1. \A n \in DOMAIN author[f] : n > v => n > b
          BY <2>3, <3>2, LenProperties DEF Version, TypeOK
        <5> QED BY <5>1 DEF NoOwnAfter
      <4> HIDE DEF saved, typed
      <4> QED BY <2>3, <2>4, <2>6, <3>1, <4>1, <4>2, <4>3, <4>4
    <3>3. CASE ~c.ok
      <4> DEFINE refused == [x EXCEPT !.saving = FALSE, !.conflict = TRUE]
      <4>1. /\ refused \in Current /\ refused.of = x.of /\ refused.base = x.base
            /\ refused.loading = x.loading /\ ~refused.saving
        BY DEF Current
      <4>2. current' = refused /\ form' = form
        BY <1>2, <1>6, <3>1, <3>3 DEF SaveArrives
      <4> HIDE DEF refused
      <4> QED BY <2>3, <2>4, <2>6, <3>1, <3>3, <4>1, <4>2
    <3> QED BY <3>2, <3>3
  <2>8. ASSUME NEW d \in Call, NEW t \in Slot \ {s}, call[t] = d, EditFits(d), ReadFits(d)
        PROVE  EditFits(d)' /\ ReadFits(d)'
    <3>1. ~(d.step = "save" /\ InHand(d))
      BY <2>5, <2>8
    <3>2. ~(d.step = "load" /\ d.fresh)
      BY <2>3, <2>8 DEF EditFits
    <3>3. EditFits(d)'
      BY <1>1, <2>8, <3>1, <3>2 DEF EditFits, InHand, Latest
    <3> QED BY <1>1, <2>8, <3>3 DEF ReadFits
  <2>9. call' \in [Slot -> Call \cup {None}] /\ CallsFit' /\ OneInHand'
    BY <1>1, <1>4, <2>8, OneChanges
  <2>10. current' # None /\ form' # None
    BY <2>7 DEF NoneIsApart
  <2>11. TypeOK'
    BY <1>1, <1>3, <2>7, <2>9 DEF TypeOK, Current
  <2>12. FormFits'
    BY <1>1, <2>7, <2>10 DEF FormFits, NoOwnAfter, Latest
  <2>13. ViewFits'
    BY <1>1, <2>3, <2>7, <2>10 DEF ViewFits
  <2>14. PaneFits'
    <3>1. \A t \in Slot : InHand(call[t]) /\ call[t].step \in HistorySteps => call'[t] = call[t]
      BY <1>1, <1>3 DEF HistorySteps
    <3> QED BY <1>1, <3>1 DEF PaneFits
  <2>15. LockedByCutOnly'
    BY <2>7 DEF LockedByCutOnly, NeverStuck, SavesAgain, AwaitsAnswer
  <2> QED BY <2>9, <2>11, <2>12, <2>13, <2>14, <2>15
<1> QED BY <1>2, <1>5, <1>6 DEF Call

(* Save is enabled while no save is in hand; the one that is sent carries the
   form and the base it was filled for. *)
LEMMA SubmitSaveKeeps ==
  ASSUME NoneIsApart, EditorInductive, task' = task, NEW s \in Slot, SubmitSave(s)
  PROVE  EditorInductive'
<1> USE DEF EditorInductive
<1>1. /\ UNCHANGED <<author, form, reload, history, view, cut, orphaned, asked>>
      /\ current # None /\ ~current.loading /\ ~current.saving /\ call[s] = None
      /\ view = "editor"
  BY DEF SubmitSave
<1>2. PICK f \in Family, b \in Version : f = current.of /\ b = current.base
  BY <1>1 DEF TypeOK
<1>3. /\ form \in Form /\ form # None /\ form.of = f /\ form.from = b /\ b <= Latest(f)
  BY <1>1, <1>2 DEF FormFits, TypeOK
<1>4. \A t \in Slot : ~(InHand(call[t]) /\ call[t].step = "save")
  BY <1>1 DEF CallsFit, EditFits, InHand
<1>5. /\ current' \in Current /\ current' # None /\ current'.of = f /\ current'.base = b
      /\ ~current'.loading /\ current'.saving
  <2>1. PICK x \in Current : x = current
    BY <1>1 DEF TypeOK, Current
  <2> DEFINE locked == [x EXCEPT !.saving = TRUE]
  <2>2. /\ locked \in Current /\ locked.of = x.of /\ locked.base = x.base
        /\ locked.loading = x.loading /\ locked.saving
    BY DEF Current
  <2>3. current' = locked
    BY <2>1 DEF SubmitSave
  <2> HIDE DEF locked
  <2> QED BY <1>1, <1>2, <2>1, <2>2, <2>3 DEF NoneIsApart
<1>6. PICK c \in Call :
        /\ call' = [call EXCEPT ![s] = c]
        /\ c.step = "save" /\ c.of = f /\ c.fresh /\ c.awaited /\ ~c.served
        /\ c.version = 0 /\ c.base = b /\ c.form = form
  <2>1. PICK r \in Call :
          /\ r = Request("save", f)
          /\ r.step = "save" /\ r.of = f /\ r.fresh /\ r.awaited /\ ~r.served
          /\ r.version = 0
    BY RequestFacts
  <2>2. PICK y \in Form : y = form
    BY <1>3
  <2> DEFINE c == [r EXCEPT !.form = y, !.base = b]
  <2>3. /\ c \in Call
        /\ c.step = "save" /\ c.of = f /\ c.fresh /\ c.awaited /\ ~c.served
        /\ c.version = 0 /\ c.base = b /\ c.form = y
    BY <2>1 DEF Call
  <2>4. call' = [call EXCEPT ![s] = c]
    BY <1>2, <2>1, <2>2 DEF SubmitSave
  <2> HIDE DEF c
  <2> QED BY <2>2, <2>3, <2>4
<1>7. call'[s] = c /\ \A t \in Slot \ {s} : call'[t] = call[t]
  BY <1>6 DEF TypeOK
<1>8. c # None /\ InHand(c)
  BY <1>6 DEF NoneIsApart, InHand
<1>9. call' \in [Slot -> Call \cup {None}]
  BY <1>6 DEF TypeOK
<1>10. EditFits(c)' /\ ReadFits(c)'
  <2>1. 0 <= Latest(f)
    BY NoneAfterLatest DEF Version
  <2>2. EditFits(c)'
    BY <1>1, <1>3, <1>5, <1>6, <1>8, <2>1 DEF EditFits, InHand, Latest
  <2> QED BY <1>6, <2>2 DEF ReadFits, HistorySteps
<1>11. CallsFit'
  <2> SUFFICES ASSUME NEW t \in Slot, call'[t] # None
               PROVE  EditFits(call[t])' /\ ReadFits(call[t])'
    BY DEF CallsFit
  <2>1. CASE t = s
    BY <1>7, <1>10, <2>1 DEF EditFits, ReadFits
  <2>2. CASE t # s
    <3>1. PICK d \in Call : d = call[t] /\ d = call'[t] /\ EditFits(d) /\ ReadFits(d)
      BY <1>7, <2>2 DEF CallsFit, TypeOK
    <3>2. ~(d.step = "load" /\ d.fresh)
      BY <1>1, <3>1 DEF EditFits
    <3>3. EditFits(d)'
      BY <1>1, <1>4, <3>1, <3>2 DEF EditFits, InHand, Latest
    <3>4. ReadFits(d)'
      BY <1>1, <3>1 DEF ReadFits
    <3> QED BY <3>1, <3>3, <3>4 DEF EditFits, ReadFits
  <2> QED BY <2>1, <2>2
<1>12. OneInHand'
  <2>1. \A t \in Slot \ {s} : InHand(call'[t]) => InHand(call[t]) /\ call'[t].step # "save"
    BY <1>4, <1>7
  <2>2. \A t \in Slot \ {s} : call'[t] = call[t]
    BY <1>7
  <2>3. "save" \notin HistorySteps
    BY DEF HistorySteps
  <2> QED BY <1>6, <1>7, <2>1, <2>2, <2>3 DEF OneInHand, InHand
<1>13. TypeOK'
  BY <1>1, <1>3, <1>5, <1>6, <1>7, <1>9 DEF TypeOK, Current
<1>14. FormFits'
  <2>1. f \in orphaned \/ NoOwnAfter(f, b)
    BY <1>1, <1>2, <1>4 DEF FormFits
  <2> QED BY <1>1, <1>3, <1>5, <2>1 DEF FormFits, NoOwnAfter, Latest
<1>15. ViewFits' /\ PaneFits' /\ LockedByCutOnly'
  <2>1. ViewFits' /\ PaneFits'
    BY <1>1, <1>2, <1>5 DEF ViewFits, PaneFits
  <2>2. NeverStuck'
    BY <1>5 DEF NeverStuck
  <2>3. SavesAgain'
    BY <1>6, <1>7, <1>8 DEF SavesAgain, AwaitsAnswer
  <2> QED BY <2>1, <2>2, <2>3 DEF LockedByCutOnly
<1> QED BY <1>11, <1>12, <1>13, <1>14, <1>15

-----------------------------------------------------------------------------
(* The history view. *)

(* A request of the history view is the only one of them in hand, and leaves
   those of the editor as they were. *)
LEMMA NewerKeeps ==
  ASSUME TypeOK, CallsFit, OneInHand, NEW s \in Slot, NEW c \in Call,
         UNCHANGED <<author, current, orphaned>>,
         call' = Newer(s, c), c.step \in HistorySteps, EditFits(c)', ReadFits(c)'
  PROVE  /\ call' \in [Slot -> Call \cup {None}] /\ CallsFit' /\ OneInHand'
         /\ call'[s] = c
         /\ \A t \in Slot \ {s} :
              /\ call[t] = None \/ call[t].step \notin HistorySteps => call'[t] = call[t]
              /\ InHand(call'[t]) => call'[t] = call[t] /\ call[t].step \notin HistorySteps
              /\ call'[t] # None => call'[t].step = call[t].step /\ call'[t].form = call[t].form
<1>1. call' = [t \in Slot |-> call'[t]] /\ call'[s] = c
  BY DEF Newer
<1>2. ASSUME NEW t \in Slot \ {s}
      PROVE  \/ /\ call'[t] = call[t]
                /\ call[t] = None \/ call[t].step \notin HistorySteps
             \/ \E d \in Call, e \in Call :
                  /\ d = call[t] /\ d # None /\ d.step \in HistorySteps /\ e = call'[t]
                  /\ ~e.fresh /\ e.step = d.step /\ e.of = d.of
                  /\ e.awaited = d.awaited /\ e.served = d.served
                  /\ e.version = d.version /\ e.base = d.base /\ e.form = d.form
  <2>1. CASE call[t] # None /\ call[t].step \in HistorySteps
    <3>1. PICK d \in Call : d = call[t] /\ d # None /\ d.step \in HistorySteps
      BY <2>1 DEF TypeOK
    <3> DEFINE e == [d EXCEPT !.fresh = FALSE]
    <3>2. /\ e \in Call
          /\ ~e.fresh /\ e.step = d.step /\ e.of = d.of
          /\ e.awaited = d.awaited /\ e.served = d.served
          /\ e.version = d.version /\ e.base = d.base /\ e.form = d.form
      BY DEF Call
    <3>3. e = call'[t]
      BY <2>1, <3>1 DEF Newer
    <3> HIDE DEF e
    <3> QED BY <3>1, <3>2, <3>3
  <2>2. CASE ~(call[t] # None /\ call[t].step \in HistorySteps)
    BY <2>2 DEF Newer
  <2> QED BY <2>1, <2>2
<1>3. call' \in [Slot -> Call \cup {None}]
  <2>1. \A t \in Slot : call'[t] \in Call \cup {None}
    BY <1>1, <1>2 DEF TypeOK
  <2> QED BY <1>1, <2>1
<1>4. CallsFit'
  <2> SUFFICES ASSUME NEW t \in Slot, call'[t] # None
               PROVE  EditFits(call[t])' /\ ReadFits(call[t])'
    BY DEF CallsFit
  <2>1. CASE t = s
    BY <1>1, <2>1 DEF EditFits, ReadFits
  <2>2. CASE t # s /\ call'[t] = call[t] /\ (call[t] = None \/ call[t].step \notin HistorySteps)
    <3>1. PICK d \in Call : d = call[t] /\ d = call'[t] /\ EditFits(d) /\ d.step \notin HistorySteps
      BY <2>2 DEF CallsFit, TypeOK
    <3>2. EditFits(d)'
      BY <3>1 DEF EditFits, NoOwnAfter, Latest
    <3>3. ReadFits(d)'
      BY <3>1 DEF ReadFits
    <3> QED BY <3>1, <3>2, <3>3 DEF EditFits, ReadFits
  <2>3. CASE t # s /\ ~(call'[t] = call[t] /\ (call[t] = None \/ call[t].step \notin HistorySteps))
    <3>1. PICK d \in Call, e \in Call :
            /\ d = call[t] /\ d # None /\ d.step \in HistorySteps /\ e = call'[t]
            /\ ~e.fresh /\ e.step = d.step /\ e.of = d.of
            /\ e.awaited = d.awaited /\ e.served = d.served
            /\ e.version = d.version /\ e.base = d.base
      BY <1>2, <2>3
    <3>2. EditFits(d)
      BY <3>1 DEF CallsFit
    <3>3. EditFits(e)'
      BY <3>1, <3>2 DEF EditFits, HistorySteps, Latest
    <3>4. ReadFits(e)'
      BY <3>1 DEF ReadFits
    <3> QED BY <3>1, <3>3, <3>4 DEF EditFits, ReadFits
  <2> QED BY <2>1, <2>2, <2>3
<1>5. \A t \in Slot \ {s} :
        /\ call[t] = None \/ call[t].step \notin HistorySteps => call'[t] = call[t]
        /\ InHand(call'[t]) => call'[t] = call[t] /\ call[t].step \notin HistorySteps
        /\ call'[t] # None => call'[t].step = call[t].step /\ call'[t].form = call[t].form
  BY <1>2 DEF InHand
<1>6. OneInHand'
  <2>1. \A t \in Slot \ {s} :
          InHand(call'[t]) => InHand(call[t]) /\ call'[t] = call[t] /\ call[t].step \notin HistorySteps
    BY <1>5
  <2> QED BY <1>1, <2>1 DEF OneInHand, InHand
<1> QED BY <1>1, <1>3, <1>4, <1>5, <1>6

(* The form, the editor and its requests, when only the history view changes. *)
LEMMA EditorAsWas ==
  ASSUME TypeOK, CallsFit, FormFits, LockedByCutOnly, UNCHANGED <<author, current, form, reload, cut, orphaned>>,
         view' = "editor" => view = "editor",
         \A t \in Slot : call[t] # None /\ call[t].step \in {"load", "save"} => call'[t] = call[t]
  PROVE  FormFits' /\ LockedByCutOnly'
<1>1. FormFits'
  <2>1. \A t \in Slot : InHand(call[t]) /\ call[t].step = "save" => call'[t] = call[t]
    BY DEF InHand
  <2> QED BY <2>1 DEF FormFits, NoOwnAfter, Latest
<1>2. LockedByCutOnly'
  <2>1. \A t \in Slot : InHand(call[t]) /\ call[t].step \in {"load", "save"} => call'[t] = call[t]
    BY DEF InHand
  <2> QED BY <2>1, LocksKept
<1> QED BY <1>1, <1>2

LEMMA EnterHistoryKeeps ==
  ASSUME NoneIsApart, EditorInductive, task' = task, NEW s \in Slot, EnterHistory(s)
  PROVE  EditorInductive'
<1> USE DEF EditorInductive
<1>1. /\ UNCHANGED <<author, current, form, reload, cut, orphaned>>
      /\ view = "editor" /\ current # None /\ ~current.loading /\ call[s] = None
      /\ view' = "history" /\ asked' = None
  BY DEF EnterHistory
<1>2. PICK f \in Family : f = current.of
  BY <1>1 DEF TypeOK
<1>3. /\ history' \in [of : Family \cup {None}, listed : Version, pane : Pane \cup {None},
                       path : Family \cup {None}]
      /\ history'.path = f /\ history'.of \in {None, f}
      /\ history'.pane # None => history'.pane.of = f
  <2> DEFINE History == [of : Family \cup {None}, listed : Version, pane : Pane \cup {None},
                         path : Family \cup {None}]
  <2>1. PICK h \in History :
          /\ h = IF history.of = f THEN history ELSE NoHistory
          /\ h.of \in {None, f} /\ (h.pane # None => h.pane.of = f)
    <3>1. NoHistory \in History /\ NoHistory.of = None /\ NoHistory.pane = None
      BY BoundAssumption DEF NoHistory, Version
    <3>2. history \in History
      BY DEF TypeOK
    <3>3. history.of = f => history.of # None /\ history.path = f
      BY NoneAssumption DEF ViewFits
    <3>4. history.of = f /\ history.pane # None => history.pane.of = f
      BY <3>3 DEF ViewFits
    <3> QED BY <3>1, <3>2, <3>4
  <2> DEFINE h2 == [h EXCEPT !.path = f]
  <2>2. h2 \in History /\ h2.path = f /\ h2.of = h.of /\ h2.pane = h.pane
    OBVIOUS
  <2>3. history' = h2
    BY <1>2, <2>1 DEF EnterHistory
  <2> HIDE DEF h2
  <2> QED BY <2>1, <2>2, <2>3
<1>4. PICK c \in Call :
        /\ call' = Newer(s, c)
        /\ c.step = "list" /\ c.of = f /\ c.fresh /\ c.awaited /\ ~c.served
        /\ c.version = 0 /\ c.base = 0
  BY <1>2, RequestFacts DEF EnterHistory
<1>5. EditFits(c)' /\ ReadFits(c)'
  <2>1. 0 <= Latest(f)
    BY NoneAfterLatest DEF Version
  <2>2. EditFits(c)'
    BY <1>1, <1>4, <2>1 DEF EditFits, Latest
  <2> QED BY <1>1, <1>3, <1>4, <2>2 DEF ReadFits
<1>6. c.step \in HistorySteps
  BY <1>4 DEF HistorySteps
<1>7. /\ call' \in [Slot -> Call \cup {None}] /\ CallsFit' /\ OneInHand'
      /\ call'[s] = c
      /\ \A t \in Slot \ {s} :
           /\ call[t] = None \/ call[t].step \notin HistorySteps => call'[t] = call[t]
           /\ call'[t] # None => call'[t].step = call[t].step /\ call'[t].form = call[t].form
  BY <1>1, <1>4, <1>5, <1>6, NewerKeeps
<1>8. TypeOK'
  <2>1. \A t \in Slot : call'[t] # None /\ call'[t].step = "save" => call'[t].form # None
    <3> SUFFICES ASSUME NEW t \in Slot, call'[t] # None, call'[t].step = "save"
                 PROVE  call'[t].form # None
      OBVIOUS
    <3>1. t # s /\ call[t].step = "save"
      BY <1>4, <1>7
    <3>2. call'[t] = call[t]
      BY <1>7, <3>1 DEF HistorySteps
    <3> QED BY <3>1, <3>2 DEF TypeOK
  <2> QED BY <1>1, <1>3, <1>7, <2>1 DEF TypeOK
<1>9. FormFits' /\ LockedByCutOnly'
  <2>1. \A t \in Slot : call[t] # None /\ call[t].step \in {"load", "save"} => call'[t] = call[t]
    BY <1>1, <1>7 DEF HistorySteps
  <2> QED BY <1>1, <2>1, EditorAsWas
<1>10. ViewFits'
  BY <1>1, <1>2, <1>3 DEF ViewFits
<1>11. PaneFits'
  BY <1>4, <1>6, <1>7 DEF PaneFits, InHand, NoneIsApart
<1> QED BY <1>7, <1>8, <1>9, <1>10, <1>11

LEMMA ShowVersionsKeeps ==
  ASSUME NoneIsApart, EditorInductive, task' = task, NEW s \in Slot,
         NEW vs \in SUBSET (1..history.listed), ShowVersions(s, vs)
  PROVE  EditorInductive'
<1> USE DEF EditorInductive
<1>1. /\ UNCHANGED <<author, page, cut, orphaned>>
      /\ view = "history" /\ current # None /\ call[s] = None
  BY DEF ShowVersions
<1>2. PICK f \in Family : f = current.of /\ f = history.path
  BY <1>1 DEF TypeOK, ViewFits
<1>3. vs \in SUBSET Version
  BY BoundAssumption DEF TypeOK, Version
<1>4. PICK c \in Call :
        /\ call' = Newer(s, c)
        /\ c.step = "show" /\ c.of = f /\ c.fresh /\ c.awaited /\ ~c.served
        /\ c.version = 0 /\ c.base = 0 /\ c.shows = vs
  <2>1. PICK r \in Call :
          /\ r = Request("show", f)
          /\ r.step = "show" /\ r.of = f /\ r.fresh /\ r.awaited /\ ~r.served
          /\ r.version = 0 /\ r.base = 0
    BY RequestFacts
  <2>2. PICK ws \in SUBSET Version : ws = vs
    BY <1>3
  <2> DEFINE c == [r EXCEPT !.shows = ws]
  <2>3. /\ c \in Call
        /\ c.step = "show" /\ c.of = f /\ c.fresh /\ c.awaited /\ ~c.served
        /\ c.version = 0 /\ c.base = 0 /\ c.shows = ws
    BY <2>1 DEF Call
  <2>4. call' = Newer(s, c)
    BY <1>2, <2>1, <2>2 DEF ShowVersions
  <2> HIDE DEF c
  <2> QED BY <2>2, <2>3, <2>4
<1>5. asked' = [of |-> f, versions |-> vs]
  BY <1>2 DEF ShowVersions
<1>6. EditFits(c)' /\ ReadFits(c)'
  <2>1. 0 <= Latest(f)
    BY NoneAfterLatest DEF Version
  <2>2. EditFits(c)'
    BY <1>1, <1>4, <2>1 DEF EditFits, Latest
  <2> QED BY <1>1, <1>2, <1>4, <1>5, <2>2 DEF ReadFits, page
<1>7. c.step \in HistorySteps
  BY <1>4 DEF HistorySteps
<1>8. /\ call' \in [Slot -> Call \cup {None}] /\ CallsFit' /\ OneInHand'
      /\ call'[s] = c
      /\ \A t \in Slot \ {s} :
           /\ call[t] = None \/ call[t].step \notin HistorySteps => call'[t] = call[t]
           /\ call'[t] # None => call'[t].step = call[t].step /\ call'[t].form = call[t].form
  BY <1>1, <1>4, <1>6, <1>7, NewerKeeps DEF page
<1>9. TypeOK'
  <2>1. \A t \in Slot : call'[t] # None /\ call'[t].step = "save" => call'[t].form # None
    <3> SUFFICES ASSUME NEW t \in Slot, call'[t] # None, call'[t].step = "save"
                 PROVE  call'[t].form # None
      OBVIOUS
    <3>1. t # s /\ call[t].step = "save"
      BY <1>4, <1>8
    <3>2. call'[t] = call[t]
      BY <1>8, <3>1 DEF HistorySteps
    <3> QED BY <3>1, <3>2 DEF TypeOK
  <2>2. asked' \in Pane
    BY <1>3, <1>5 DEF Pane
  <2> QED BY <1>1, <1>8, <2>1, <2>2 DEF TypeOK, page
<1>10. FormFits' /\ LockedByCutOnly'
  <2>1. \A t \in Slot : call[t] # None /\ call[t].step \in {"load", "save"} => call'[t] = call[t]
    BY <1>1, <1>8 DEF HistorySteps
  <2> QED BY <1>1, <2>1, EditorAsWas DEF page
<1>11. ViewFits'
  BY <1>1 DEF ViewFits, page
<1>12. PaneFits'
  BY <1>4, <1>7, <1>8 DEF PaneFits, InHand, NoneIsApart
<1> QED BY <1>8, <1>9, <1>10, <1>11, <1>12

(* An answer to the history view changes what the view shows, and nothing the
   requests in flight depend on. *)
LEMMA HistoryArrives ==
  ASSUME NoneIsApart, EditorInductive, NEW s \in Slot, NEW c \in Call,
         c = call[s], c # None, c.step \in HistorySteps,
         call' = [call EXCEPT ![s] = None],
         UNCHANGED <<task, author, current, form, reload, view, cut, orphaned, asked>>,
         history' \in [of : Family \cup {None}, listed : Version, pane : Pane \cup {None},
                       path : Family \cup {None}],
         history'.path = history.path,
         history'.of \in {None, history.path},
         history'.pane # None => history'.pane.of = history.path,
         IF c.fresh THEN history'.pane = asked ELSE history' = history
  PROVE  EditorInductive'
<1> USE DEF EditorInductive
<1>1. call'[s] = None /\ \A t \in Slot \ {s} : call'[t] = call[t]
  BY DEF TypeOK
<1>2. ~InHand(None)
  BY DEF InHand
<1>3. \A d \in Call : EditFits(d) /\ ReadFits(d) => EditFits(d)' /\ ReadFits(d)'
  BY DEF EditFits, ReadFits, NoOwnAfter, Latest
<1>4. call' \in [Slot -> Call \cup {None}] /\ CallsFit' /\ OneInHand'
  BY <1>2, <1>3, OneChanges
<1>5. TypeOK'
  BY <1>1, <1>4 DEF TypeOK
<1>6. FormFits' /\ LockedByCutOnly'
  <2>1. \A t \in Slot : call[t] # None /\ call[t].step \in {"load", "save"} => call'[t] = call[t]
    BY <1>1 DEF HistorySteps
  <2> QED BY <2>1, EditorAsWas
<1>7. ViewFits'
  BY DEF ViewFits
<1>8. PaneFits'
  <2>1. CASE c.fresh
    BY <2>1 DEF PaneFits
  <2>2. CASE ~c.fresh
    <3>1. \A t \in Slot : InHand(call[t]) => call'[t] = call[t]
      BY <1>1, <2>2 DEF InHand
    <3> QED BY <2>2, <3>1 DEF PaneFits
  <2> QED BY <2>1, <2>2
<1> QED BY <1>4, <1>5, <1>6, <1>7, <1>8

LEMMA ListArrivesKeeps ==
  ASSUME NoneIsApart, EditorInductive, task' = task, NEW s \in Slot, ListArrives(s)
  PROVE  EditorInductive'
<1> DEFINE History == [of : Family \cup {None}, listed : Version, pane : Pane \cup {None},
                       path : Family \cup {None}]
<1>1. PICK c \in Call : c = call[s] /\ c # None /\ c.step = "list" /\ ReadFits(c)
  BY DEF ListArrives, Answered, EditorInductive, TypeOK, CallsFit
<1>2. PICK h \in History : h = history
  BY DEF EditorInductive, TypeOK
<1>3. /\ history'.path = h.path /\ history' \in History
      /\ history'.of \in {None, h.path}
      /\ history'.pane # None => history'.pane.of = h.path
      /\ IF c.fresh THEN history'.pane = asked ELSE history' = h
  <2>1. CASE c.fresh
    <3> DEFINE shown == [h EXCEPT !.of = c.of, !.listed = c.version, !.pane = None]
    <3>1. shown \in History /\ shown.path = h.path /\ shown.of = c.of /\ shown.pane = None
      BY DEF Call
    <3>2. history' = shown
      BY <1>1, <1>2, <2>1 DEF ListArrives
    <3>3. c.of = h.path /\ asked = None
      BY <1>1, <1>2, <2>1 DEF ReadFits, HistorySteps
    <3> HIDE DEF shown, History
    <3> QED BY <2>1, <3>1, <3>2, <3>3
  <2>2. CASE ~c.fresh
    <3>1. history' = h
      BY <1>1, <1>2, <2>2 DEF ListArrives
    <3>2. h.of \in {None, h.path} /\ (h.pane # None => h.pane.of = h.path)
      BY <1>2 DEF EditorInductive, ViewFits
    <3> HIDE DEF History
    <3> QED BY <1>2, <2>2, <3>1, <3>2
  <2> QED BY <2>1, <2>2
<1>4. /\ call' = [call EXCEPT ![s] = None]
      /\ UNCHANGED <<author, current, form, reload, view, cut, orphaned, asked>>
  BY DEF ListArrives, Ends
<1>5. c.step \in HistorySteps
  BY <1>1 DEF HistorySteps
<1> QED BY <1>1, <1>2, <1>3, <1>4, <1>5, HistoryArrives

LEMMA ShowArrivesKeeps ==
  ASSUME NoneIsApart, EditorInductive, task' = task, NEW s \in Slot, ShowArrives(s)
  PROVE  EditorInductive'
<1> DEFINE History == [of : Family \cup {None}, listed : Version, pane : Pane \cup {None},
                       path : Family \cup {None}]
<1>1. PICK c \in Call : c = call[s] /\ c # None /\ c.step = "show" /\ ReadFits(c)
  BY DEF ShowArrives, Answered, EditorInductive, TypeOK, CallsFit
<1>2. PICK h \in History : h = history
  BY DEF EditorInductive, TypeOK
<1>3. h.of \in {None, h.path} /\ (h.pane # None => h.pane.of = h.path)
  BY <1>2 DEF EditorInductive, ViewFits
<1>4. /\ history'.path = h.path /\ history' \in History
      /\ history'.of \in {None, h.path}
      /\ history'.pane # None => history'.pane.of = h.path
      /\ IF c.fresh THEN history'.pane = asked ELSE history' = h
  <2>1. CASE c.fresh
    <3>1. PICK p \in Pane : p = [of |-> c.of, versions |-> c.shows] /\ p.of = c.of
      <4>1. c.of \in Family /\ c.shows \in SUBSET Version
        BY DEF Call
      <4>2. [of |-> c.of, versions |-> c.shows] \in Pane
        BY <4>1 DEF Pane
      <4> QED BY <4>2
    <3> DEFINE shown == [h EXCEPT !.pane = p]
    <3>2. shown \in History /\ shown.path = h.path /\ shown.of = h.of /\ shown.pane = p
      OBVIOUS
    <3>3. history' = shown
      BY <1>1, <1>2, <2>1, <3>1 DEF ShowArrives
    <3>4. c.of = h.path /\ asked = p
      BY <1>1, <1>2, <2>1, <3>1 DEF ReadFits, HistorySteps
    <3> HIDE DEF shown, History
    <3> QED BY <1>3, <2>1, <3>1, <3>2, <3>3, <3>4
  <2>2. CASE ~c.fresh
    <3>1. history' = h
      BY <1>1, <1>2, <2>2 DEF ShowArrives
    <3> HIDE DEF History
    <3> QED BY <1>2, <1>3, <2>2, <3>1
  <2> QED BY <2>1, <2>2
<1>5. /\ call' = [call EXCEPT ![s] = None]
      /\ UNCHANGED <<author, current, form, reload, view, cut, orphaned, asked>>
  BY DEF ShowArrives, Ends
<1>6. c.step \in HistorySteps
  BY <1>1 DEF HistorySteps
<1> QED BY <1>1, <1>2, <1>4, <1>5, <1>6, HistoryArrives

-----------------------------------------------------------------------------
(* Errors. *)

LEMMA LostKeeps ==
  ASSUME NoneIsApart, EditorInductive, task' = task, NEW s \in Slot, Lost(s)
  PROVE  EditorInductive'
<1> USE DEF EditorInductive
<1>1. /\ UNCHANGED <<author, page, cut, orphaned, asked>>
      /\ call' = [call EXCEPT ![s] = None]
      /\ call[s] # None /\ ~call[s].awaited
  BY DEF Lost, Ends
<1>2. call[s].step = "save"
  BY <1>1 DEF CallsFit, EditFits
<1>3. call'[s] = None /\ \A t \in Slot \ {s} : call'[t] = call[t]
  BY <1>1 DEF TypeOK
<1>4. ~InHand(None)
  BY DEF InHand
<1>5. \A d \in Call : EditFits(d) /\ ReadFits(d) => EditFits(d)' /\ ReadFits(d)'
  BY <1>1 DEF EditFits, ReadFits, NoOwnAfter, Latest, page
<1>6. call' \in [Slot -> Call \cup {None}] /\ CallsFit' /\ OneInHand'
  BY <1>1, <1>4, <1>5, OneChanges
<1>7. TypeOK'
  BY <1>1, <1>3, <1>6 DEF TypeOK, page
<1>8. \A t \in Slot : InHand(call[t]) => call'[t] = call[t]
  BY <1>1, <1>3 DEF InHand
<1>9. FormFits' /\ ViewFits' /\ PaneFits'
  BY <1>1, <1>8 DEF FormFits, ViewFits, PaneFits, NoOwnAfter, Latest, page
<1>10. LockedByCutOnly'
  BY <1>1, <1>8, LocksKept DEF page
<1> QED BY <1>6, <1>7, <1>9, <1>10

(* A failed save frees the Save button of the document that is open, and
   changes nothing else of it. *)
LEMMA SavingEnds ==
  ASSUME NoneIsApart, current \in {None} \cup Current, NEW freed \in BOOLEAN,
         freed => current # None,
         current' = IF freed THEN [current EXCEPT !.saving = FALSE] ELSE current
  PROVE  /\ current' \in {None} \cup Current
         /\ ~freed => current' = current
         /\ freed => current' # None /\ ~current'.saving
         /\ current # None => /\ current'.of = current.of /\ current'.base = current.base
                              /\ current'.loading = current.loading
<1>1. CASE freed
  <2>1. PICK x \in Current : x = current
    BY <1>1
  <2> DEFINE y == [x EXCEPT !.saving = FALSE]
  <2>2. y \in Current /\ y.of = x.of /\ y.base = x.base /\ y.loading = x.loading /\ ~y.saving
    BY DEF Current
  <2>3. current' = y
    BY <1>1, <2>1
  <2> HIDE DEF y
  <2> QED BY <1>1, <2>1, <2>2, <2>3 DEF NoneIsApart
<1>2. CASE ~freed
  BY <1>2
<1> QED BY <1>1, <1>2

(* A handler that ends without an answer leaves the requests of the others as
   they must be. *)
LEMMA OthersFit ==
  ASSUME NoneIsApart, EditorInductive, NEW s \in Slot, NEW c \in Call, c = call[s], c # None,
         c.awaited,
         UNCHANGED <<author, history>>, orphaned \subseteq orphaned',
         ~(c.fresh /\ c.step = "save") => current' = current,
         asked' = IF c.fresh /\ c.step \in HistorySteps THEN history.pane ELSE asked
  PROVE  \A d \in Call : (\E t \in Slot \ {s} : call[t] = d) /\ EditFits(d) /\ ReadFits(d)
                           => EditFits(d)' /\ ReadFits(d)'
<1> SUFFICES ASSUME NEW d \in Call, NEW t \in Slot \ {s}, call[t] = d, EditFits(d), ReadFits(d)
             PROVE  EditFits(d)' /\ ReadFits(d)'
  OBVIOUS
<1> USE DEF EditorInductive
<1>1. EditFits(c) /\ d # None
  BY DEF CallsFit, NoneIsApart
<1>2. InHand(c) /\ InHand(d) => /\ c.step # d.step
                                /\ ~({c.step, d.step} \subseteq HistorySteps)
  BY DEF OneInHand
<1>3. CASE c.fresh /\ c.step = "save"
  <2>1. InHand(c)
    BY <1>3 DEF InHand
  <2>2. ~(d.step = "save" /\ InHand(d))
    BY <1>2, <1>3, <2>1
  <2>3. ~(d.step = "load" /\ d.fresh)
    BY <1>1, <1>3, <2>1 DEF EditFits
  <2>4. EditFits(d)'
    BY <2>2, <2>3 DEF EditFits, InHand, Latest
  <2>5. asked' = asked
    BY <1>3 DEF HistorySteps
  <2> QED BY <2>4, <2>5 DEF ReadFits
<1>4. CASE ~(c.fresh /\ c.step = "save")
  <2>1. current' = current
    BY <1>4
  <2>2. EditFits(d)'
    BY <2>1 DEF EditFits, InHand, Latest, NoOwnAfter
  <2>3. ReadFits(d)'
    <3>1. CASE c.fresh /\ c.step \in HistorySteps
      <4>1. InHand(c)
        BY <3>1 DEF InHand
      <4>2. ~(InHand(d) /\ d.step \in HistorySteps)
        BY <1>2, <3>1, <4>1
      <4>3. ~(d.fresh /\ d.step \in HistorySteps)
        BY <1>1, <4>2 DEF InHand, EditFits, HistorySteps
      <4> QED BY <4>3 DEF ReadFits
    <3>2. CASE ~(c.fresh /\ c.step \in HistorySteps)
      BY <3>2 DEF ReadFits
    <3> QED BY <3>1, <3>2
  <2> QED BY <2>2, <2>3
<1> QED BY <1>3, <1>4

(* A handler is given up without an answer: its save may still be served, and
   the family is orphaned then.  What is open stays open, with its lock. *)
LEMMA UnansweredKeeps ==
  ASSUME NoneIsApart, EditorInductive, task' = task, NEW s \in Slot, Unanswered(s),
         NEW c \in Call, c = call[s], current' \in {None} \cup Current,
         ~(c.fresh /\ c.step = "save") => current' = current,
         c.fresh /\ c.step = "save" => current' # None,
         current # None => /\ current'.of = current.of /\ current'.base = current.base
                           /\ current'.loading = current.loading,
         reload' \in BOOLEAN, cut' \in BOOLEAN, LockedByCutOnly'
  PROVE  EditorInductive'
<1> USE DEF EditorInductive
<1>1. c # None /\ c.awaited /\ EditFits(c)
  BY DEF Unanswered, TypeOK, CallsFit
<1>2. /\ UNCHANGED <<author, form, history, view>>
      /\ orphaned' = IF c.step = "save" THEN orphaned \cup {c.of} ELSE orphaned
      /\ asked' = IF c.fresh /\ c.step \in HistorySteps THEN history.pane ELSE asked
  BY DEF Unanswered
<1>3. InHand(c) <=> c.fresh
  BY <1>1 DEF InHand
<1>5. PICK e \in Call \cup {None} :
        /\ call' = [call EXCEPT ![s] = e]
        /\ e # None =>
             /\ e \in Call /\ e.step = "save" /\ c.step = "save" /\ ~e.awaited /\ ~e.served
             /\ e.of = c.of /\ e.base = c.base /\ e.version = c.version /\ e.form = c.form
  <2>1. CASE Ends(s)
    BY <2>1 DEF Ends
  <2>2. CASE ~Ends(s)
    <3>1. c.step = "save" /\ ~c.served /\ call' = [call EXCEPT ![s].awaited = FALSE]
      BY <1>1, <2>2 DEF Unanswered, GivenUp
    <3> DEFINE e == [c EXCEPT !.awaited = FALSE]
    <3>2. /\ e \in Call /\ e.step = c.step /\ ~e.awaited /\ e.served = c.served
          /\ e.of = c.of /\ e.base = c.base /\ e.version = c.version /\ e.form = c.form
      BY DEF Call
    <3>3. call' = [call EXCEPT ![s] = e]
      BY <1>1, <3>1
    <3> HIDE DEF e
    <3> QED BY <3>1, <3>2, <3>3
  <2> QED BY <2>1, <2>2
<1>6. orphaned \subseteq orphaned' /\ orphaned' \subseteq Family
  BY <1>2 DEF TypeOK, Call
<1>7. ~InHand(e)
  BY <1>5 DEF InHand
<1>8. e # None => EditFits(e)' /\ ReadFits(e)'
  <2> SUFFICES ASSUME e # None PROVE EditFits(e)' /\ ReadFits(e)'
    OBVIOUS
  <2>1. EditFits(e)'
    BY <1>1, <1>2, <1>5, <1>7 DEF EditFits, InHand, Latest
  <2> QED BY <1>5, <2>1 DEF ReadFits, HistorySteps
<1>9. \A d \in Call : (\E t \in Slot \ {s} : call[t] = d) /\ EditFits(d) /\ ReadFits(d)
                        => EditFits(d)' /\ ReadFits(d)'
  BY <1>1, <1>2, <1>6, OthersFit
<1>10. call' \in [Slot -> Call \cup {None}] /\ CallsFit' /\ OneInHand'
  BY <1>5, <1>7, <1>8, <1>9, OneChanges
<1>11. call'[s] = e /\ \A t \in Slot \ {s} : call'[t] = call[t]
  BY <1>5 DEF TypeOK
<1>12. TypeOK'
  <2>1. \A t \in Slot : call'[t] # None /\ call'[t].step = "save" => call'[t].form # None
    BY <1>1, <1>5, <1>11 DEF TypeOK
  <2>2. asked' \in Pane \cup {None} 
    BY <1>2 DEF TypeOK
  <2> QED BY <1>2, <1>6, <1>10, <2>1, <2>2 DEF TypeOK, Current
<1>13. FormFits'
  <2> SUFFICES ASSUME current' # None PROVE FormFits'
    BY DEF FormFits
  <2>1. current # None
    BY <1>1, <1>3 DEF EditFits
  <2>2. PICK g \in Family, b \in Version :
          /\ g = current.of /\ b = current.base /\ g = current'.of /\ b = current'.base
          /\ b <= Latest(g)
    BY <2>1 DEF TypeOK, FormFits
  <2>3. ~current'.loading => form # None /\ form.of = g /\ form.from = b
    BY <2>1, <2>2 DEF FormFits
  <2>4. ASSUME ~current.loading, g \notin orphaned', ~NoOwnAfter(g, b)
        PROVE  \E t \in Slot :
                 /\ InHand(call'[t]) /\ call'[t].step = "save" /\ call'[t].served /\ call'[t].ok
                 /\ NoOwnAfter(g, call[t].version)'
    <3>1. PICK t \in Slot :
            /\ InHand(call[t]) /\ call[t].step = "save" /\ call[t].served /\ call[t].ok
            /\ NoOwnAfter(g, call[t].version)
      BY <1>6, <2>1, <2>2, <2>4 DEF FormFits
    <3>2. t # s
      BY <1>1, <1>2, <2>2, <2>4, <3>1 DEF EditFits
    <3>3. call'[t] = call[t]
      BY <1>11, <3>2
    <3>4. NoOwnAfter(g, call[t].version)'
      BY <1>2, <3>1, <3>3 DEF NoOwnAfter
    <3> QED BY <3>1, <3>3, <3>4
  <2>5. NoOwnAfter(g, b) => NoOwnAfter(g, b)'
    BY <1>2 DEF NoOwnAfter
  <2>6. current'.loading = current.loading /\ form' = form /\ Latest(g)' = Latest(g)
    BY <1>2, <2>1 DEF Latest
  <2> QED BY <2>2, <2>3, <2>4, <2>5, <2>6 DEF FormFits, NoOwnAfter, InHand
<1>14. ViewFits'
  <2>1. view # "other" => current' # None
    BY DEF ViewFits
  <2> QED BY <1>2, <2>1 DEF ViewFits
<1>15. PaneFits'
  <2>1. CASE c.fresh /\ c.step \in HistorySteps
    BY <1>2, <2>1 DEF PaneFits
  <2>2. CASE ~(c.fresh /\ c.step \in HistorySteps)
    <3>1. \A t \in Slot : InHand(call[t]) /\ call[t].step \in HistorySteps => call'[t] = call[t]
      BY <1>1, <1>3, <1>11, <2>2
    <3> QED BY <1>2, <2>2, <3>1 DEF PaneFits
  <2> QED BY <2>1, <2>2
<1> QED BY <1>10, <1>12, <1>13, <1>14, <1>15

(* A failed save frees the Save button, a failed load can be asked for again. *)
LEMMA FailsKeeps ==
  ASSUME NoneIsApart, EditorInductive, task' = task, NEW s \in Slot, Fails(s)
  PROVE  EditorInductive'
<1> USE DEF EditorInductive
<1>1. PICK c \in Call : c = call[s] /\ c # None /\ c.awaited /\ EditFits(c)
  BY DEF Fails, Unanswered, TypeOK, CallsFit
<1>2. /\ Unanswered(s) /\ UNCHANGED <<cut, view>>
      /\ reload' = (reload \/ (c.fresh /\ c.step = "load"))
      /\ current' = IF c.fresh /\ c.step = "save"
                      THEN [current EXCEPT !.saving = FALSE] ELSE current
  BY <1>1 DEF Fails, Unanswered
<1>3. /\ current' \in {None} \cup Current
      /\ ~(c.fresh /\ c.step = "save") => current' = current
      /\ c.fresh /\ c.step = "save" => current' # None /\ ~current'.saving
      /\ current # None => /\ current'.of = current.of /\ current'.base = current.base
                           /\ current'.loading = current.loading
  <2>1. PICK freed \in BOOLEAN : freed <=> c.fresh /\ c.step = "save"
    <3>1. CASE c.fresh /\ c.step = "save"
      BY <3>1
    <3>2. CASE ~(c.fresh /\ c.step = "save")
      BY <3>2
    <3> QED BY <3>1, <3>2
  <2>2. freed => current # None
    BY <1>1, <2>1 DEF EditFits, InHand
  <2>3. current \in {None} \cup Current
    BY DEF TypeOK, Current
  <2>4. current' = IF freed THEN [current EXCEPT !.saving = FALSE] ELSE current
    BY <1>2, <2>1
  <2> QED BY <2>1, <2>2, <2>3, <2>4, SavingEnds
<1>4. \A t \in Slot : t # s => call'[t] = call[t]
  BY <1>2 DEF Unanswered, GivenUp, Ends, TypeOK
<1>5. LockedByCutOnly'
  <2>1. \A t \in Slot : InHand(call[t]) /\ call[t].step = "load" /\ ~reload' => call'[t] = call[t]
    BY <1>1, <1>2, <1>4 DEF InHand
  <2>2. \A t \in Slot : InHand(call[t]) /\ call[t].step = "save" /\ current'.saving => call'[t] = call[t]
    BY <1>1, <1>3, <1>4 DEF InHand
  <2>3. view' = "editor" /\ current'.loading /\ ~reload' => current.loading /\ ~reload
    BY <1>2, <1>3 DEF ViewFits
  <2>4. current' # None /\ current'.saving => current # None /\ current.saving
    BY <1>3
  <2> QED BY <1>2, <2>1, <2>2, <2>3, <2>4, LocksKept
<1>6. reload' \in BOOLEAN /\ cut' \in BOOLEAN
  BY <1>2 DEF TypeOK
<1> QED BY <1>1, <1>2, <1>3, <1>5, <1>6, UnansweredKeeps

(* A handler that dies of an answer cut short leaves the locks as they are. *)
LEMMA CutShortKeeps ==
  ASSUME NoneIsApart, EditorInductive, task' = task, NEW s \in Slot, CutShort(s)
  PROVE  EditorInductive'
<1> USE DEF EditorInductive
<1>1. PICK c \in Call : c = call[s] /\ c # None /\ c.awaited /\ EditFits(c)
  BY DEF CutShort, Unanswered, TypeOK, CallsFit
<1>2. /\ Unanswered(s) /\ UNCHANGED <<current, reload, view>>
      /\ cut' = (cut \/ (c.fresh /\ c.step \in {"load", "save"}))
  BY <1>1 DEF CutShort, Unanswered
<1>3. c.fresh /\ c.step = "save" => current # None
  BY <1>1 DEF EditFits, InHand
<1>4. \A t \in Slot : t # s => call'[t] = call[t]
  BY <1>2 DEF Unanswered, GivenUp, Ends, TypeOK
<1>5. LockedByCutOnly'
  <2>1. \A t \in Slot : InHand(call[t]) /\ call[t].step \in {"load", "save"} /\ ~cut'
                         => call'[t] = call[t]
    BY <1>1, <1>2, <1>4 DEF InHand
  <2> QED BY <1>2, <2>1, LocksKept
<1>6. reload' \in BOOLEAN /\ cut' \in BOOLEAN /\ current' \in {None} \cup Current
  BY <1>2 DEF TypeOK, Current
<1> QED BY <1>1, <1>2, <1>3, <1>5, <1>6, UnansweredKeeps

(* A rejected save was not accepted: its family is not orphaned. *)
LEMMA RejectedKeeps ==
  ASSUME NoneIsApart, EditorInductive, task' = task, NEW s \in Slot, Rejected(s)
  PROVE  EditorInductive'
<1> USE DEF EditorInductive
<1>1. PICK c \in Call : c = call[s] /\ c # None /\ c.awaited /\ ~c.served /\ EditFits(c)
  BY DEF Rejected, TypeOK, CallsFit
<1>2. /\ UNCHANGED <<author, form, reload, history, cut, orphaned>>
      /\ view' = "other" /\ call' = [call EXCEPT ![s] = None]
      /\ current' = IF c.fresh /\ c.step = "save"
                      THEN [current EXCEPT !.saving = FALSE] ELSE current
      /\ asked' = IF c.fresh /\ c.step \in HistorySteps THEN history.pane ELSE asked
  BY <1>1 DEF Rejected, Ends
<1>3. InHand(c) <=> c.fresh
  BY <1>1 DEF InHand
<1>4. /\ current' \in {None} \cup Current
      /\ ~(c.fresh /\ c.step = "save") => current' = current
      /\ c.fresh /\ c.step = "save" => ~current'.saving
      /\ current # None => /\ current'.of = current.of /\ current'.base = current.base
                           /\ current'.loading = current.loading
  <2>1. PICK freed \in BOOLEAN : freed <=> c.fresh /\ c.step = "save"
    <3>1. CASE c.fresh /\ c.step = "save"
      BY <3>1
    <3>2. CASE ~(c.fresh /\ c.step = "save")
      BY <3>2
    <3> QED BY <3>1, <3>2
  <2>2. freed => current # None
    BY <1>1, <1>3, <2>1 DEF EditFits
  <2>3. current \in {None} \cup Current
    BY DEF TypeOK, Current
  <2>4. current' = IF freed THEN [current EXCEPT !.saving = FALSE] ELSE current
    BY <1>2, <2>1
  <2> QED BY <2>1, <2>2, <2>3, <2>4, SavingEnds
<1>5. \A d \in Call : (\E t \in Slot \ {s} : call[t] = d) /\ EditFits(d) /\ ReadFits(d)
                        => EditFits(d)' /\ ReadFits(d)'
  BY <1>1, <1>2, <1>4, OthersFit
<1>6. ~InHand(None)
  BY DEF InHand
<1>7. call' \in [Slot -> Call \cup {None}] /\ CallsFit' /\ OneInHand'
  BY <1>2, <1>5, <1>6, OneChanges
<1>8. call'[s] = None /\ \A t \in Slot \ {s} : call'[t] = call[t]
  BY <1>2 DEF TypeOK
<1>9. TypeOK'
  <2>1. \A t \in Slot : call'[t] # None /\ call'[t].step = "save" => call'[t].form # None
    BY <1>8 DEF TypeOK
  <2>2. asked' \in Pane \cup {None}
    BY <1>2 DEF TypeOK
  <2> QED BY <1>2, <1>4, <1>7, <2>1, <2>2 DEF TypeOK, Current
<1>10. FormFits'
  <2> SUFFICES ASSUME current' # None PROVE FormFits'
    BY DEF FormFits
  <2>1. current # None
    BY <1>1, <1>3, <1>4 DEF EditFits
  <2>2. \A t \in Slot : InHand(call[t]) /\ call[t].served => call'[t] = call[t]
    BY <1>1, <1>8
  <2> QED BY <1>2, <1>4, <2>1, <2>2 DEF FormFits, NoOwnAfter, Latest
<1>11. ViewFits' /\ PaneFits'
  BY <1>2 DEF ViewFits, PaneFits
<1>12. LockedByCutOnly'
  <2>1. NeverStuck'
    BY <1>2 DEF NeverStuck
  <2>2. \A t \in Slot : /\ InHand(call[t]) /\ call[t].step = "save"
                        /\ current' # None /\ current'.saving
                        => call'[t] = call[t]
    BY <1>1, <1>4, <1>8 DEF InHand
  <2>3. current' # None /\ current'.saving => current # None /\ current.saving
    BY <1>1, <1>3, <1>4 DEF EditFits
  <2>4. cut \/ SavesAgain'
    BY <2>2, <2>3 DEF LockedByCutOnly, SavesAgain, AwaitsAnswer, InHand
  <2> QED BY <1>2, <2>1, <2>4 DEF LockedByCutOnly
<1> QED BY <1>7, <1>9, <1>10, <1>11, <1>12

-----------------------------------------------------------------------------
(* Leaving the view, going back to it, and all steps together. *)

LEMMA ViewChanges ==
  ASSUME NoneIsApart, EditorInductive, task' = task, Leave \/ Back
  PROVE  EditorInductive'
<1> USE DEF EditorInductive
<1>1. /\ UNCHANGED <<author, current, form, reload, history, call, cut, orphaned, asked>>
      /\ view' = "other" \/ (view = "history" /\ view' = "editor")
  BY DEF Leave, Back
<1>2. TypeOK'
  BY <1>1 DEF TypeOK
<1>3. CallsFit'
  <2> SUFFICES ASSUME NEW t \in Slot, call'[t] # None
               PROVE  EditFits(call[t])' /\ ReadFits(call[t])'
    BY DEF CallsFit
  <2>1. PICK d \in Call : d = call[t] /\ d = call'[t] /\ EditFits(d) /\ ReadFits(d)
    BY <1>1 DEF TypeOK, CallsFit
  <2>2. EditFits(d)' /\ ReadFits(d)'
    BY <1>1, <2>1 DEF EditFits, ReadFits, NoOwnAfter, Latest
  <2> QED BY <2>1, <2>2 DEF EditFits, ReadFits
<1>4. OneInHand' /\ FormFits'
  BY <1>1 DEF OneInHand, FormFits, NoOwnAfter, Latest
<1>5. ViewFits' /\ PaneFits'
  BY <1>1 DEF ViewFits, PaneFits
<1>6. LockedByCutOnly'
  <2>1. NeverStuck => NeverStuck'
    BY <1>1 DEF NeverStuck, AwaitsAnswer, ViewFits
  <2>2. SavesAgain => SavesAgain'
    BY <1>1 DEF SavesAgain, AwaitsAnswer
  <2> QED BY <1>1, <2>1, <2>2 DEF LockedByCutOnly
<1> QED BY <1>2, <1>3, <1>4, <1>5, <1>6

LEMMA StutterKeeps == ASSUME EditorInductive, UNCHANGED vars PROVE EditorInductive'
<1> USE DEF EditorInductive, vars, page
<1>1. TypeOK'
  BY DEF TypeOK
<1>2. CallsFit'
  <2> SUFFICES ASSUME NEW t \in Slot, call'[t] # None
               PROVE  EditFits(call[t])' /\ ReadFits(call[t])'
    BY DEF CallsFit
  <2>1. EditFits(call[t]) /\ ReadFits(call[t])
    BY DEF CallsFit
  <2> QED BY <2>1 DEF EditFits, ReadFits, NoOwnAfter, Latest
<1>3. OneInHand' /\ FormFits'
  BY DEF OneInHand, FormFits, NoOwnAfter, Latest
<1>4. ViewFits' /\ PaneFits' /\ LockedByCutOnly'
  BY DEF ViewFits, PaneFits, LockedByCutOnly, NeverStuck, SavesAgain, AwaitsAnswer
<1> QED BY <1>1, <1>2, <1>3, <1>4

LEMMA OpensKeeps ==
  ASSUME NoneIsApart, EditorInductive, task' = task, NEW s \in Slot, Opens(s)
  PROVE  EditorInductive'
<1>1. CASE \E f \in Family : Open(s, f)
  <2>1. PICK f \in Family : OpenEditor(s, f, 0)
    BY <1>1 DEF Open
  <2>2. 0 \in Version /\ 0 <= Latest(f)
    BY NoneAfterLatest DEF EditorInductive, Version
  <2> QED BY <2>1, <2>2, OpenEditorKeeps
<1>2. CASE Reload(s)
  <2>1. PICK f \in Family, b \in Version : f = current.of /\ b = current.base /\ b <= Latest(f)
    BY <1>2 DEF Reload, EditorInductive, ViewFits, FormFits, TypeOK
  <2>2. OpenEditor(s, f, b)
    BY <1>2, <2>1 DEF Reload
  <2> QED BY <2>1, <2>2, OpenEditorKeeps
<1> QED BY <1>1, <1>2 DEF Opens

LEMMA AnswerKeeps ==
  ASSUME NoneIsApart, EditorInductive, task' = task, NEW s \in Slot, Answer(s)
  PROVE  EditorInductive'
BY ServeReadKeeps, ServeSaveKeeps, LoadArrivesKeeps, SaveArrivesKeeps, ListArrivesKeeps,
   ShowArrivesKeeps, FailsKeeps, CutShortKeeps, RejectedKeeps, LostKeeps DEF Answer

LEMMA NextKeeps == NoneIsApart /\ EditorInductive /\ [Next]_vars => EditorInductive'
<1> SUFFICES ASSUME NoneIsApart, EditorInductive, Next PROVE EditorInductive'
  BY StutterKeeps
<1>1. task' = task
  BY DEF Next
<1>2. CASE Others
  BY <1>1, <1>2, EditedKeeps DEF Others
<1>3. ASSUME NEW s \in Slot, Answer(s) PROVE EditorInductive'
  BY <1>1, <1>3, AnswerKeeps
<1>4. ASSUME NEW s \in Slot, Opens(s) PROVE EditorInductive'
  BY <1>1, <1>4, OpensKeeps
<1>5. ASSUME NEW s \in Slot, SubmitSave(s) PROVE EditorInductive'
  BY <1>1, <1>5, SubmitSaveKeeps
<1>6. ASSUME NEW s \in Slot, Reads(s) PROVE EditorInductive'
  BY <1>1, <1>6, EnterHistoryKeeps, ShowVersionsKeeps DEF Reads
<1>7. CASE Leave \/ Back
  BY <1>1, <1>7, ViewChanges
<1> QED BY <1>2, <1>3, <1>4, <1>5, <1>6, <1>7 DEF Next

LEMMA InductiveAlways == ASSUME NoneIsApart PROVE Spec => []EditorInductive
<1>1. Init => EditorInductive
  BY InitHolds
<1>2. EditorInductive /\ [Next]_vars => EditorInductive'
  BY NextKeeps
<1> QED BY <1>1, <1>2, PTL DEF Spec

-----------------------------------------------------------------------------
(* What an operator can rely on. *)

(* Only an answer that was cut short in its body keeps an editor locked with
   neither a load that is awaited nor the Reload button, or its Save dead with
   no save awaited; history is shown under the path of its own document, and
   once the answers are in, the pane shows what was asked for last
   (openEditor, submitEditorSave, enterHistoryView, viewHistoryVersion and
   diffTwoVersions of app.js). *)
THEOREM EditorStaysSound == ASSUME NoneIsApart PROVE Spec => []EditorInvariant
<1>1. EditorInductive => EditorInvariant
  BY DEF EditorInductive, EditorInvariant, ViewFits, HistoryUnderItsPath, PaneFits,
         PaneAsAsked, InHand
<1> QED BY <1>1, InductiveAlways, PTL

(* A step that serves a save is ServeSave. *)
LEMMA OnlyServeSaveServes ==
  ASSUME EditorInductive, Next, NEW s \in Slot, Waits(s, {"save"}), call'[s] # call[s],
         author' # author
  PROVE  ServeSave(s)
<1> USE DEF Waits
<1>1. ~Others
  BY DEF Others, Edited
<1>2. ~(Leave \/ Back)
  BY DEF Leave, Back
<1>3. ASSUME NEW t \in Slot PROVE ~(Opens(t) \/ SubmitSave(t) \/ Reads(t))
  BY DEF Opens, Open, Reload, OpenEditor, SubmitSave, Reads, EnterHistory, ShowVersions
<1>4. ASSUME NEW t \in Slot
      PROVE  ~(ServeRead(t) \/ LoadArrives(t) \/ SaveArrives(t) \/ ListArrives(t)
               \/ ShowArrives(t) \/ Fails(t) \/ CutShort(t) \/ Rejected(t) \/ Lost(t))
  BY DEF ServeRead, LoadArrives, SaveArrives, ListArrives, ShowArrives, Fails, CutShort,
         Unanswered, Rejected, Lost
<1>5. PICK t \in Slot : ServeSave(t)
  BY <1>1, <1>2, <1>3, <1>4 DEF Next, Answer
<1>6. t = s
  BY <1>5 DEF ServeSave, EditorInductive, TypeOK
<1> QED BY <1>5, <1>6

(* What SaveDoc accepts from submitEditorSave was typed into a form that was
   filled for that document, over the version it replaces, or for a document
   that was not there. *)
THEOREM SavesOverWhatWasShown == ASSUME NoneIsApart PROVE Spec => SavesWhatWasShown
<1> DEFINE Shown == \A s \in Slot :
             Waits(s, {"save"}) /\ author' # author /\ call'[s] # call[s] =>
               call[s].form \in {[of |-> call[s].of, from |-> Latest(call[s].of)],
                                 [of |-> call[s].of, from |-> 0]}
               /\ call[s].form.from = call[s].base
<1>1. EditorInductive /\ [Next]_vars => [Shown]_vars
  <2> SUFFICES ASSUME EditorInductive, Next, NEW s \in Slot, Waits(s, {"save"}),
                      author' # author, call'[s] # call[s]
               PROVE  call[s].form \in {[of |-> call[s].of, from |-> Latest(call[s].of)],
                                        [of |-> call[s].of, from |-> 0]}
                      /\ call[s].form.from = call[s].base
    OBVIOUS
  <2>1. ServeSave(s)
    BY OnlyServeSaveServes
  <2>2. call[s].base \in {0, Latest(call[s].of)}
    BY <2>1, author' # author DEF ServeSave
  <2>3. /\ call[s].form \in Form
        /\ call[s].form.of = call[s].of /\ call[s].form.from = call[s].base
    BY DEF Waits, EditorInductive, TypeOK, CallsFit, EditFits, Call
  <2>4. call[s].form = [of |-> call[s].of, from |-> call[s].base]
    BY <2>3 DEF Form
  <2> QED BY <2>2, <2>3, <2>4
<1> QED BY <1>1, InductiveAlways, PTL DEF Spec, SavesWhatWasShown

(* A save of submitEditorSave that finds another version than its base meets
   another editor's, unless the answer to an earlier save was missed. *)
THEOREM NeverRacesItself == ASSUME NoneIsApart PROVE Spec => NoSelfRace
<1> DEFINE Apart == \A s \in Slot :
             /\ Waits(s, {"save"}) /\ ~Waits(s, {"save"})'
             /\ author' # author \/ (call'[s] # None /\ call'[s].served)
             /\ Latest(call[s].of) # call[s].base
             => \/ call[s].of \in orphaned
                \/ \E v \in DOMAIN author[call[s].of] :
                     v > call[s].base /\ author[call[s].of][v] = "other"
<1>1. EditorInductive => \A s \in Slot :
        Waits(s, {"save"}) /\ Latest(call[s].of) # call[s].base
        => \/ call[s].of \in orphaned
           \/ \E v \in DOMAIN author[call[s].of] :
                v > call[s].base /\ author[call[s].of][v] = "other"
  <2> SUFFICES ASSUME EditorInductive, NEW s \in Slot, Waits(s, {"save"}),
                      Latest(call[s].of) # call[s].base, call[s].of \notin orphaned
               PROVE  \E v \in DOMAIN author[call[s].of] :
                        v > call[s].base /\ author[call[s].of][v] = "other"
    OBVIOUS
  <2>1. PICK c \in Call : c = call[s] /\ c # None /\ c.step = "save" /\ ~c.served /\ EditFits(c)
    BY DEF Waits, EditorInductive, TypeOK, CallsFit
  <2>2. PICK f \in Family, b \in Version : f = c.of /\ b = c.base
    BY DEF Call
  <2>3. InHand(c) /\ b <= Latest(f) /\ current # None /\ current.of = f /\ current.base = b
        /\ ~current.loading
    BY <2>1, <2>2 DEF EditFits
  <2>4. NoOwnAfter(f, b)
    <3>1. \A t \in Slot : InHand(call[t]) /\ call[t].step = "save" => t = s
      BY <2>1, <2>3 DEF EditorInductive, OneInHand
    <3> QED BY <2>1, <2>2, <2>3, <3>1 DEF EditorInductive, FormFits
  <2>5. DOMAIN author[f] = 1..Latest(f) /\ Latest(f) \in Nat
    BY LenProperties DEF EditorInductive, TypeOK, Latest
  <2>6. Latest(f) > b /\ Latest(f) \in DOMAIN author[f]
    BY <2>1, <2>2, <2>3, <2>5 DEF Version
  <2>7. author[f][Latest(f)] = "other"
    BY <2>4, <2>6 DEF NoOwnAfter
  <2> QED BY <2>1, <2>2, <2>6, <2>7
<1>2. EditorInductive /\ [Next]_vars => [Apart]_vars
  BY <1>1
<1> QED BY <1>2, InductiveAlways, PTL DEF Spec, NoSelfRace
=============================================================================
