------------------------- MODULE ConflictViewProofs -------------------------
(***************************************************************************)
(* Proofs about ConflictView, for every set of conflict records and of     *)
(* requests in flight, any number of attempts and of versions.             *)
(***************************************************************************)
EXTENDS Pages, TLAPS

(* The constants mean what their comments say. *)
Bounds == MaxVersion \in Nat \ {0} /\ MaxAttempts \in Nat \ {0} /\ None \notin Page!Form

-----------------------------------------------------------------------------
(* The inductive invariant. *)

(* An operator who waits has one request on its way. *)
OneAtATime ==
  patient => \A s, t \in ViewSlot : awaited[s] # None /\ awaited[t] # None => s = t

(* A request goes with the page.  A record that was fetched had an attempt.  As
   long as an operator waits, openConflict finds the page as it has reset it,
   and later as it has filled it; and a resolution carries the form of its own
   record, over a version if there was one. *)
Fits(c) ==
  /\ c.step = "record" /\ c.served => c.seen >= 1
  /\ patient =>
       /\ c.step = "record" => conflict = None /\ ~saveOn /\ ~merging
       /\ c.step = "current" =>
            /\ ~saveOn
            /\ c.served /\ born[c.id] => c.version # 0
            /\ conflict # None =>
                 /\ conflict.id = c.id /\ conflict.seen = c.seen /\ conflict.from = None
                 /\ merging /\ merges[c.id]
       /\ c.step = "resolve" /\ c.save # None =>
            /\ c.save.of = c.id /\ c.save.attempt \in {0, c.seen}
            /\ born[c.id] => c.version # 0

CallsFit == \A s \in ViewSlot : awaited[s] # None => Fits(awaited[s])

(* What an operator who waits has before him: the merge form is of the record,
   and it can be saved over a version if there was one. *)
FormFits ==
  patient /\ conflict # None =>
    /\ merging => /\ merges[conflict.id]
                  /\ merge # None /\ merge.of = conflict.id
                  /\ merge.attempt \in {0, conflict.seen}
    /\ conflict.from \in {None, conflict.id}
    /\ saveOn /\ born[conflict.id] => conflict.version # 0

(* A record that was resolved with a save is no longer open, and a family that
   had a version keeps one. *)
ClosedBySave == \A r \in Record : saves[r] = 0 \/ (saves[r] = 1 /\ ~open[r])
KeepsVersions == \A r \in Record : born[r] => version[r] >= 1

MergeInductive ==
  Page!TypeOK /\ CallsFit /\ OneAtATime /\ FormFits /\ ClosedBySave /\ KeepsVersions

-----------------------------------------------------------------------------
(* The steps, one request at a time. *)

LEMMA InitHolds == ASSUME Bounds PROVE Page!Init => MergeInductive
<1> SUFFICES ASSUME Page!Init PROVE MergeInductive
  OBVIOUS
<1>1. 0 \in 0..MaxVersion /\ 1 \in 0..MaxVersion /\ 1 \in 1..MaxAttempts
  BY DEF Bounds
<1>2. version \in [Record -> 0..MaxVersion]
      /\ \A r \in Record : version[r] = IF born[r] THEN 1 ELSE 0
  BY <1>1 DEF Page!Init
<1>3. Page!TypeOK
  BY <1>1, <1>2 DEF Page!Init, Page!TypeOK
<1>5. CallsFit /\ OneAtATime /\ FormFits
  BY DEF Page!Init, CallsFit, OneAtATime, FormFits
<1>6. ClosedBySave /\ KeepsVersions
  BY <1>2 DEF Page!Init, ClosedBySave, KeepsVersions
<1> QED BY <1>3, <1>5, <1>6 DEF MergeInductive

Idle == \A s \in ViewSlot : awaited[s] = None

(* A step of one handler that starts, ends or changes its request: the other
   requests still go with the page, because it stays or because there are
   none. *)
LEMMA RequestKeeps ==
  ASSUME Page!TypeOK, CallsFit, OneAtATime, NEW s \in ViewSlot,
         NEW c \in Page!Call \cup {None}, awaited' = [awaited EXCEPT ![s] = c],
         UNCHANGED <<patient, Page!kinds>>,
         c # None => Fits(c)',
         patient => awaited[s] # None \/ Idle \/ UNCHANGED <<conflict, saveOn, merging>>,
         patient /\ c # None => awaited[s] # None \/ Idle
  PROVE  awaited' \in [ViewSlot -> Page!Call \cup {None}] /\ CallsFit' /\ OneAtATime'
<1>1. awaited'[s] = c /\ \A t \in ViewSlot \ {s} : awaited'[t] = awaited[t]
  BY DEF Page!TypeOK
<1>2. ASSUME NEW t \in ViewSlot \ {s}, NEW d, d = awaited[t], d # None PROVE Fits(d)'
  <2>1. Fits(d)
    BY <1>2 DEF CallsFit
  <2>2. patient => UNCHANGED <<conflict, saveOn, merging>>
    BY <1>2 DEF OneAtATime, Idle
  <2> QED BY <2>1, <2>2 DEF Fits, Page!kinds
<1>3. CallsFit'
  <2>1. SUFFICES ASSUME NEW t \in ViewSlot, awaited'[t] # None PROVE Fits(awaited[t])'
    BY DEF CallsFit
  <2>2. PICK d : d = awaited'[t]
    OBVIOUS
  <2>3. Fits(d)'
    BY <1>1, <1>2, <2>1, <2>2
  <2> QED BY <2>2, <2>3 DEF Fits
<1>4. OneAtATime'
  BY <1>1 DEF OneAtATime, Idle
<1> QED BY <1>3, <1>4 DEF Page!TypeOK

(* A step that leaves the page as it is, and the server but for a record that
   it closes or adds to. *)
LEMMA PageStays ==
  ASSUME MergeInductive, NEW s \in ViewSlot,
         NEW c \in Page!Call \cup {None}, awaited' = [awaited EXCEPT ![s] = c],
         UNCHANGED <<patient, Page!kinds, Page!page, Page!server>>,
         c # None => Fits(c),
         patient /\ c # None => awaited[s] # None \/ Idle
  PROVE  MergeInductive'
<1> USE DEF MergeInductive
<1>1. c # None => Fits(c)'
  BY DEF Fits, Page!page, Page!kinds
<1>2. UNCHANGED <<conflict, saveOn, merging>>
  BY DEF Page!page
<1>3. awaited' \in [ViewSlot -> Page!Call \cup {None}] /\ CallsFit' /\ OneAtATime'
  BY <1>1, <1>2, RequestKeeps
<1>4. Page!TypeOK'
  BY <1>3 DEF Page!TypeOK, Page!page, Page!kinds, Page!server
<1>5. FormFits' /\ ClosedBySave' /\ KeepsVersions'
  BY DEF FormFits, ClosedBySave, KeepsVersions, Page!page, Page!kinds, Page!server
<1> QED BY <1>3, <1>4, <1>5

(* Other editors save, or are refused. *)
LEMMA OthersKeep ==
  ASSUME Bounds, MergeInductive, UNCHANGED <<patient, Page!kinds>>, Page!Others
  PROVE  MergeInductive'
<1> USE DEF MergeInductive
<1>1. PICK r \in Record : Page!Edited(r) \/ Page!Refused(r)
  BY DEF Page!Others
<1>2. /\ UNCHANGED <<open, saves, Page!page, awaited>>
      /\ attempts' \in [Record -> 1..MaxAttempts] /\ version' \in [Record -> 0..MaxVersion]
      /\ \A q \in Record : version'[q] >= version[q]
  BY <1>1 DEF Page!Edited, Page!Refused, Bounds, Page!TypeOK
<1>3. Page!TypeOK'
  BY <1>2 DEF Page!TypeOK, Page!page, Page!kinds
<1>4. CallsFit' /\ OneAtATime'
  BY <1>2 DEF CallsFit, Fits, OneAtATime, Page!page, Page!kinds
<1>5. FormFits' /\ ClosedBySave'
  BY <1>2 DEF FormFits, ClosedBySave, Page!page, Page!kinds
<1>6. KeepsVersions'
  BY <1>2 DEF KeepsVersions, Page!kinds, Page!TypeOK
<1> QED BY <1>2, <1>3, <1>4, <1>5, <1>6

(* The answers to the fetches. *)
LEMMA FetchKeeps ==
  ASSUME Bounds, MergeInductive, UNCHANGED <<patient, Page!kinds>>, NEW s \in ViewSlot,
         Page!ServeRecord(s) \/ Page!ServeCurrent(s)
  PROVE  MergeInductive'
<1> USE DEF MergeInductive
<1>1. /\ awaited[s] \in Page!Call /\ awaited[s] # None /\ Fits(awaited[s])
      /\ UNCHANGED <<Page!page, Page!server>>
  BY DEF Page!TypeOK, CallsFit, Page!ServeRecord, Page!ServeCurrent, Page!Waits
<1>2. PICK r \in Record : r = awaited[s].id
  BY <1>1 DEF Page!Call
<1>3. CASE Page!ServeRecord(s)
  <2>1. PICK n \in 1..MaxAttempts, was \in BOOLEAN : n = attempts[r] /\ was = open[r]
    BY DEF Page!TypeOK
  <2> DEFINE c == [awaited[s] EXCEPT !.served = TRUE, !.ok = TRUE, !.seen = n, !.open = was]
  <2>2. c \in Page!Call /\ c.step = "record" /\ c.seen >= 1 /\ awaited[s].step = "record"
    <3>1. n \in 0..MaxAttempts /\ n >= 1 /\ awaited[s].step = "record"
      BY <1>3, <2>1 DEF Page!ServeRecord, Page!Waits, Bounds
    <3>2. c \in Page!Call /\ c.step = awaited[s].step /\ c.seen = n
      BY <1>1, <3>1 DEF Page!Call
    <3> QED BY <3>1, <3>2
  <2>3. awaited' = [awaited EXCEPT ![s] = c]
    BY <1>2, <1>3, <2>1 DEF Page!ServeRecord
  <2> HIDE DEF c
  <2>4. Fits(c)
    BY <1>1, <2>2 DEF Fits
  <2> QED BY <1>1, <2>2, <2>3, <2>4, PageStays
<1>4. CASE Page!ServeCurrent(s)
  <2>1. PICK n \in 0..MaxVersion : n = version[r]
    BY DEF Page!TypeOK
  <2>2. born[r] => n # 0
    BY <2>1 DEF KeepsVersions
  <2> DEFINE c == [awaited[s] EXCEPT !.served = TRUE, !.ok = TRUE, !.version = n]
  <2>3. /\ c \in Page!Call /\ c.step = "current" /\ awaited[s].step = "current" /\ c.id = r
        /\ c.version = n /\ c.seen = awaited[s].seen
    BY <1>1, <1>2, <1>4, <2>1 DEF Page!Call, Page!ServeCurrent, Page!Waits
  <2>4. awaited' = [awaited EXCEPT ![s] = c]
    BY <1>2, <1>4, <2>1 DEF Page!ServeCurrent
  <2> HIDE DEF c
  <2>5. Fits(c)
    BY <1>1, <1>2, <2>2, <2>3 DEF Fits
  <2> QED BY <1>1, <2>3, <2>4, <2>5, PageStays
<1> QED BY <1>3, <1>4

(* The server closes a record at most once, with at most one save. *)
LEMMA ServeResolveKeeps ==
  ASSUME Bounds, MergeInductive, UNCHANGED <<patient, Page!kinds>>, NEW s \in ViewSlot,
         Page!ServeResolve(s)
  PROVE  MergeInductive'
<1> USE DEF MergeInductive
<1>1. /\ awaited[s] \in Page!Call /\ awaited[s] # None /\ Fits(awaited[s])
      /\ awaited[s].step = "resolve"
      /\ UNCHANGED <<Page!page, attempts>>
  BY DEF Page!TypeOK, CallsFit, Page!ServeResolve, Page!Waits
<1>2. PICK ok \in BOOLEAN : ok = Page!Accepted(awaited[s])
  BY DEF Page!Accepted
<1>3. PICK r \in Record, n \in 0..1 :
        r = awaited[s].id /\ n = IF Page!Accepted(awaited[s])
        /\ awaited[s].save # None THEN 1 ELSE 0
  BY <1>1 DEF Page!Call
<1>4. /\ open' = [open EXCEPT ![r] = @ /\ ~ok]
      /\ version' = [version EXCEPT ![r] = @ + n]
      /\ saves' = [saves EXCEPT ![r] = @ + n]
  BY <1>2, <1>3 DEF Page!ServeResolve
<1>5. n = 1 => ok /\ open[r] /\ version[r] < MaxVersion
  BY <1>2, <1>3 DEF Page!Accepted
<1>6. /\ open' \in [Record -> BOOLEAN] /\ version' \in [Record -> 0..MaxVersion]
      /\ \A q \in Record : version'[q] >= version[q]
      /\ \A q \in Record : open'[q] => open[q]
  BY <1>4, <1>5 DEF Page!TypeOK, Bounds
<1>7. ClosedBySave' /\ saves' \in [Record -> 0..MaxVersion]
  <2>1. \A q \in Record : saves[q] = 0 \/ (saves[q] = 1 /\ ~open[q])
    BY DEF ClosedBySave
  <2>2. ASSUME NEW q \in Record PROVE saves'[q] = 0 \/ (saves'[q] = 1 /\ ~open'[q])
    <3>1. CASE q # r \/ n = 0
      <4>1. saves'[q] = saves[q] /\ (open'[q] => open[q])
        BY <1>4, <1>6, <3>1 DEF Page!TypeOK
      <4> QED BY <2>1, <4>1
    <3>2. CASE q = r /\ n = 1
      <4>1. saves[q] = 0 /\ saves'[q] = saves[q] + 1 /\ ~open'[q]
        BY <1>4, <1>5, <2>1, <3>2 DEF Page!TypeOK
      <4> QED BY <4>1
    <3> QED BY <3>1, <3>2
  <2> QED BY <1>4, <2>2 DEF ClosedBySave, Page!TypeOK, Bounds
<1>8. PICK c \in Page!Call :
        /\ awaited' = [awaited EXCEPT ![s] = c] /\ c.step = "resolve"
        /\ c.id = awaited[s].id /\ c.save = awaited[s].save /\ c.seen = awaited[s].seen
        /\ c.version = awaited[s].version
  <2> DEFINE c == [awaited[s] EXCEPT !.served = TRUE, !.ok = ok]
  <2>1. /\ c \in Page!Call /\ c.step = "resolve"
        /\ c.id = awaited[s].id /\ c.save = awaited[s].save /\ c.seen = awaited[s].seen
        /\ c.version = awaited[s].version
    BY <1>1, <1>2 DEF Page!Call
  <2>2. awaited' = [awaited EXCEPT ![s] = c]
    BY <1>2 DEF Page!ServeResolve
  <2> HIDE DEF c
  <2> QED BY <2>1, <2>2
<1>9. Fits(c)'
  BY <1>1, <1>8 DEF Fits, Page!kinds
<1>10. awaited' \in [ViewSlot -> Page!Call \cup {None}] /\ CallsFit' /\ OneAtATime'
  BY <1>1, <1>8, <1>9, RequestKeeps
<1>11. Page!TypeOK'
  BY <1>1, <1>6, <1>7, <1>10 DEF Page!TypeOK, Page!page, Page!kinds
<1>12. FormFits' /\ KeepsVersions'
  BY <1>1, <1>6 DEF FormFits, KeepsVersions, Page!TypeOK, Page!page, Page!kinds
<1> QED BY <1>7, <1>10, <1>11, <1>12

-----------------------------------------------------------------------------
(* The steps of the page. *)

LEMMA RequestFacts ==
  ASSUME Bounds, NEW step \in {"record", "current", "resolve"}, NEW id \in Record
  PROVE  /\ Page!Request(step, id) \in Page!Call /\ Page!Request(step, id).step = step
         /\ Page!Request(step, id).id = id /\ ~Page!Request(step, id).served
BY DEF Bounds, Page!Request, Page!Call

(* openConflict resets the page, whoever called it. *)
LEMMA OpenKeeps ==
  ASSUME Bounds, MergeInductive, UNCHANGED <<patient, Page!kinds>>, NEW s \in ViewSlot,
         NEW id \in Record, Page!OpenConflict(s, id), patient => awaited[s] # None \/ Idle
  PROVE  MergeInductive'
<1> USE DEF MergeInductive
<1>1. PICK c \in Page!Call : c = Page!Request("record", id) /\ c.step = "record" /\ ~c.served
  BY RequestFacts
<1>2. /\ awaited' = [awaited EXCEPT ![s] = c]
      /\ UNCHANGED <<Page!server, merge>>
      /\ conflict' = None /\ keepOn' = FALSE /\ saveOn' = FALSE /\ hidden' = FALSE
      /\ merging' = FALSE /\ shown' = TRUE
  BY <1>1 DEF Page!OpenConflict
<1>3. Fits(c)'
  BY <1>1, <1>2 DEF Fits
<1>4. awaited' \in [ViewSlot -> Page!Call \cup {None}] /\ CallsFit' /\ OneAtATime'
  BY <1>2, <1>3, RequestKeeps
<1>5. Page!TypeOK'
  BY <1>2, <1>4 DEF Page!TypeOK, Page!server, Page!kinds
<1>6. FormFits' /\ ClosedBySave' /\ KeepsVersions'
  BY <1>2 DEF FormFits, ClosedBySave, KeepsVersions, Page!server, Page!kinds
<1> QED BY <1>4, <1>5, <1>6

(* The record arrives: the form is filled with its own attempt. *)
LEMMA RecordKeeps ==
  ASSUME Bounds, MergeInductive, UNCHANGED <<patient, Page!kinds>>, NEW s \in ViewSlot,
         Page!RecordArrives(s)
  PROVE  MergeInductive'
<1> USE DEF MergeInductive
<1>1. /\ awaited[s] \in Page!Call /\ awaited[s] # None /\ Fits(awaited[s])
      /\ awaited[s].step = "record" /\ awaited[s].served
  BY DEF Page!TypeOK, CallsFit, Page!RecordArrives, Page!Answered
<1>2. PICK id \in Record, tried \in 1..MaxAttempts : id = awaited[s].id /\ tried = awaited[s].seen
  <2>1. awaited[s].seen \in 1..MaxAttempts
    BY <1>1 DEF Page!Call, Fits, Bounds
  <2> QED BY <1>1, <2>1 DEF Page!Call
<1>3. /\ conflict' = [id |-> id, seen |-> tried, from |-> None, version |-> 0]
      /\ UNCHANGED <<Page!server, shown>>
      /\ patient => ~saveOn
  BY <1>1, <1>2 DEF Page!RecordArrives, Fits
<1>4. \/ /\ merging' = FALSE /\ saveOn' = saveOn /\ merge' = merge
         /\ hidden' \in BOOLEAN /\ keepOn' \in BOOLEAN
         /\ awaited' = [awaited EXCEPT ![s] = None]
      \/ /\ merges[id] /\ merge' = [of |-> id, attempt |-> tried]
         /\ keepOn' = FALSE /\ saveOn' = FALSE /\ merging' = TRUE /\ hidden' = hidden
        
         /\ awaited' = [awaited EXCEPT ![s] = [Page!Request("current", id) EXCEPT !.seen = tried]]
  BY <1>2 DEF Page!RecordArrives, Page!Ends, Page!TypeOK
<1>5. tried \in 0..MaxAttempts /\ 0 \in 0..MaxVersion
  BY DEF Bounds
<1>6. PICK c \in Page!Call \cup {None} :
        /\ awaited' = [awaited EXCEPT ![s] = c]
        /\ c # None => /\ c.step = "current" /\ ~c.served /\ c.id = id /\ c.seen = tried
                       /\ merging' = TRUE /\ merges[id] /\ saveOn' = FALSE
  <2>1. PICK r \in Page!Call : r = Page!Request("current", id) /\ r.step = "current" /\ ~r.served
                               /\ r.id = id
    BY RequestFacts
  <2> DEFINE request == [r EXCEPT !.seen = tried]
  <2>2. /\ request \in Page!Call /\ request.step = "current" /\ ~request.served
        /\ request.id = id /\ request.seen = tried
    BY <1>5, <2>1 DEF Page!Call
  <2>3. request = [Page!Request("current", id) EXCEPT !.seen = tried]
    BY <2>1
  <2> HIDE DEF request
  <2> QED BY <1>4, <2>2, <2>3
<1>7. c # None => Fits(c)'
  BY <1>3, <1>6 DEF Fits, Page!kinds
<1>8. awaited' \in [ViewSlot -> Page!Call \cup {None}] /\ CallsFit' /\ OneAtATime'
  BY <1>1, <1>6, <1>7, RequestKeeps
<1>9. Page!TypeOK'
  <2>1. merge' \in Page!Form \cup {None}
    BY <1>4, <1>5 DEF Page!TypeOK, Page!Form
  <2>2. {keepOn', saveOn', hidden', merging', shown'} \subseteq BOOLEAN
    BY <1>3, <1>4 DEF Page!TypeOK
  <2> QED BY <1>3, <1>5, <1>8, <2>1, <2>2 DEF Page!TypeOK, Page!server, Page!kinds
<1>10. FormFits'
  <2>1. [of |-> id, attempt |-> tried] # None
    BY <1>5 DEF Bounds, Page!Form
  <2> QED BY <1>3, <1>4, <2>1 DEF FormFits, Page!kinds
<1>11. ClosedBySave' /\ KeepsVersions'
  BY <1>3 DEF ClosedBySave, KeepsVersions, Page!server, Page!kinds
<1> QED BY <1>8, <1>9, <1>10, <1>11

(* The document arrives: the form is filled with it, if there is one, and can
   be saved. *)
LEMMA CurrentKeeps ==
  ASSUME Bounds, MergeInductive, UNCHANGED <<patient, Page!kinds>>, NEW s \in ViewSlot,
         Page!CurrentArrives(s)
  PROVE  MergeInductive'
<1> USE DEF MergeInductive
<1>1. /\ awaited[s] \in Page!Call /\ awaited[s] # None /\ Fits(awaited[s])
      /\ awaited[s].step = "current" /\ awaited[s].served
  BY DEF Page!TypeOK, CallsFit, Page!CurrentArrives, Page!Answered
<1>2. PICK c \in Page!Call : c = awaited[s]
  BY <1>1
<1>3. c.id \in Record /\ c.seen \in 0..MaxAttempts /\ c.version \in 0..MaxVersion
  BY DEF Page!Call
<1>4. awaited' = [awaited EXCEPT ![s] = None]
      /\ UNCHANGED <<Page!server, hidden, merging, shown>>
  BY DEF Page!CurrentArrives, Page!Ends
<1>5. awaited' \in [ViewSlot -> Page!Call \cup {None}] /\ CallsFit' /\ OneAtATime'
  BY <1>1, <1>4, RequestKeeps
<1>6. ClosedBySave' /\ KeepsVersions'
  BY <1>4 DEF ClosedBySave, KeepsVersions, Page!server, Page!kinds
<1>7. CASE conflict = None
  <2>1. UNCHANGED <<conflict, merge, keepOn, saveOn>>
    BY <1>7 DEF Page!CurrentArrives
  <2>2. Page!TypeOK' /\ FormFits'
    BY <1>4, <1>5, <2>1 DEF Page!TypeOK, FormFits, Page!server, Page!kinds
  <2> QED BY <1>5, <1>6, <2>2
<1>8. CASE conflict # None
  <2> DEFINE from == IF c.version = 0 THEN None ELSE c.id
             filled == [of |-> c.id, attempt |-> c.seen]
  <2>1. /\ conflict' = [conflict EXCEPT !.from = from, !.version = c.version]
        /\ merge' = IF c.version = 0 THEN merge ELSE filled
        /\ keepOn' = TRUE /\ saveOn' = TRUE
    BY <1>2, <1>8 DEF Page!CurrentArrives
  <2>2. filled \in Page!Form /\ filled # None /\ from \in Record \cup {None}
    BY <1>3 DEF Page!Form, Bounds
  <2> HIDE DEF from
  <2>3. /\ conflict' \in [id : Record, seen : 1..MaxAttempts, from : Record \cup {None},
                          version : 0..MaxVersion]
        /\ conflict'.id = conflict.id /\ conflict'.seen = conflict.seen
        /\ conflict'.from = from /\ conflict'.version = c.version
    BY <1>3, <1>8, <2>1, <2>2 DEF Page!TypeOK
  <2>4. Page!TypeOK'
    BY <1>4, <1>5, <2>1, <2>2, <2>3 DEF Page!TypeOK, Page!server, Page!kinds
  <2>5. patient => /\ conflict.id = c.id /\ conflict.seen = c.seen /\ merging /\ merges[c.id]
                   /\ born[c.id] => c.version # 0
    BY <1>1, <1>2, <1>8 DEF Fits
  <2>6. FormFits'
    BY <1>4, <1>8, <2>1, <2>2, <2>3, <2>5 DEF FormFits, Page!kinds, from
  <2> QED BY <1>5, <1>6, <2>4, <2>6
<1> QED BY <1>7, <1>8

(* The answer to a resolution, or an error. *)
LEMMA EndsKeeps ==
  ASSUME Bounds, MergeInductive, UNCHANGED <<patient, Page!kinds>>, NEW s \in ViewSlot,
         Page!ResolveArrives(s) \/ Page!Fails(s)
  PROVE  MergeInductive'
<1>1. /\ awaited[s] \in Page!Call /\ awaited[s] # None /\ Fits(awaited[s])
  BY DEF MergeInductive, Page!TypeOK, CallsFit, Page!ResolveArrives, Page!Answered,
         Page!Fails
<1>2. CASE Page!ResolveArrives(s) /\ ~awaited[s].ok
  <2>1. PICK id \in Record : id = awaited[s].id
    BY <1>1 DEF Page!Call
  <2> QED BY <1>1, <1>2, <2>1, OpenKeeps DEF Page!ResolveArrives
<1>3. CASE ~(Page!ResolveArrives(s) /\ ~awaited[s].ok)
  <2> USE DEF MergeInductive
  <2>1. /\ awaited' = [awaited EXCEPT ![s] = None]
        /\ UNCHANGED <<Page!server, merge, keepOn, saveOn, hidden, merging>>
        /\ shown' \in BOOLEAN
    BY <1>3 DEF Page!ResolveArrives, Page!Fails, Page!Ends, Page!TypeOK
  <2>2. \/ conflict' = conflict
        \/ /\ conflict # None /\ conflict' = [conflict EXCEPT !.version = 0]
           /\ awaited[s].step = "current"
    BY <1>3 DEF Page!ResolveArrives, Page!Fails
  <2>3. awaited' \in [ViewSlot -> Page!Call \cup {None}] /\ CallsFit' /\ OneAtATime'
    BY <1>1, <2>1, RequestKeeps
  <2>4. Page!TypeOK'
    <3>1. 0 \in 0..MaxVersion
      BY DEF Bounds
    <3>2. conflict' \in {None} \cup [id : Record, seen : 1..MaxAttempts,
                                     from : Record \cup {None}, version : 0..MaxVersion]
      BY <2>2, <3>1 DEF Page!TypeOK
    <3> QED BY <2>1, <2>3, <3>2 DEF Page!TypeOK, Page!server, Page!kinds
  <2>5. FormFits'
    <3>1. CASE conflict' = conflict
      BY <2>1, <3>1 DEF FormFits, Page!kinds
    <3>2. CASE /\ conflict # None /\ conflict' = [conflict EXCEPT !.version = 0]
               /\ awaited[s].step = "current"
      <4>1. /\ conflict'.id = conflict.id /\ conflict'.seen = conflict.seen
            /\ conflict'.from = conflict.from
        BY <3>2 DEF Page!TypeOK
      <4>2. patient => ~saveOn
        BY <1>1, <3>2 DEF Fits
      <4> QED BY <2>1, <3>2, <4>1, <4>2 DEF FormFits, Page!kinds
    <3> QED BY <2>2, <3>1, <3>2
  <2>6. ClosedBySave' /\ KeepsVersions'
    BY <2>1 DEF ClosedBySave, KeepsVersions, Page!server, Page!kinds
  <2> QED BY <2>3, <2>4, <2>5, <2>6
<1> QED BY <1>2, <1>3

-----------------------------------------------------------------------------
(* The operator. *)

LEMMA SubmitKeeps ==
  ASSUME Bounds, MergeInductive, UNCHANGED <<patient, Page!kinds>>, NEW s \in ViewSlot,
         NEW withSave \in BOOLEAN, Page!Submit(s, withSave), patient => Idle
  PROVE  MergeInductive'
<1> USE DEF MergeInductive
<1>1. /\ conflict \in [id : Record, seen : 1..MaxAttempts, from : Record \cup {None},
                       version : 0..MaxVersion]
      /\ conflict # None /\ UNCHANGED <<Page!server, Page!page>>
      /\ withSave => saveOn /\ merging
  BY DEF Page!Submit, Page!TypeOK
<1>2. PICK id \in Record, tried \in 0..MaxAttempts, base \in 0..MaxVersion,
           save \in Page!Form \cup {None} :
        /\ id = conflict.id /\ tried = conflict.seen /\ base = conflict.version
        /\ save = IF withSave THEN merge ELSE None
  <2>1. conflict.seen \in 0..MaxAttempts /\ merge \in Page!Form \cup {None}
    BY <1>1 DEF Page!TypeOK, Bounds
  <2> QED BY <1>1, <2>1
<1>3. PICK c \in Page!Call :
        /\ awaited' = [awaited EXCEPT ![s] = c] /\ c.step = "resolve" /\ c.id = id
        /\ c.seen = tried
        /\ c.version = base /\ c.save = save
  <2>1. PICK r \in Page!Call : r = Page!Request("resolve", id) /\ r.step = "resolve"
                               /\ r.id = id
    BY RequestFacts
  <2> DEFINE request == [r EXCEPT !.seen = tried, !.version = base, !.save = save]
  <2>2. /\ request \in Page!Call /\ request.step = "resolve" /\ request.id = id
        /\ request.seen = tried /\ request.version = base /\ request.save = save
    BY <2>1 DEF Page!Call
  <2>3. request = [Page!Request("resolve", conflict.id)
                  EXCEPT !.seen = conflict.seen, !.version = conflict.version,
                         !.save = IF withSave THEN merge ELSE None]
    BY <1>2, <2>1
  <2> HIDE DEF request
  <2> QED BY <2>2, <2>3 DEF Page!Submit
<1>4. Fits(c)
  BY <1>1, <1>2, <1>3 DEF Fits, FormFits
<1> QED BY <1>1, <1>3, <1>4, PageStays

(* Leaving the view, and the two buttons that fill the form. *)
LEMMA ButtonsKeep ==
  ASSUME Bounds, MergeInductive, UNCHANGED <<patient, Page!kinds>>,
         Page!Leave \/ Page!LoadAttempted \/ Page!LoadCurrent
  PROVE  MergeInductive'
<1> USE DEF MergeInductive
<1>1. /\ UNCHANGED <<Page!server, conflict, keepOn, saveOn, hidden, merging, awaited>>
      /\ shown' \in BOOLEAN
  BY DEF Page!Leave, Page!LoadAttempted, Page!LoadCurrent, Page!TypeOK
<1>2. \/ merge' = merge
      \/ /\ conflict # None
         /\ \E f \in Record, n \in 0..MaxAttempts :
              /\ merge' = [of |-> f, attempt |-> n]
              /\ f \in {conflict.id, conflict.from} \ {None} \/ f = conflict.id
              /\ n \in {0, conflict.seen}
  <2>1. CASE Page!Leave
    BY <2>1 DEF Page!Leave
  <2>2. CASE Page!LoadAttempted
    <3>1. conflict.id \in Record /\ conflict.seen \in 0..MaxAttempts
      BY <2>2 DEF Page!LoadAttempted, Page!TypeOK, Bounds
    <3> QED BY <2>2, <3>1 DEF Page!LoadAttempted
  <2>3. CASE Page!LoadCurrent
    <3>1. conflict.from \in Record /\ 0 \in 0..MaxAttempts
      BY <2>3 DEF Page!LoadCurrent, Page!TypeOK, Bounds
    <3> QED BY <2>3, <3>1 DEF Page!LoadCurrent
  <2> QED BY <2>1, <2>2, <2>3
<1>3. merge' \in Page!Form \cup {None}
  BY <1>2 DEF Page!TypeOK, Page!Form
<1>4. Page!TypeOK'
  BY <1>1, <1>3 DEF Page!TypeOK, Page!server, Page!kinds
<1>5. CallsFit' /\ OneAtATime' /\ ClosedBySave' /\ KeepsVersions'
  BY <1>1 DEF CallsFit, Fits, OneAtATime, ClosedBySave, KeepsVersions, Page!server,
              Page!kinds
<1>6. FormFits'
  <2>1. CASE merge' = merge
    BY <1>1, <2>1 DEF FormFits, Page!kinds
  <2>2. ASSUME conflict # None, NEW f \in Record, NEW n \in 0..MaxAttempts,
               merge' = [of |-> f, attempt |-> n],
               f \in {conflict.id, conflict.from} \ {None} \/ f = conflict.id,
               n \in {0, conflict.seen}
        PROVE  FormFits'
    <3>1. merge' # None /\ merge'.of = f /\ merge'.attempt = n
      BY <2>2 DEF Bounds, Page!Form
    <3>2. patient => f = conflict.id
      BY <2>2 DEF FormFits
    <3> QED BY <1>1, <2>2, <3>1, <3>2 DEF FormFits, Page!kinds
  <2> QED BY <1>2, <2>1, <2>2
<1> QED BY <1>4, <1>5, <1>6

LEMMA NextKeeps == ASSUME Bounds PROVE MergeInductive /\ [Page!Next]_(Page!vars) => MergeInductive'
<1> SUFFICES ASSUME MergeInductive, [Page!Next]_(Page!vars) PROVE MergeInductive'
  OBVIOUS
<1>1. CASE Page!Next
  <2>1. UNCHANGED <<patient, Page!kinds>>
    BY <1>1 DEF Page!Next
  <2>2. CASE Page!Others
    BY <2>1, <2>2, OthersKeep
  <2>3. ASSUME NEW s \in ViewSlot, Page!Answer(s) PROVE MergeInductive'
    BY <2>1, <2>3, FetchKeeps, ServeResolveKeeps, RecordKeeps, CurrentKeeps, EndsKeeps
       DEF Page!Answer
  <2>4. ASSUME NEW s \in ViewSlot, Page!Operator(s) PROVE MergeInductive'
    <3>1. patient => Idle
      BY <2>4 DEF Page!Operator, Idle
    <3> QED BY <2>1, <2>4, <3>1, OpenKeeps, SubmitKeeps DEF Page!Operator, Page!Click
  <2>5. CASE Page!Leave \/ Page!LoadAttempted \/ Page!LoadCurrent
    BY <2>1, <2>5, ButtonsKeep
  <2> QED BY <1>1, <2>2, <2>3, <2>4, <2>5 DEF Page!Next
<1>2. CASE UNCHANGED Page!vars
  <2>1. UNCHANGED <<patient, Page!kinds, Page!server, Page!page, awaited>>
    BY <1>2 DEF Page!vars
  <2>2. Page!TypeOK' /\ OneAtATime' /\ FormFits' /\ ClosedBySave' /\ KeepsVersions'
    BY <2>1 DEF MergeInductive, Page!TypeOK, OneAtATime, FormFits, ClosedBySave,
                KeepsVersions, Page!kinds, Page!server, Page!page
  <2>3. CallsFit'
    BY <2>1 DEF MergeInductive, CallsFit, Fits, Page!kinds, Page!page
  <2> QED BY <2>2, <2>3 DEF MergeInductive
<1> QED BY <1>1, <1>2

LEMMA InductiveAlways == ASSUME Bounds PROVE Page!Spec => []MergeInductive
<1>1. Page!Init => MergeInductive
  BY InitHolds
<1>2. MergeInductive /\ [Page!Next]_(Page!vars) => MergeInductive'
  BY NextKeeps
<1> QED BY <1>1, <1>2, PTL DEF Page!Spec

-----------------------------------------------------------------------------
(* What openConflict and submitResolve promise. *)

(* For an operator who waits no state leaks from one conflict view to the
   next; and nobody, whether he waits or not, resolves a record with a save
   twice.  For any number of records, attempts, versions and requests. *)
THEOREM ResolvesWithoutLeaks == ASSUME Bounds PROVE Page!Spec => []MergeInvariant
<1>1. MergeInductive => MergeInvariant
  <2> SUFFICES ASSUME MergeInductive PROVE MergeInvariant
    OBVIOUS
  <2>1. Page!NoLeakIfPatient
    BY DEF MergeInductive, FormFits, Page!NoLeakIfPatient, Page!NoLeak
  <2>2. Page!SavedOnce
    <3> SUFFICES ASSUME NEW r \in Record PROVE saves[r] <= 1
      BY DEF Page!SavedOnce
    <3>1. saves[r] = 0 \/ saves[r] = 1
      BY DEF MergeInductive, ClosedBySave
    <3> QED BY <3>1
  <2> QED BY <2>1, <2>2 DEF MergeInductive, MergeInvariant, Page!MergeInvariant
<1> QED BY <1>1, InductiveAlways, PTL

(* A save that an operator who waits resolves a record with was filled from
   that record and its last refused attempt, or from the document, and goes
   over the very version he compared it with. *)
THEOREM ResolvesAsSeen == ASSUME Bounds PROVE Page!Spec => ResolvedAsSeen
<1> DEFINE
      Seen(s, r) ==
        /\ awaited[s] # None /\ awaited[s].id = r /\ awaited[s].step = "resolve"
        /\ awaited[s].save.of = r
        /\ awaited[s].save.attempt \in {0, attempts[r]}
        /\ awaited[s].version = IF born[r] \/ awaited[s].version # 0 THEN version[r] ELSE 0
      AllSeen ==
        \A r \in Record : patient /\ saves'[r] > saves[r] =>
          \E s \in ViewSlot : Seen(s, r)
<1>1. ASSUME MergeInductive, Page!Next, NEW r \in Record, patient, saves'[r] > saves[r]
      PROVE  \E s \in ViewSlot : Seen(s, r)
  <2>1. saves[r] \in Nat /\ saves' # saves
    BY <1>1 DEF MergeInductive, Page!TypeOK, Bounds
  <2>2. PICK s \in ViewSlot : Page!ServeResolve(s)
    BY <1>1, <2>1 DEF Page!Next, Page!Others, Page!Edited, Page!Refused, Page!Answer,
                      Page!ServeRecord, Page!ServeCurrent, Page!RecordArrives,
                      Page!CurrentArrives, Page!ResolveArrives, Page!OpenConflict,
                      Page!Fails, Page!Operator, Page!Click, Page!Submit, Page!Leave,
                      Page!LoadAttempted, Page!LoadCurrent, Page!server
  <2>3. /\ awaited[s] # None /\ awaited[s].step = "resolve" /\ Fits(awaited[s])
    BY <1>1, <2>2 DEF Page!ServeResolve, Page!Waits, MergeInductive, CallsFit
  <2>4. awaited[s].id = r /\ Page!Accepted(awaited[s]) /\ awaited[s].save # None
    BY <1>1, <2>1, <2>2 DEF Page!ServeResolve, MergeInductive, Page!TypeOK
  <2>5. awaited[s].seen = attempts[r] /\ awaited[s].version \in {0, version[r]}
    BY <2>4 DEF Page!Accepted
  <2> QED BY <1>1, <2>3, <2>4, <2>5 DEF Fits
<1>2. MergeInductive /\ [Page!Next]_(Page!vars) => [AllSeen]_(Page!vars)
  BY <1>1
<1> QED BY <1>2, InductiveAlways, PTL DEF ResolvedAsSeen, Page!ResolvedAsSeen, Page!Spec
=============================================================================
