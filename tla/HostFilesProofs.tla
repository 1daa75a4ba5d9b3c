-------------------------- MODULE HostFilesProofs ---------------------------
(***************************************************************************)
(* Proofs about HostFiles: about FleetPage, for every set of hosts and of  *)
(* requests in flight; about ManagedBlock, for every file and kernel; and  *)
(* about Materialize, for every manifest and archive.  What the awk        *)
(* program and filepath.Clean do is a fold over a sequence, and is reasoned *)
(* about by induction on how much of it was folded.                        *)
(***************************************************************************)
EXTENDS HostFiles, DataInduction, Integers, SequenceTheorems, TLAPS

-----------------------------------------------------------------------------
(* The fleet view, for every set of hosts and of requests in flight, any
   number of releases, any time and any tolerance. *)

(* The constants mean what their comments say. *)
FleetBounds ==
  /\ DarkAfter \in Int /\ Tolerance \in Int
  /\ MaxRelease \in Nat \ {0} /\ MaxTime \in Nat /\ MaxBack \in Nat
  /\ None \notin Page!Row \cup Page!Fleet \cup Page!Call

FreshList(c) == c # None /\ c.step = "list" /\ c.fresh

(* No row that was read tells of a release that was not there then. *)
HostsFit(f) == \A h \in Host : f.hosts[h] # None => f.hosts[h].release_id <= f.was

RowsFit == \A h \in Host : row[h] # None => row[h].release_id <= latest

(* An answer under way that will be shown: once it has the rows, they are not
   older than those that are shown, and the release it reads next is not older
   than they are. *)
AnswerFits(c) ==
  c.step = "list" =>
    /\ c.served => c.todo = 0
    /\ ~c.served => c.todo # 0
    /\ c.fresh /\ c.todo # 1 =>
         /\ HostsFit(c.fleet)
         /\ c.fleet.was <= latest /\ c.fleet.read <= stamp.time
         /\ fleet # None => c.fleet.read >= fleet.read
         /\ c.todo # 2 => c.fleet.was <= c.fleet.latest

AnswersFit == \A s \in Slot : call[s] # None => AnswerFits(call[s])

OneFresh == \A s, t \in Slot : FreshList(call[s]) /\ FreshList(call[t]) => s = t

ShownFits ==
  fleet # None =>
    HostsFit(fleet) /\ fleet.was <= fleet.latest /\ fleet.read <= stamp.time

FleetInductive == Page!TypeOK /\ RowsFit /\ AnswersFit /\ OneFresh /\ ShownFits

(* Numbers stay numbers. *)
LEMMA FleetTypes ==
  ASSUME FleetBounds
  PROVE  /\ Page!Release \subseteq Nat /\ 0 \in Page!Release /\ 1 \in Page!Release
         /\ 0 \in 0..MaxTime /\ 0 \in 0..MaxBack
         /\ Page!Reads = <<"hosts", "latest", "now">> /\ 0..Len(Page!Reads) = {0, 1, 2, 3}
         /\ \A f \in Page!Fleet : /\ f.was \in Nat /\ f.latest \in Nat /\ f.read \in Nat
                                  /\ \A h \in Host : f.hosts[h] \in Page!Row \cup {None}
         /\ \A r \in Page!Row : r.release_id \in Nat
<1>1. Page!Release \subseteq Nat /\ 0 \in Page!Release /\ 1 \in Page!Release
      /\ 0 \in 0..MaxTime /\ 0 \in 0..MaxBack
  BY DEF FleetBounds, Page!Release
<1>2. Page!Reads = <<"hosts", "latest", "now">>
  BY DEF Page!Reads
<1>3. Len(<<"hosts", "latest", "now">>) = 3
  OBVIOUS
<1>4. 0..Len(Page!Reads) = {0, 1, 2, 3}
  BY <1>2, <1>3
<1>5. ASSUME NEW f \in Page!Fleet
      PROVE  /\ f.was \in Page!Release /\ f.latest \in Page!Release /\ f.read \in Nat
             /\ \A h \in Host : f.hosts[h] \in Page!Row \cup {None}
  BY FleetBounds DEF Page!Fleet, FleetBounds
<1>6. \A r \in Page!Row : r.release_id \in Page!Release
  BY DEF Page!Row
<1> QED BY <1>1, <1>2, <1>4, <1>5, <1>6

LEMMA NoFleetFits ==
  ASSUME FleetBounds
  PROVE  /\ Page!NoFleet \in Page!Fleet /\ HostsFit(Page!NoFleet)
         /\ Page!NoFleet.was = 0 /\ Page!NoFleet.latest = 0 /\ Page!NoFleet.read = 0
<1>1. [time |-> 0, back |-> 0] \in Page!Stamp
  BY FleetTypes DEF Page!Stamp
<1>2. Page!NoFleet \in Page!Fleet
  BY <1>1, FleetTypes DEF Page!NoFleet, Page!Fleet
<1>3. HostsFit(Page!NoFleet)
  BY DEF HostsFit, Page!NoFleet
<1> QED BY <1>2, <1>3 DEF Page!NoFleet

LEMMA ListFacts ==
  ASSUME FleetBounds
  PROVE  /\ Page!List \in Page!Call
         /\ Page!List.step = "list" /\ ~Page!List.served /\ Page!List.todo = 1
<1>1. Page!NoFleet \in Page!Fleet /\ 1 \in 0..Len(Page!Reads)
  BY NoFleetFits, FleetTypes
<1> QED BY <1>1 DEF Page!List, Page!Call

LEMMA FleetInit == ASSUME FleetBounds PROVE Page!Init => FleetInductive
<1> SUFFICES ASSUME Page!Init PROVE FleetInductive
  OBVIOUS
<1>1. stamp \in Page!Stamp
  BY FleetTypes DEF Page!Init, Page!Stamp
<1>2. Page!TypeOK
  BY <1>1, FleetTypes DEF Page!Init, Page!TypeOK
<1>3. RowsFit /\ AnswersFit /\ OneFresh /\ ShownFits
  BY DEF Page!Init, RowsFit, AnswersFit, OneFresh, ShownFits, FreshList
<1> QED BY <1>2, <1>3 DEF FleetInductive

(* Releases and time move on; what was read stays as it is. *)
LEMMA AnswerStays ==
  ASSUME FleetBounds, NEW c \in Page!Call, AnswerFits(c),
         latest \in Nat, latest' \in Nat, latest' >= latest,
         stamp.time \in Nat, stamp'.time \in Nat, stamp'.time >= stamp.time, fleet' = fleet
  PROVE  AnswerFits(c)'
<1>1. c.fleet \in Page!Fleet
  BY DEF Page!Call
<1>2. c.fleet.was \in Nat /\ c.fleet.read \in Nat
  BY <1>1, FleetTypes
<1>3. c.fleet.was <= latest => c.fleet.was <= latest'
  BY <1>2
<1>4. c.fleet.read <= stamp.time => c.fleet.read <= stamp'.time
  BY <1>2
<1> QED BY <1>3, <1>4 DEF AnswerFits

(* Time, cuts and hosts. *)
LEMMA WorldKeeps ==
  ASSUME FleetBounds, FleetInductive,
         UNCHANGED <<fleet, call>>,
         latest' \in Page!Release, latest' >= latest,
         row' \in [Host -> Page!Row \cup {None}], RowsFit', flag' \in [Host -> BOOLEAN],
         stamp' \in Page!Stamp, stamp'.time >= stamp.time
  PROVE  FleetInductive'
<1> USE DEF FleetInductive
<1>1. /\ latest \in Nat /\ latest' \in Nat /\ stamp.time \in Nat /\ stamp'.time \in Nat
  BY FleetTypes DEF Page!TypeOK, Page!Stamp, FleetBounds
<1>2. Page!TypeOK'
  BY DEF Page!TypeOK
<1>3. AnswersFit'
  <2> SUFFICES ASSUME NEW s \in Slot, call'[s] # None PROVE AnswerFits(call[s])'
    BY DEF AnswersFit
  <2>1. PICK c \in Page!Call : c = call[s] /\ c = call'[s] /\ AnswerFits(c)
    BY DEF Page!TypeOK, AnswersFit
  <2>2. AnswerFits(c)'
    BY <1>1, <2>1, AnswerStays
  <2> QED BY <2>1, <2>2 DEF AnswerFits
<1>4. OneFresh'
  BY DEF OneFresh, FreshList
<1>5. ShownFits'
  <2>1. fleet # None => fleet.read \in Nat
    BY FleetTypes DEF Page!TypeOK
  <2> QED BY <1>1, <2>1 DEF ShownFits
<1> QED BY <1>2, <1>3, <1>4, <1>5

LEMMA WorldSteps ==
  ASSUME FleetBounds, FleetInductive,
         \/ Page!Tick \/ Page!SetBack \/ Page!Cut
         \/ \E h \in Host, r \in Page!Release, ok, applied \in BOOLEAN :
              Page!Heartbeat(h, r, ok, applied)
  PROVE  FleetInductive'
<1>1. /\ latest \in Page!Release /\ latest \in Nat /\ stamp \in Page!Stamp
      /\ row \in [Host -> Page!Row \cup {None}] /\ flag \in [Host -> BOOLEAN] /\ RowsFit
  BY FleetTypes DEF FleetInductive, Page!TypeOK
<1>2. PICK now \in Page!Stamp : now = stamp /\ now.time \in 0..MaxTime /\ now.back \in 0..MaxBack
  BY <1>1 DEF Page!Stamp
<1>3. CASE Page!Tick
  <2>1. now.time < MaxTime /\ UNCHANGED <<latest, row, flag, fleet, call>>
    BY <1>2, <1>3 DEF Page!Tick
  <2> DEFINE later == [now EXCEPT !.time = @ + 1]
  <2>2. later \in Page!Stamp /\ later.time >= now.time
    BY <1>2, <2>1 DEF Page!Stamp, FleetBounds
  <2>3. stamp' = later
    BY <1>2, <1>3 DEF Page!Tick
  <2>4. RowsFit'
    BY <1>1, <2>1 DEF RowsFit
  <2> HIDE DEF later
  <2> QED BY <1>1, <1>2, <2>1, <2>2, <2>3, <2>4, WorldKeeps
<1>4. CASE Page!SetBack
  <2>1. now.back < MaxBack /\ UNCHANGED <<latest, row, flag, fleet, call>>
    BY <1>2, <1>4 DEF Page!SetBack
  <2> DEFINE later == [now EXCEPT !.back = @ + 1]
  <2>2. later \in Page!Stamp /\ later.time >= now.time
    BY <1>2, <2>1 DEF Page!Stamp, FleetBounds
  <2>3. stamp' = later
    BY <1>2, <1>4 DEF Page!SetBack
  <2>4. RowsFit'
    BY <1>1, <2>1 DEF RowsFit
  <2> HIDE DEF later
  <2> QED BY <1>1, <1>2, <2>1, <2>2, <2>3, <2>4, WorldKeeps
<1>5. CASE Page!Cut
  <2>1. latest < MaxRelease /\ latest' = latest + 1 /\ UNCHANGED <<row, flag, stamp, fleet, call>>
    BY <1>5 DEF Page!Cut
  <2>2. latest' \in Page!Release /\ latest' >= latest
    BY <1>1, <2>1 DEF Page!Release, FleetBounds
  <2>3. RowsFit'
    <3>1. \A h \in Host : row[h] # None => row[h].release_id \in Nat
      BY <1>1, FleetTypes
    <3> QED BY <1>1, <2>1, <3>1 DEF RowsFit
  <2>4. stamp'.time >= stamp.time
    BY <1>2, <2>1
  <2> QED BY <1>1, <2>1, <2>2, <2>3, <2>4, WorldKeeps
<1>6. ASSUME NEW h \in Host, NEW r \in Page!Release, NEW ok \in BOOLEAN, NEW applied \in BOOLEAN,
             Page!Heartbeat(h, r, ok, applied)
      PROVE  FleetInductive'
  <2>1. r <= latest /\ UNCHANGED <<latest, stamp, fleet, call>>
    BY <1>6 DEF Page!Heartbeat
  <2>2. PICK beat \in Page!Row :
          beat = [release_id |-> r, ok |-> ok, seen_at |-> now] /\ beat.release_id = r
    <3>1. [release_id |-> r, ok |-> ok, seen_at |-> now] \in Page!Row
      BY DEF Page!Row
    <3> QED BY <3>1
  <2>3. row' = [row EXCEPT ![h] = beat]
    BY <1>2, <1>6, <2>2 DEF Page!Heartbeat
  <2>4. row' \in [Host -> Page!Row \cup {None}] /\ RowsFit'
    BY <1>1, <2>1, <2>2, <2>3 DEF RowsFit
  <2>5. flag' \in [Host -> BOOLEAN]
    <3>1. PICK b \in BOOLEAN : b <=> flag[h] /\ ~(ok /\ applied)
      <4>1. CASE flag[h] /\ ~(ok /\ applied)
        BY <4>1
      <4>2. CASE ~(flag[h] /\ ~(ok /\ applied))
        BY <4>2
      <4> QED BY <4>1, <4>2
    <3>2. flag' = [flag EXCEPT ![h] = flag[h] /\ ~(ok /\ applied)]
      BY <1>6 DEF Page!Heartbeat
    <3>3. flag' = [flag EXCEPT ![h] = b]
      BY <1>1, <3>1, <3>2
    <3> QED BY <1>1, <3>3
  <2>6. latest' >= latest /\ stamp'.time >= stamp.time
    BY <1>1, <1>2, <2>1
  <2> QED BY <1>1, <2>1, <2>4, <2>5, <2>6, WorldKeeps
<1>7. CASE \E h \in Host, r \in Page!Release, ok, applied \in BOOLEAN :
             Page!Heartbeat(h, r, ok, applied)
  BY <1>6, <1>7
<1> QED BY <1>3, <1>4, <1>5, <1>7

(* A step that changes one request, and leaves what is shown. *)
LEMMA OneRequest ==
  ASSUME FleetBounds, FleetInductive, NEW s \in Slot, NEW c \in Page!Call \cup {None},
         call' = [call EXCEPT ![s] = c],
         UNCHANGED <<latest, row, stamp, fleet>>, flag' \in [Host -> BOOLEAN],
         c # None => AnswerFits(c), FreshList(c) => FreshList(call[s])
  PROVE  FleetInductive'
<1> USE DEF FleetInductive
<1>1. call'[s] = c /\ \A t \in Slot \ {s} : call'[t] = call[t]
  BY DEF Page!TypeOK
<1>2. Page!TypeOK'
  BY DEF Page!TypeOK
<1>3. AnswersFit'
  <2> SUFFICES ASSUME NEW t \in Slot, call'[t] # None PROVE AnswerFits(call[t])'
    BY DEF AnswersFit
  <2>1. AnswerFits(call'[t])
    BY <1>1 DEF AnswersFit
  <2> QED BY <2>1 DEF AnswerFits
<1>4. OneFresh'
  <2>1. \A t \in Slot : FreshList(call'[t]) => FreshList(call[t])
    BY <1>1
  <2> QED BY <2>1 DEF OneFresh, FreshList
<1>5. RowsFit' /\ ShownFits'
  BY DEF RowsFit, ShownFits
<1> QED BY <1>2, <1>3, <1>4, <1>5

(* The rows, as they are when listHosts reads them. *)
LEMMA ReadHosts ==
  ASSUME FleetBounds, FleetInductive, NEW f \in Page!Fleet
  PROVE  /\ Page!After("hosts", f) \in Page!Fleet /\ HostsFit(Page!After("hosts", f))
         /\ Page!After("hosts", f).was = latest /\ Page!After("hosts", f).read = stamp.time
<1>1. /\ latest \in Page!Release /\ stamp \in Page!Stamp
      /\ row \in [Host -> Page!Row \cup {None}] /\ flag \in [Host -> BOOLEAN] /\ RowsFit
  BY DEF FleetInductive, Page!TypeOK
<1>2. PICK l \in Page!Release, time \in 0..MaxTime,
           w \in [Host -> Page!Row \cup {None}], q \in [Host -> BOOLEAN] :
        l = latest /\ w = row /\ q = flag /\ time = stamp.time
  BY <1>1 DEF Page!Stamp
<1> DEFINE a == [f EXCEPT !.hosts = w, !.flags = q, !.read = time, !.was = l]
<1>3. a \in Page!Fleet /\ a.hosts = w /\ a.was = l /\ a.read = time
  BY DEF Page!Fleet
<1>4. Page!After("hosts", f) = a
  BY <1>2 DEF Page!After
<1> HIDE DEF a
<1>5. HostsFit(a)
  BY <1>1, <1>2, <1>3 DEF HostsFit, RowsFit
<1> QED BY <1>2, <1>3, <1>4, <1>5

(* The latest release and the clock, read after the rows. *)
LEMMA ReadRest ==
  ASSUME FleetBounds, FleetInductive, NEW f \in Page!Fleet, HostsFit(f)
  PROVE  /\ Page!After("latest", f) \in Page!Fleet /\ HostsFit(Page!After("latest", f))
         /\ Page!After("latest", f).was = f.was /\ Page!After("latest", f).read = f.read
         /\ Page!After("latest", f).latest = latest
         /\ Page!After("now", f) \in Page!Fleet /\ HostsFit(Page!After("now", f))
         /\ Page!After("now", f).was = f.was /\ Page!After("now", f).read = f.read
         /\ Page!After("now", f).latest = f.latest
<1>1. PICK l \in Page!Release, n \in Page!Stamp : l = latest /\ n = stamp
  BY DEF FleetInductive, Page!TypeOK
<1> DEFINE b == [f EXCEPT !.latest = l]
           d == [f EXCEPT !.now = n]
<1>2. b \in Page!Fleet /\ b.hosts = f.hosts /\ b.was = f.was /\ b.read = f.read /\ b.latest = l
  BY DEF Page!Fleet
<1>3. /\ d \in Page!Fleet /\ d.hosts = f.hosts /\ d.was = f.was /\ d.read = f.read
      /\ d.latest = f.latest
  BY DEF Page!Fleet
<1>4. Page!After("latest", f) = b /\ Page!After("now", f) = d
  BY <1>1 DEF Page!After
<1> HIDE DEF b, d
<1>5. HostsFit(b) /\ HostsFit(d)
  BY <1>2, <1>3 DEF HostsFit
<1> QED BY <1>1, <1>2, <1>3, <1>4, <1>5

(* One more read of an answer under way. *)
LEMMA ReadKeeps ==
  ASSUME FleetBounds, FleetInductive, NEW s \in Slot, Page!Read(s)
  PROVE  FleetInductive'
<1>1. /\ UNCHANGED <<latest, row, flag, stamp, fleet>>
      /\ call[s] # None /\ call[s].step = "list" /\ ~call[s].served
  BY DEF Page!Read, Page!Waits, Page!server
<1>2. PICK c \in Page!Call : c = call[s] /\ AnswerFits(c)
  BY <1>1 DEF FleetInductive, Page!TypeOK, AnswersFit
<1>3. c.todo \in {1, 2, 3} /\ c.fleet \in Page!Fleet
  <2>1. c.todo \in 0..Len(Page!Reads) /\ c.fleet \in Page!Fleet
    BY DEF Page!Call
  <2> QED BY <1>1, <1>2, <2>1, FleetTypes DEF AnswerFits
<1>4. PICK part \in {"hosts", "latest", "now"} :
        /\ part = Page!Reads[c.todo]
        /\ part = "hosts" => c.todo = 1
        /\ part = "latest" => c.todo = 2
        /\ part = "now" => c.todo = 3
  BY <1>3, FleetTypes
<1>5. Len(Page!Reads) = 3
  BY DEF Page!Reads
<1>6. PICK left \in 0..Len(Page!Reads), done \in BOOLEAN :
        \/ c.todo = 3 /\ left = 0 /\ done = TRUE
        \/ c.todo \in {1, 2} /\ left = c.todo + 1 /\ done = FALSE
  <2>1. CASE c.todo = 3
    <3>1. 0 \in 0..Len(Page!Reads)
      BY <1>5
    <3> QED BY <2>1, <3>1
  <2>2. CASE c.todo # 3
    <3>1. c.todo \in {1, 2} /\ c.todo + 1 \in 0..Len(Page!Reads)
      BY <1>3, <1>5, <2>2
    <3> QED BY <3>1
  <2> QED BY <2>1, <2>2
<1>7. PICK f \in Page!Fleet :
        /\ f = IF c.fresh THEN Page!After(part, c.fleet) ELSE c.fleet
        /\ c.fresh =>
             /\ HostsFit(f) /\ f.was <= latest /\ f.read <= stamp.time
             /\ fleet # None => f.read >= fleet.read
             /\ left # 2 => f.was <= f.latest
  <2>1. CASE ~c.fresh
    BY <1>3, <2>1
  <2>2. CASE c.fresh
    <3>1. latest \in Nat /\ stamp.time \in Nat
      BY FleetTypes DEF FleetInductive, Page!TypeOK, Page!Stamp, FleetBounds
    <3>2. CASE part = "hosts"
      <4>1. /\ Page!After("hosts", c.fleet) \in Page!Fleet
            /\ HostsFit(Page!After("hosts", c.fleet))
            /\ Page!After("hosts", c.fleet).was = latest
            /\ Page!After("hosts", c.fleet).read = stamp.time
        BY <1>3, ReadHosts
      <4>2. fleet # None => stamp.time >= fleet.read
        BY <3>1, FleetTypes DEF FleetInductive, ShownFits, Page!TypeOK
      <4>3. left = 2
        BY <1>4, <1>6, <3>2
      <4> QED BY <2>2, <3>1, <3>2, <4>1, <4>2, <4>3
    <3>3. CASE part # "hosts"
      <4>1. /\ HostsFit(c.fleet) /\ c.fleet.was <= latest /\ c.fleet.read <= stamp.time
            /\ fleet # None => c.fleet.read >= fleet.read
            /\ c.todo # 2 => c.fleet.was <= c.fleet.latest
        BY <1>1, <1>2, <1>3, <1>4, <2>2, <3>3 DEF AnswerFits
      <4>2. /\ Page!After("latest", c.fleet) \in Page!Fleet
            /\ HostsFit(Page!After("latest", c.fleet))
            /\ Page!After("latest", c.fleet).was = c.fleet.was
            /\ Page!After("latest", c.fleet).read = c.fleet.read
            /\ Page!After("latest", c.fleet).latest = latest
            /\ Page!After("now", c.fleet) \in Page!Fleet
            /\ HostsFit(Page!After("now", c.fleet))
            /\ Page!After("now", c.fleet).was = c.fleet.was
            /\ Page!After("now", c.fleet).read = c.fleet.read
            /\ Page!After("now", c.fleet).latest = c.fleet.latest
        BY <1>3, <4>1, ReadRest
      <4> QED BY <1>4, <2>2, <3>3, <4>1, <4>2
    <3> QED BY <3>2, <3>3
  <2> QED BY <2>1, <2>2
<1>8. PICK d \in Page!Call :
        /\ d = [c EXCEPT !.todo = left, !.served = done, !.fleet = f]
        /\ d.step = c.step /\ d.fresh = c.fresh /\ d.todo = left /\ d.served = done
        /\ d.fleet = f
  <2> DEFINE d == [c EXCEPT !.todo = left, !.served = done, !.fleet = f]
  <2>1. /\ d \in Page!Call /\ d.step = c.step /\ d.fresh = c.fresh /\ d.todo = left
        /\ d.served = done /\ d.fleet = f
    BY DEF Page!Call
  <2>2. d = [c EXCEPT !.todo = left, !.served = done, !.fleet = f]
    OBVIOUS
  <2> HIDE DEF d
  <2> QED BY <2>1, <2>2
<1>9. call' = [call EXCEPT ![s] = d]
  <2>1. call' = [call EXCEPT
           ![s].todo = IF c.todo = 3 THEN 0 ELSE @ + 1,
           ![s].served = (c.todo = 3),
           ![s].fleet = IF c.fresh THEN Page!After(part, @) ELSE @]
    BY <1>2, <1>4, <1>5 DEF Page!Read
  <2>2. call' = [call EXCEPT ![s] = [call[s] EXCEPT
           !.todo = IF c.todo = 3 THEN 0 ELSE @ + 1,
           !.served = (c.todo = 3),
           !.fleet = IF c.fresh THEN Page!After(part, @) ELSE @]]
    BY <2>1 DEF FleetInductive, Page!TypeOK
  <2>3. call' = [call EXCEPT ![s] = [c EXCEPT !.todo = left, !.served = done, !.fleet = f]]
    <3>1. call' = [call EXCEPT ![s] = [c EXCEPT
             !.todo = IF c.todo = 3 THEN 0 ELSE c.todo + 1,
             !.served = (c.todo = 3),
             !.fleet = f]]
      BY <1>2, <1>7, <2>2
    <3>2. left = (IF c.todo = 3 THEN 0 ELSE c.todo + 1) /\ done = (c.todo = 3)
      <4>1. CASE c.todo = 3 /\ left = 0 /\ done = TRUE
        BY <4>1
      <4>2. CASE c.todo \in {1, 2} /\ left = c.todo + 1 /\ done = FALSE
        BY <4>2
      <4> QED BY <1>6, <4>1, <4>2
    <3> QED BY <3>1, <3>2
  <2> QED BY <1>8, <2>3
<1>10. AnswerFits(d)
  BY <1>1, <1>2, <1>3, <1>6, <1>7, <1>8 DEF AnswerFits
<1>11. FreshList(d) => FreshList(call[s])
  BY <1>1, <1>2, <1>8 DEF FreshList
<1>12. flag' \in [Host -> BOOLEAN]
  BY <1>1 DEF FleetInductive, Page!TypeOK
<1> QED BY <1>1, <1>9, <1>10, <1>11, <1>12, OneRequest

LEMMA ServeResyncKeeps ==
  ASSUME FleetBounds, FleetInductive, NEW s \in Slot, Page!ServeResync(s)
  PROVE  FleetInductive'
<1>1. /\ UNCHANGED <<latest, row, stamp, fleet>>
      /\ call[s] # None /\ call[s].step = "resync"
      /\ flag' = [flag EXCEPT ![call[s].host] = TRUE]
      /\ call' = [call EXCEPT ![s].served = TRUE]
  BY DEF Page!ServeResync, Page!Waits
<1>2. PICK c \in Page!Call : c = call[s]
  BY <1>1 DEF FleetInductive, Page!TypeOK
<1> DEFINE d == [c EXCEPT !.served = TRUE]
<1>3. d \in Page!Call /\ d.step = c.step
  BY DEF Page!Call
<1>4. call' = [call EXCEPT ![s] = d]
  BY <1>1, <1>2
<1> HIDE DEF d
<1>5. AnswerFits(d) /\ ~FreshList(d)
  BY <1>1, <1>2, <1>3 DEF AnswerFits, FreshList
<1>6. flag' \in [Host -> BOOLEAN]
  BY <1>1 DEF FleetInductive, Page!TypeOK
<1> QED BY <1>1, <1>3, <1>4, <1>5, <1>6, OneRequest

(* A refresh is the only one whose answer will be shown. *)
LEMMA RefreshKeeps ==
  ASSUME FleetBounds, FleetInductive, NEW s \in Slot, Page!RefreshFleet(s),
         UNCHANGED <<latest, row, flag, stamp, fleet>>
  PROVE  FleetInductive'
<1> USE DEF FleetInductive
<1>1. PICK c \in Page!Call :
        c = Page!List /\ c.step = "list" /\ ~c.served /\ c.todo = 1
  BY ListFacts
<1>2. call' = [t \in Slot |-> call'[t]] /\ call'[s] = c
  BY <1>1 DEF Page!RefreshFleet
<1>3. ASSUME NEW t \in Slot \ {s}
      PROVE  \/ call'[t] = call[t] /\ ~(call[t] # None /\ call[t].step = "list")
             \/ \E d \in Page!Call, e \in Page!Call :
                  /\ d = call[t] /\ AnswerFits(d) /\ e = call'[t] /\ ~e.fresh /\ e.step = d.step
                  /\ e.served = d.served /\ e.todo = d.todo
  <2>1. CASE call[t] # None /\ call[t].step = "list"
    <3>1. PICK d \in Page!Call : d = call[t] /\ AnswerFits(d)
      BY <2>1 DEF Page!TypeOK, AnswersFit
    <3>2. PICK f \in Page!Fleet : f = Page!NoFleet
      BY NoFleetFits
    <3> DEFINE e == [d EXCEPT !.fresh = FALSE, !.fleet = f]
    <3>3. /\ e \in Page!Call /\ ~e.fresh /\ e.step = d.step /\ e.served = d.served
          /\ e.todo = d.todo
      BY DEF Page!Call
    <3>4. call'[t] = [call[t] EXCEPT !.fresh = FALSE, !.fleet = Page!NoFleet]
      BY <2>1 DEF Page!RefreshFleet
    <3>5. e = call'[t]
      BY <3>1, <3>2, <3>4
    <3> HIDE DEF e
    <3> QED BY <3>1, <3>3, <3>5
  <2>2. CASE ~(call[t] # None /\ call[t].step = "list")
    BY <2>2 DEF Page!RefreshFleet
  <2> QED BY <2>1, <2>2
<1>4. call' \in [Slot -> Page!Call \cup {None}]
  <2>1. \A t \in Slot : call'[t] \in Page!Call \cup {None}
    BY <1>2, <1>3 DEF Page!TypeOK
  <2> QED BY <1>2, <2>1
<1>5. Page!TypeOK'
  BY <1>4 DEF Page!TypeOK
<1>6. AnswersFit'
  <2> SUFFICES ASSUME NEW t \in Slot, call'[t] # None PROVE AnswerFits(call[t])'
    BY DEF AnswersFit
  <2>1. CASE t = s
    BY <1>1, <1>2, <2>1 DEF AnswerFits
  <2>2. CASE t # s /\ call'[t] = call[t]
    BY <2>2 DEF AnswersFit, AnswerFits
  <2>3. CASE t # s /\ call'[t] # call[t]
    <3>1. PICK d \in Page!Call, e \in Page!Call :
            /\ AnswerFits(d) /\ e = call'[t] /\ ~e.fresh /\ e.step = d.step
            /\ e.served = d.served /\ e.todo = d.todo
      BY <1>3, <2>3
    <3>2. AnswerFits(e)'
      BY <3>1 DEF AnswerFits
    <3> QED BY <3>1, <3>2 DEF AnswerFits
  <2> QED BY <2>1, <2>2, <2>3
<1>7. OneFresh'
  <2>1. \A t \in Slot \ {s} : ~FreshList(call'[t])
    BY <1>3 DEF FreshList
  <2> QED BY <2>1 DEF OneFresh, FreshList
<1>8. RowsFit' /\ ShownFits'
  BY DEF RowsFit, ShownFits
<1> QED BY <1>5, <1>6, <1>7, <1>8

(* The answer that is shown is the only one that would have been. *)
LEMMA FleetArrivesKeeps ==
  ASSUME FleetBounds, FleetInductive, NEW s \in Slot, Page!FleetArrives(s)
  PROVE  /\ FleetInductive'
         /\ fleet # None => fleet'.read >= fleet.read
<1>0. /\ UNCHANGED <<latest, row, flag, stamp>>
      /\ call[s] # None /\ call[s].step = "list" /\ call[s].served
      /\ call' = [call EXCEPT ![s] = None]
      /\ fleet' = IF call[s].fresh THEN call[s].fleet ELSE fleet
  BY DEF Page!FleetArrives, Page!Answered, Page!Ends, Page!server
<1>1. PICK c \in Page!Call : c = call[s] /\ AnswerFits(c)
  BY <1>0 DEF FleetInductive, Page!TypeOK, AnswersFit
<1>2. fleet # None => fleet.read \in Nat
  BY FleetTypes DEF FleetInductive, Page!TypeOK
<1>3. CASE ~c.fresh
  <2>1. fleet' = fleet /\ flag' \in [Host -> BOOLEAN] /\ ~FreshList(None)
    BY <1>0, <1>1, <1>3 DEF FleetInductive, Page!TypeOK, FreshList
  <2>2. FleetInductive'
    BY <1>0, <2>1, OneRequest
  <2>3. fleet # None => fleet'.read >= fleet.read
    BY <1>2, <2>1
  <2> QED BY <2>2, <2>3
<1>4. CASE c.fresh
  <2> USE DEF FleetInductive
  <2>1. PICK f \in Page!Fleet : f = c.fleet /\ f = fleet' /\ f # None
    BY <1>0, <1>1, <1>4 DEF Page!Call, FleetBounds
  <2>2. /\ HostsFit(f) /\ f.was <= f.latest /\ f.read <= stamp.time
        /\ fleet # None => f.read >= fleet.read
    BY <1>0, <1>1, <1>4, <2>1 DEF AnswerFits
  <2>3. call'[s] = None /\ \A t \in Slot \ {s} : call'[t] = call[t] /\ ~FreshList(call[t])
    BY <1>0, <1>1, <1>4 DEF Page!TypeOK, OneFresh, FreshList
  <2>4. Page!TypeOK'
    BY <1>0, <2>1 DEF Page!TypeOK
  <2>5. AnswersFit'
    <3> SUFFICES ASSUME NEW t \in Slot, call'[t] # None PROVE AnswerFits(call[t])'
      BY DEF AnswersFit
    <3>1. PICK d \in Page!Call : d = call[t] /\ d = call'[t] /\ AnswerFits(d) /\ ~FreshList(d)
      BY <2>3 DEF Page!TypeOK, AnswersFit
    <3>2. AnswerFits(d)'
      BY <2>3, <3>1 DEF AnswerFits, FreshList
    <3> QED BY <3>1, <3>2 DEF AnswerFits
  <2>6. OneFresh'
    BY <2>3 DEF OneFresh, FreshList
  <2>7. RowsFit' /\ ShownFits'
    BY <1>0, <2>1, <2>2 DEF RowsFit, ShownFits, HostsFit
  <2> QED BY <2>1, <2>2, <2>4, <2>5, <2>6, <2>7
<1> QED BY <1>1, <1>3, <1>4 DEF Page!Call

LEMMA OtherRequestsKeep ==
  ASSUME FleetBounds, FleetInductive, NEW s \in Slot,
         Page!Fails(s) \/ \E h \in Host : Page!SubmitResync(s, h)
  PROVE  FleetInductive'
<1>1. UNCHANGED <<latest, row, flag, stamp, fleet>> /\ flag' \in [Host -> BOOLEAN]
  BY DEF Page!Fails, Page!SubmitResync, Page!server, FleetInductive, Page!TypeOK
<1>2. CASE Page!Fails(s)
  <2>1. call' = [call EXCEPT ![s] = None] /\ ~FreshList(None)
    BY <1>2 DEF Page!Fails, Page!Ends, FreshList
  <2> QED BY <1>1, <2>1, OneRequest
<1>3. ASSUME NEW h \in Host, Page!SubmitResync(s, h) PROVE FleetInductive'
  <2>1. PICK c \in Page!Call : c = Page!List
    BY ListFacts
  <2> DEFINE d == [c EXCEPT !.step = "resync", !.host = h, !.todo = 0]
  <2>2. d \in Page!Call /\ d.step = "resync"
    <3>1. 0 \in 0..Len(Page!Reads)
      BY FleetTypes
    <3> QED BY <3>1 DEF Page!Call
  <2>3. call' = [call EXCEPT ![s] = d]
    BY <1>3, <2>1 DEF Page!SubmitResync
  <2> HIDE DEF d
  <2>4. AnswerFits(d) /\ ~FreshList(d)
    BY <2>2 DEF AnswerFits, FreshList
  <2> QED BY <1>1, <2>2, <2>3, <2>4, OneRequest
<1> QED BY <1>2, <1>3

LEMMA PageKeeps ==
  ASSUME FleetBounds, FleetInductive, [Page!Next]_(Page!vars) PROVE FleetInductive'
<1>1. CASE UNCHANGED Page!vars
  <2>1. UNCHANGED <<latest, row, flag, stamp, fleet, call>>
    BY <1>1 DEF Page!vars, Page!server
  <2> QED
    BY <2>1 DEF FleetInductive, Page!TypeOK, RowsFit, AnswersFit, AnswerFits, OneFresh,
                FreshList, ShownFits
<1>2. ASSUME NEW s \in Slot, Page!Answer(s) \/ Page!Click(s) PROVE FleetInductive'
  <2>1. CASE Page!Click(s) \/ Page!ResyncArrives(s)
    <3>1. Page!RefreshFleet(s) /\ UNCHANGED <<latest, row, flag, stamp, fleet>>
      BY <2>1 DEF Page!Click, Page!ResyncArrives, Page!server
    <3> QED BY <3>1, RefreshKeeps
  <2> QED BY <1>2, <2>1, ReadKeeps, ServeResyncKeeps, FleetArrivesKeeps, OtherRequestsKeep
          DEF Page!Answer
<1>3. ASSUME NEW s \in Slot, NEW h \in Host, Page!SubmitResync(s, h) PROVE FleetInductive'
  BY <1>3, OtherRequestsKeep
<1>4. CASE \/ Page!Tick \/ Page!SetBack \/ Page!Cut
           \/ \E h \in Host, r \in Page!Release, ok, applied \in BOOLEAN :
                Page!Heartbeat(h, r, ok, applied)
  BY <1>4, WorldSteps
<1> QED BY <1>1, <1>2, <1>3, <1>4 DEF Page!Next

LEMMA PageAlways == ASSUME FleetBounds PROVE Page!Spec => []FleetInductive
<1>1. Page!Init => FleetInductive
  BY FleetInit
<1>2. FleetInductive /\ [Page!Next]_(Page!vars) => FleetInductive'
  BY PageKeeps
<1> QED BY <1>1, <1>2, PTL DEF Page!Spec

(* A row that fleetStatus does not call dark was written lately, but for what
   the clock was set back. *)
LEMMA AgeFacts ==
  ASSUME FleetBounds, NEW f \in Page!Fleet, NEW h \in Host, ~Page!Dark(h, f)
  PROVE  LET told == f.hosts[h].seen_at
             unknown == f.now.back - told.back
         IN  /\ f.now.time - told.time <= DarkAfter + unknown
             /\ unknown - (f.now.time - told.time) <= Tolerance
<1>1. f.hosts[h] \in Page!Row /\ f.now \in Page!Stamp
  BY FleetTypes DEF Page!Dark, Page!Fleet
<1>2. f.hosts[h].seen_at \in Page!Stamp
  BY <1>1 DEF Page!Row
<1>3. PICK nt \in Int, nb \in Int, st \in Int, sb \in Int :
        /\ nt = f.now.time /\ nb = f.now.back
        /\ st = f.hosts[h].seen_at.time /\ sb = f.hosts[h].seen_at.back
  BY <1>1, <1>2 DEF Page!Stamp, FleetBounds
<1>4. ~((nt - nb) - (st - sb) < -Tolerance) /\ ~((nt - nb) - (st - sb) > DarkAfter)
  BY <1>3 DEF Page!Dark, Page!Age, Page!Clock
<1>5. nt - st <= DarkAfter + (nb - sb) /\ (nb - sb) - (nt - st) <= Tolerance
  BY <1>4 DEF FleetBounds
<1> QED BY <1>3, <1>5

(* No host is shown as current that was behind when listHosts read its row, and
   none as alive that was not heard of for longer than DARK_AFTER_MS, up to
   what the clock was set back (fleetStatus, listHosts). *)
THEOREM NoHostLooksBetter == ASSUME FleetBounds PROVE Page!Spec => []PageInvariant
<1>1. FleetInductive => PageInvariant
  <2> SUFFICES ASSUME FleetInductive PROVE Page!CurrentWasCurrent /\ Page!NotDarkIsAlive
    BY DEF FleetInductive, PageInvariant, Page!PageInvariant
  <2>1. fleet # None => fleet \in Page!Fleet
    BY DEF FleetInductive, Page!TypeOK
  <2>2. Page!NotDarkIsAlive
    BY <2>1, AgeFacts DEF Page!NotDarkIsAlive
  <2>3. Page!CurrentWasCurrent
    <3> SUFFICES ASSUME fleet # None, NEW h \in Host, Page!Current(h, fleet)
                 PROVE  fleet.hosts[h].ok /\ fleet.hosts[h].release_id = fleet.was
      BY DEF Page!CurrentWasCurrent
    <3>1. /\ fleet.hosts[h] # None /\ fleet.hosts[h].ok
          /\ fleet.hosts[h].release_id = fleet.latest
      BY DEF Page!Current, Page!Dark
    <3>2. fleet.hosts[h].release_id <= fleet.was /\ fleet.was <= fleet.latest
      BY <3>1 DEF FleetInductive, ShownFits, HostsFit
    <3>3. fleet.was \in Nat /\ fleet.latest \in Nat
      BY <2>1, FleetTypes
    <3> QED BY <3>1, <3>2, <3>3
  <2> QED BY <2>2, <2>3
<1> QED BY <1>1, PageAlways, PTL

(* The table is replaced by one whose rows listHosts read later (state.fleetGen
   of refreshFleet). *)
THEOREM TableNeverGoesBack == ASSUME FleetBounds PROVE Page!Spec => TableMovesForward
<1>1. FleetInductive /\ [Page!Next]_(Page!vars)
        => [fleet # None => fleet'.read >= fleet.read]_(Page!vars)
  <2> SUFFICES ASSUME FleetInductive, Page!Next, fleet # None PROVE fleet'.read >= fleet.read
    OBVIOUS
  <2>1. fleet.read \in Nat
    BY FleetTypes DEF FleetInductive, Page!TypeOK
  <2>2. CASE fleet' = fleet
    BY <2>1, <2>2
  <2>3. CASE fleet' # fleet
    <3>1. PICK s \in Slot : Page!FleetArrives(s)
      BY <2>3 DEF Page!Next, Page!Tick, Page!SetBack, Page!Cut, Page!Heartbeat, Page!Answer,
         Page!Read, Page!ServeResync, Page!ResyncArrives, Page!Fails, Page!Click,
         Page!SubmitResync
    <3> QED BY <3>1, FleetArrivesKeeps
  <2> QED BY <2>2, <2>3
<1> QED BY <1>1, PageAlways, PTL DEF Page!Spec, TableMovesForward, Page!TableMovesForward

-----------------------------------------------------------------------------
(* The block of AGENTS.md, for every file and kernel, and any number of edits
   and flips. *)

(* Lines of files; those that are no markers. *)
Lines == Mine \cup (UNION {Range(k) : k \in Kernel}) \cup {Begin, End, Blank}

Plain == Lines \ Agents!Marker
(* The state of the awk program, and what it does with a line. *)
Awk == [inblock : BOOLEAN, out : Seq(Plain)]

Step(s, l) ==
  IF l \in Agents!Marker THEN [s EXCEPT !.inblock = (l = Begin)]
  ELSE IF s.inblock THEN s
  ELSE [s EXCEPT !.out = Append(@, l)]

LEMMA StepType == \A s \in Awk, l \in Lines : Step(s, l) \in Awk
<1> SUFFICES ASSUME NEW s \in Awk, NEW l \in Lines PROVE Step(s, l) \in Awk
  OBVIOUS
<1>1. (l = Begin) \in BOOLEAN /\ (l \notin Agents!Marker => Append(s.out, l) \in Seq(Plain))
  BY DEF Awk, Plain
<1>2. \A b \in BOOLEAN : [s EXCEPT !.inblock = b] \in Awk
  BY DEF Awk
<1>3. \A o \in Seq(Plain) : [s EXCEPT !.out = o] \in Awk
  BY DEF Awk
<1>4. [s EXCEPT !.inblock = (l = Begin)] \in Awk
  BY <1>1, <1>2
<1>5. l \notin Agents!Marker => [s EXCEPT !.out = Append(@, l)] \in Awk
  BY <1>1, <1>3
<1> QED BY <1>4, <1>5 DEF Step

(* Kept is the last state of the program, started outside of a block. *)
LEMMA KeptFold ==
  ASSUME NEW file \in Seq(Lines)
  PROVE  \E g \in [0..Len(file) -> Awk] :
           /\ g[0] = [inblock |-> FALSE, out |-> <<>>]
           /\ \A k \in 1..Len(file) : g[k] = Step(g[k - 1], file[k])
           /\ Agents!Kept(file) = g[Len(file)].out
<1> DEFINE n == Len(file)
           base == [inblock |-> FALSE, out |-> <<>>]
           F == [p \in (1..n) \X Awk |-> Step(p[2], file[p[1]])]
           Eq(f) == f = [s \in SUBSET (1..n) |->
                     IF s = {} THEN base
                     ELSE Step(f[s \ {Max(s)}], file[Max(s)])]
<1>1. n \in Nat /\ DOMAIN file = 1..n /\ base \in Awk
  BY DEF Awk
<1>2. Agents!Kept(file) = (CHOOSE f : Eq(f))[1..n].out
  BY <1>1 DEF Agents!Kept, Agents!FoldLeft, Agents!MapThenFoldSet, Agents!Max, Max, Step
<1>4. \A k \in 1..n : file[k] \in Lines
  BY <1>1
<1>5. F \in [(1..n) \X Awk -> Awk]
  BY <1>4, StepType
<1> HIDE DEF F, n, base
<1>6. PICK f \in [SUBSET (1..n) -> Awk] : IsFold(f, n, base, F)
  <2>1. n \in 0..n
    BY <1>1
  <2> QED BY <1>1, <1>5, <2>1, FoldExists
<1>7. Eq(f)
  <2>1. ASSUME NEW s \in SUBSET (1..n), s # {}
        PROVE  F[<<Max(s), f[s \ {Max(s)}]>>] = Step(f[s \ {Max(s)}], file[Max(s)])
    <3>1. Max(s) \in 1..n
      BY <1>1, <2>1, MaxIn
    <3>2. f[s \ {Max(s)}] \in Awk
      BY <1>6
    <3> QED BY <3>1, <3>2 DEF F
  <2> QED BY <1>6, <2>1 DEF IsFold
<1> DEFINE h == CHOOSE f_1 : Eq(f_1)
<1>8. Eq(h)
  <2> HIDE DEF Eq
  <2> QED BY <1>7
<1>9. Agents!Kept(file) = h[1..n].out
  BY <1>2
<1> HIDE DEF h
<1>10. h[{}] = base
  BY <1>8
<1>11. ASSUME NEW k \in 1..n PROVE h[1..k] = Step(h[1..(k - 1)], file[k])
  <2>1. 1..k \in SUBSET (1..n) /\ 1..k # {} /\ (1..k) \ {k} = 1..(k - 1) /\ Max(1..k) = k
    BY <1>1, Upto
  <2> QED BY <1>8, <2>1
<1>12. Runs(h, n, base, Awk)
  <2>1. \A k \in 1..n : h[1..(k - 1)] \in Awk => h[1..k] \in Awk
    BY <1>4, <1>11, StepType
  <2> QED BY <1>10, <2>1 DEF Runs
<1>13. PICK g \in [0..n -> Awk] : Trace(g, h, n, base)
  BY <1>1, <1>12, Running
<1>14. /\ g[0] = base /\ g[n] = h[1..n]
       /\ \A k \in 1..n : g[k] = Step(g[k - 1], file[k])
  BY <1>11, <1>13 DEF Trace
<1>15. base = [inblock |-> FALSE, out |-> <<>>] /\ n = Len(file)
  BY DEF base, n
<1> QED BY <1>9, <1>13, <1>14, <1>15

(* Outside keeps the lines of the user. *)
Select(s, l) == IF l \in Mine THEN Append(s, l) ELSE s

LEMMA OutsideFold ==
  ASSUME NEW file \in Seq(Lines)
  PROVE  \E g \in [0..Len(file) -> Seq(Mine)] :
           /\ g[0] = <<>>
           /\ \A k \in 1..Len(file) : g[k] = Select(g[k - 1], file[k])
           /\ Agents!Outside(file) = g[Len(file)]
<1> DEFINE n == Len(file)
           F == [p \in (1..n) \X Seq(Mine) |-> Select(p[2], file[p[1]])]
           Eq(f) == f = [s \in SUBSET (1..n) |->
                     IF s = {} THEN <<>>
                     ELSE Select(f[s \ {Max(s)}], file[Max(s)])]
<1>1. n \in Nat /\ DOMAIN file = 1..n /\ <<>> \in Seq(Mine)
  OBVIOUS
<1>2. Agents!Outside(file) = (CHOOSE f : Eq(f))[1..n]
  BY <1>1 DEF Agents!Outside, Agents!FoldLeft, Agents!MapThenFoldSet, Agents!Max, Max, Select
<1>3. \A s \in Seq(Mine), l \in Lines : Select(s, l) \in Seq(Mine)
  BY DEF Select
<1>4. \A k \in 1..n : file[k] \in Lines
  BY <1>1
<1>5. F \in [(1..n) \X Seq(Mine) -> Seq(Mine)]
  BY <1>3, <1>4
<1> HIDE DEF F, n
<1>6. PICK f \in [SUBSET (1..n) -> Seq(Mine)] : IsFold(f, n, <<>>, F)
  BY <1>1, <1>5, FoldExists
<1>7. Eq(f)
  <2>1. ASSUME NEW s \in SUBSET (1..n), s # {}
        PROVE  F[<<Max(s), f[s \ {Max(s)}]>>] = Select(f[s \ {Max(s)}], file[Max(s)])
    <3>1. Max(s) \in 1..n
      BY <1>1, <2>1, MaxIn
    <3>2. f[s \ {Max(s)}] \in Seq(Mine)
      BY <1>6
    <3> QED BY <3>1, <3>2 DEF F
  <2> QED BY <1>6, <2>1 DEF IsFold
<1> DEFINE h == CHOOSE f_1 : Eq(f_1)
<1>8. Eq(h)
  <2> HIDE DEF Eq
  <2> QED BY <1>7
<1>9. Agents!Outside(file) = h[1..n]
  BY <1>2
<1> HIDE DEF h
<1>10. h[{}] = <<>>
  BY <1>8
<1>11. ASSUME NEW k \in 1..n PROVE h[1..k] = Select(h[1..(k - 1)], file[k])
  <2>1. 1..k \in SUBSET (1..n) /\ 1..k # {} /\ (1..k) \ {k} = 1..(k - 1) /\ Max(1..k) = k
    BY <1>1, Upto
  <2> QED BY <1>8, <2>1
<1>12. Runs(h, n, <<>>, Seq(Mine))
  <2>1. \A k \in 1..n : h[1..(k - 1)] \in Seq(Mine) => h[1..k] \in Seq(Mine)
    BY <1>4, <1>11, <1>3
  <2> QED BY <1>10, <2>1 DEF Runs
<1>13. PICK g \in [0..n -> Seq(Mine)] : Trace(g, h, n, <<>>)
  BY <1>1, <1>12, Running
<1>14. /\ g[0] = <<>> /\ g[n] = h[1..n]
       /\ \A k \in 1..n : g[k] = Select(g[k - 1], file[k])
  BY <1>11, <1>13 DEF Trace
<1> QED BY <1>9, <1>13, <1>14 DEF n

(* What the script puts between the lines it keeps. *)
Block(k) == IF k = None THEN <<>> ELSE <<Begin>> \o k \o <<Blank, End>>

(* Kernels that are sequences; lines of the user, markers and the rest apart. *)
LinesApart ==
  /\ \A k \in Kernel : k \in Seq(Range(k))
  /\ None \notin Kernel
  /\ Begin # End /\ Blank \notin Agents!Marker
  /\ Mine \cap ((UNION {Range(k) : k \in Kernel}) \cup {Begin, End, Blank}) = {}

(* A kernel that the script accepts. *)
Whole(k) == k \in Kernel /\ Range(k) \cap Agents!Marker = {}

(* Three sequences, one after the other. *)
LEMMA Elements ==
  ASSUME NEW S, NEW pre \in Seq(S), NEW mid \in Seq(S), NEW post \in Seq(S)
  PROVE  /\ pre \o mid \o post \in Seq(S)
         /\ Len(pre \o mid \o post) = Len(pre) + Len(mid) + Len(post)
         /\ \A i \in 1..Len(pre) : (pre \o mid \o post)[i] = pre[i]
         /\ \A i \in 1..Len(mid) : (pre \o mid \o post)[Len(pre) + i] = mid[i]
         /\ \A i \in 1..Len(post) : (pre \o mid \o post)[Len(pre) + Len(mid) + i] = post[i]
<1>1. Len(pre) \in Nat /\ Len(mid) \in Nat /\ Len(post) \in Nat
  OBVIOUS
<1>2. /\ pre \o mid \in Seq(S) /\ Len(pre \o mid) = Len(pre) + Len(mid)
      /\ \A i \in 1..(Len(pre) + Len(mid)) :
           (pre \o mid)[i] = IF i <= Len(pre) THEN pre[i] ELSE mid[i - Len(pre)]
  BY ConcatProperties
<1>3. /\ (pre \o mid) \o post \in Seq(S)
      /\ Len((pre \o mid) \o post) = Len(pre) + Len(mid) + Len(post)
      /\ \A i \in 1..(Len(pre) + Len(mid) + Len(post)) :
           ((pre \o mid) \o post)[i] =
              IF i <= Len(pre) + Len(mid) THEN (pre \o mid)[i] ELSE post[i - (Len(pre) + Len(mid))]
  BY <1>2, ConcatProperties
<1> DEFINE file == pre \o mid \o post
<1>20. \A i \in 1..(Len(pre) + Len(mid) + Len(post)) :
           file[i] = IF i <= Len(pre) + Len(mid) THEN (pre \o mid)[i] ELSE post[i - (Len(pre) + Len(mid))]
  BY <1>3
<1>21. file \in Seq(S) /\ Len(file) = Len(pre) + Len(mid) + Len(post)
  BY <1>3
<1> HIDE DEF file
<1>4. ASSUME NEW i \in 1..Len(pre) PROVE file[i] = pre[i]
  <2>1. i \in 1..(Len(pre) + Len(mid) + Len(post)) /\ i <= Len(pre) + Len(mid) /\ i <= Len(pre)
        /\ i \in 1..(Len(pre) + Len(mid))
    BY <1>1
  <2> QED BY <1>20, <1>2, <2>1
<1>5. ASSUME NEW i \in 1..Len(mid) PROVE file[Len(pre) + i] = mid[i]
  <2> DEFINE j == Len(pre) + i
  <2>1. j \in 1..(Len(pre) + Len(mid) + Len(post)) /\ j <= Len(pre) + Len(mid) /\ ~(j <= Len(pre))
        /\ j \in 1..(Len(pre) + Len(mid)) /\ j - Len(pre) = i
    BY <1>1
  <2> HIDE DEF j
  <2>2. file[j] = mid[i]
    BY <1>20, <1>2, <2>1
  <2> QED BY <2>2 DEF j
<1>6. ASSUME NEW i \in 1..Len(post) PROVE file[Len(pre) + Len(mid) + i] = post[i]
  <2> DEFINE j == Len(pre) + Len(mid) + i
  <2>1. j \in 1..(Len(pre) + Len(mid) + Len(post)) /\ ~(j <= Len(pre) + Len(mid))
        /\ j - (Len(pre) + Len(mid)) = i
    BY <1>1
  <2> HIDE DEF j
  <2>2. file[j] = post[i]
    BY <1>20, <2>1
  <2> QED BY <2>2 DEF j
<1> QED BY <1>21, <1>4, <1>5, <1>6 DEF file

(* A pass over a file that copies what is outside mid copies pre and post. *)
LEMMA Skips ==
  ASSUME NEW S, NEW pre \in Seq(S), NEW mid \in Seq(S), NEW post \in Seq(S),
         NEW h, h[0] = <<>>,
         \A k \in 1..Len(pre \o mid \o post) :
           h[k] = IF Len(pre) < k /\ k <= Len(pre) + Len(mid) THEN h[k - 1]
                  ELSE Append(h[k - 1], (pre \o mid \o post)[k])
  PROVE  h[Len(pre \o mid \o post)] = pre \o post
<1> DEFINE file == pre \o mid \o post
           a == Len(pre)
           b == Len(pre) + Len(mid)
           n == Len(pre) + Len(mid) + Len(post)
           Read(k) == IF k <= a THEN SubSeq(pre, 1, k)
                      ELSE IF k <= b THEN pre
                      ELSE pre \o SubSeq(post, 1, k - b)
           Good == {k \in 0..n : h[k] = Read(k)}
<1>1. a \in Nat /\ b \in Nat /\ n \in Nat /\ Len(post) \in Nat /\ Len(mid) \in Nat
      /\ a <= b /\ b <= n /\ n = b + Len(post) /\ b = a + Len(mid)
  OBVIOUS
<1>2. /\ Len(file) = n
      /\ \A i \in 1..a : file[i] = pre[i]
      /\ \A i \in 1..Len(post) : file[b + i] = post[i]
  BY Elements
<1>3. \A k \in 1..n : h[k] = IF a < k /\ k <= b THEN h[k - 1] ELSE Append(h[k - 1], file[k])
  BY <1>2
<1>4. a = Len(pre)
  OBVIOUS
<1> HIDE DEF file, a, b, n
<1>5. SubSeq(pre, 1, 0) = <<>> /\ SubSeq(pre, 1, a) = pre /\ SubSeq(post, 1, 0) = <<>>
      /\ SubSeq(post, 1, Len(post)) = post /\ pre \o <<>> = pre
  BY <1>4, SubSeqEmpty, SubSeqFull, ConcatEmptySeq
<1>6. 0 \in Good
  <2>1. 0 \in 0..n /\ 0 <= a
    BY <1>1
  <2> QED BY <1>5, <2>1
<1>7. ASSUME NEW k \in 1..n, k - 1 \in Good PROVE k \in Good
  <2>1. h[k - 1] = Read(k - 1) /\ k \in 0..n
    BY <1>1, <1>7
  <2>2. CASE k <= a
    <3>1. k \in 1..Len(pre) /\ ~(a < k) /\ k - 1 <= a
      BY <1>1, <1>4, <2>2
    <3>2. Append(SubSeq(pre, 1, k - 1), pre[k]) = SubSeq(pre, 1, k)
      <4>1. 1 \in 1..Len(pre) /\ k \in 1..Len(pre) /\ Len(pre) \in Nat
        BY <3>1
      <4>2. SubSeq(pre, 1, k) = SubSeq(pre, 1, k - 1) \o <<pre[k]>>
        BY <4>1, SubSeqRecursiveSecond
      <4>3. pre[k] \in S /\ SubSeq(pre, 1, k - 1) \in Seq(S)
        BY <4>1
      <4> QED BY <4>2, <4>3, AppendIsConcat
    <3>3. file[k] = pre[k]
      BY <1>2, <1>4, <3>1
    <3> QED BY <1>3, <2>1, <2>2, <3>1, <3>2, <3>3
  <2>3. CASE a < k /\ k <= b
    <3>1. h[k] = h[k - 1] /\ ~(k <= a)
      BY <1>1, <1>3, <2>3
    <3>2. Read(k - 1) = pre
      <4>1. CASE k - 1 <= a
        <5>1. k - 1 = a
          BY <1>1, <2>3, <4>1
        <5> QED BY <1>5, <4>1, <5>1
      <4>2. CASE ~(k - 1 <= a)
        <5>1. k - 1 <= b
          BY <1>1, <2>3
        <5> QED BY <4>2, <5>1
      <4> QED BY <4>1, <4>2
    <3> QED BY <2>1, <2>3, <3>1, <3>2
  <2>4. CASE b < k
    <3> DEFINE j == k - b
    <3>1. j \in 1..Len(post) /\ k = b + j /\ ~(k <= a) /\ ~(k <= b) /\ (k - 1) - b = j - 1
      BY <1>1, <2>4
    <3>2. Read(k - 1) = pre \o SubSeq(post, 1, j - 1)
      <4>1. CASE j = 1
        <5>1. k - 1 = b /\ j - 1 = 0
          BY <1>1, <3>1, <4>1
        <5>2. Read(b) = pre
          <6>1. CASE b <= a
            <7>1. b = a /\ b <= a
              BY <1>1, <6>1
            <7> QED BY <1>5, <7>1
          <6>2. CASE ~(b <= a)
            <7>1. b <= b
              BY <1>1
            <7> QED BY <6>2, <7>1
          <6> QED BY <6>1, <6>2
        <5> QED BY <1>5, <5>1, <5>2
      <4>2. CASE j # 1
        <5>1. k # b + 1 /\ k \in Nat /\ b < k
          BY <1>1, <2>4, <4>2
        <5>2. ~(k - 1 <= b)
          <6>1. \A x, y \in Nat : x < y /\ y # x + 1 => ~(y - 1 <= x)
            OBVIOUS
          <6> HIDE DEF j
          <6> QED BY <1>1, <5>1, <6>1
        <5>3. ~(k - 1 <= a)
          <6>1. \A x, y, z \in Nat : x <= z /\ z < y => (y - 1 <= x => y - 1 <= z)
            OBVIOUS
          <6> HIDE DEF j
          <6> QED BY <1>1, <5>1, <5>2, <6>1
        <5> QED BY <3>1, <5>2, <5>3
      <4> QED BY <4>1, <4>2
    <3>3. h[k] = Append(h[k - 1], post[j])
      <4>1. file[k] = post[j]
        BY <1>2, <3>1
      <4>2. ~(a < k /\ k <= b)
        BY <3>1
      <4> QED BY <1>3, <4>1, <4>2
    <3> HIDE DEF j
    <3>4. SubSeq(post, 1, j) = SubSeq(post, 1, j - 1) \o <<post[j]>>
      <4>1. 1 \in 1..Len(post)
        BY <1>1, <3>1
      <4>2. j \in 1..Len(post)
        BY <3>1
      <4> QED BY <4>1, <4>2, SubSeqRecursiveSecond
    <3>5. post[j] \in S /\ SubSeq(post, 1, j - 1) \in Seq(S)
      BY <3>1
    <3>6. pre \o SubSeq(post, 1, j - 1) \in Seq(S) /\ <<post[j]>> \in Seq(S)
      BY <3>5
    <3>7. h[k] = (pre \o SubSeq(post, 1, j - 1)) \o <<post[j]>>
      <4>1. h[k] = Append(pre \o SubSeq(post, 1, j - 1), post[j])
        BY <2>1, <3>2, <3>3
      <4> HIDE DEF Good, Read
      <4> QED BY <3>5, <3>6, <4>1, AppendIsConcat
    <3>8. h[k] = pre \o SubSeq(post, 1, j)
      <4> HIDE DEF Good, Read
      <4> DEFINE q == SubSeq(post, 1, j - 1)
                 e == <<post[j]>>
      <4>1. q \in Seq(S) /\ e \in Seq(S)
        BY <3>5, <3>6
      <4> HIDE DEF q, e
      <4>2. (pre \o q) \o e = pre \o (q \o e)
        BY <4>1, Regroup
      <4> USE DEF q, e
      <4> QED BY <3>4, <3>7, <4>2
    <3>9. Read(k) = pre \o SubSeq(post, 1, j)
      BY <3>1 DEF j
    <3> QED BY <2>1, <3>8, <3>9
  <2>5. k <= a \/ (a < k /\ k <= b) \/ b < k
    BY <1>1
  <2> QED BY <2>2, <2>3, <2>4, <2>5
<1>8. n \in Good
  <2>1. n \in 0..n
    BY <1>1
  <2> HIDE DEF Good
  <2> QED BY <1>1, <1>6, <1>7, <2>1, Induction
<1>9. Read(n) = pre \o post
  <2>1. CASE Len(post) = 0
    <3>1. n = b /\ post = <<>>
      BY <1>1, <2>1
    <3>2. CASE b <= a
      <4>1. n = a /\ n <= a
        BY <1>1, <3>1, <3>2
      <4>2. Read(n) = pre
        BY <1>5, <4>1
      <4> QED BY <1>5, <3>1, <4>2
    <3>3. CASE ~(b <= a)
      <4>1. b <= b
        BY <1>1
      <4> QED BY <1>5, <3>1, <3>3, <4>1
    <3> QED BY <3>2, <3>3
  <2>2. CASE Len(post) # 0
    <3>1. ~(n <= a) /\ ~(n <= b) /\ n - b = Len(post)
      BY <1>1, <2>2
    <3> QED BY <1>5, <3>1
  <2> QED BY <2>1, <2>2
<1> QED BY <1>2, <1>8, <1>9 DEF file

(* Its lines are neither markers nor the user's. *)
LEMMA WholeLines ==
  ASSUME LinesApart, NEW k, Whole(k)
  PROVE  k \in Seq(Plain \ Mine) /\ k # None
<1>1. k \in Seq(Range(k)) /\ k # None
  BY DEF LinesApart, Whole
<1>2. Range(k) \subseteq Plain \ Mine
  <2>1. k \in Kernel /\ Range(k) \cap Agents!Marker = {}
    BY DEF Whole
  <2>2. Range(k) \subseteq UNION {Range(q) : q \in Kernel}
    BY <2>1
  <2>3. Range(k) \cap Mine = {}
    BY <2>2 DEF LinesApart
  <2>4. Range(k) \subseteq Lines
    BY <2>2 DEF Lines
  <2> QED BY <2>1, <2>3, <2>4 DEF Plain
<1> QED BY <1>1, <1>2, SeqMonotonic

(* The lines of a block. *)
LEMMA BlockLines ==
  ASSUME LinesApart, NEW k, Whole(k)
  PROVE  /\ k \in Seq(Plain) /\ Block(k) \in Seq(Lines)
         /\ Len(Block(k)) = Len(k) + 3
         /\ Block(k)[1] = Begin /\ Block(k)[Len(k) + 3] = End
         /\ \A i \in 2..(Len(k) + 2) : Block(k)[i] \in Plain \ Mine
         /\ \A i \in 1..(Len(k) + 1) : Block(k)[i + 1] = (k \o <<Blank>>)[i]
<1> DEFINE L == Lines
           m == Len(k)
<1>1. k \in Seq(Plain \ Mine) /\ k # None
  BY WholeLines
<1>2. /\ Begin \in L /\ End \in L /\ Blank \in L /\ Plain \subseteq L
      /\ Blank \in Plain \ Mine
  BY DEF Lines, Plain, LinesApart
<1>3. k \in Seq(L) /\ k \in Seq(Plain) /\ m \in Nat
  <2>1. k \in Seq(L)
    BY <1>1, <1>2, SeqMonotonic
  <2>2. k \in Seq(Plain)
    BY <1>1, SeqMonotonic
  <2> QED BY <2>1, <2>2
<1> HIDE DEF L
<1>4. <<Begin>> \in Seq(L) /\ Len(<<Begin>>) = 1 /\ <<Begin>>[1] = Begin
  BY <1>2
<1>5. /\ <<Blank, End>> \in Seq(L) /\ Len(<<Blank, End>>) = 2
      /\ <<Blank, End>>[1] = Blank /\ <<Blank, End>>[2] = End
  BY <1>2
<1>6. Block(k) = <<Begin>> \o k \o <<Blank, End>>
  BY <1>1 DEF Block
<1> DEFINE B == Block(k)
<1>7. /\ B \in Seq(L) /\ Len(B) = 1 + m + 2
      /\ \A i \in 1..1 : B[i] = <<Begin>>[i]
      /\ \A i \in 1..m : B[1 + i] = k[i]
      /\ \A i \in 1..2 : B[1 + m + i] = <<Blank, End>>[i]
  <2>1. /\ <<Begin>> \o k \o <<Blank, End>> \in Seq(L)
        /\ Len(<<Begin>> \o k \o <<Blank, End>>) = Len(<<Begin>>) + Len(k) + Len(<<Blank, End>>)
        /\ \A i \in 1..Len(<<Begin>>) : (<<Begin>> \o k \o <<Blank, End>>)[i] = <<Begin>>[i]
        /\ \A i \in 1..Len(k) : (<<Begin>> \o k \o <<Blank, End>>)[Len(<<Begin>>) + i] = k[i]
        /\ \A i \in 1..Len(<<Blank, End>>) :
             (<<Begin>> \o k \o <<Blank, End>>)[Len(<<Begin>>) + Len(k) + i] = <<Blank, End>>[i]
    <3> HIDE DEF m
    <3> QED BY <1>3, <1>4, <1>5, Elements
  <2> QED BY <1>4, <1>5, <1>6, <2>1
<1> HIDE DEF B
<1>8. B[1] = Begin /\ B[m + 2] = Blank /\ B[m + 3] = End /\ Len(B) = m + 3
  <2>1. B[1] = Begin
    <3>1. 1 \in 1..1
      OBVIOUS
    <3> QED BY <1>4, <1>7, <3>1
  <2>2. B[1 + m + 1] = Blank /\ B[1 + m + 2] = End
    <3>1. 1 \in 1..2 /\ 2 \in 1..2
      OBVIOUS
    <3> HIDE DEF m
    <3> QED BY <1>5, <1>7, <3>1
  <2>3. 1 + m + 1 = m + 2 /\ 1 + m + 2 = m + 3
    BY <1>3
  <2> QED BY <1>7, <2>1, <2>2, <2>3
<1>9. ASSUME NEW i \in 2..(m + 2) PROVE B[i] \in Plain \ Mine
  <2>1. CASE i = m + 2
    BY <1>2, <1>8, <2>1
  <2>2. CASE i # m + 2
    <3> DEFINE j == i - 1
    <3>1. j \in 1..m /\ i = 1 + j
      BY <1>3, <2>2
    <3> HIDE DEF j
    <3>2. B[i] = k[j]
      BY <1>7, <3>1
    <3>3. k[j] \in Plain \ Mine
      BY <1>1, <3>1
    <3> QED BY <3>2, <3>3
  <2> QED BY <2>1, <2>2
<1>10. ASSUME NEW i \in 1..(m + 1) PROVE B[i + 1] = (k \o <<Blank>>)[i]
  <2>0. <<Blank>> \in Seq(L) /\ Len(<<Blank>>) = 1 /\ <<Blank>>[1] = Blank
    BY <1>2
  <2>1. \A e \in 1..(Len(k) + 1) : (k \o <<Blank>>)[e] = IF e <= Len(k) THEN k[e] ELSE <<Blank>>[e - Len(k)]
    BY <1>3, <2>0, ConcatProperties
  <2>2. CASE i = m + 1
    <3>1. ~(i <= m) /\ i - m = 1 /\ i + 1 = m + 2
      BY <1>3, <2>2
    <3>2. (k \o <<Blank>>)[i] = Blank
      BY <2>0, <2>1, <3>1
    <3> QED BY <1>8, <3>1, <3>2
  <2>3. CASE i # m + 1
    <3>1. i <= m /\ i \in 1..m /\ i + 1 = 1 + i
      BY <1>3, <2>3
    <3>2. (k \o <<Blank>>)[i] = k[i]
      BY <2>1, <3>1
    <3> QED BY <1>7, <3>1, <3>2
  <2> QED BY <2>2, <2>3
<1> QED BY <1>3, <1>7, <1>8, <1>9, <1>10 DEF B, L

(* Where the lines of a file with a block are. *)
Around(file, pre, k, post) ==
  /\ pre \in Seq(Plain) /\ post \in Seq(Plain)
  /\ k = None \/ Whole(k)
  /\ file = pre \o Block(k) \o post

(* Which line of the file is where. *)
LEMMA AroundLines ==
  ASSUME LinesApart, NEW file, NEW pre, NEW k, NEW post, Around(file, pre, k, post)
  PROVE  /\ file \in Seq(Lines) /\ pre \in Seq(Lines) /\ post \in Seq(Lines) /\ Block(k) \in Seq(Lines)
         /\ Len(pre) \in Nat /\ Len(post) \in Nat /\ Len(Block(k)) \in Nat
         /\ Len(file) = Len(pre) + Len(Block(k)) + Len(post)
         /\ \A i \in 1..Len(pre) : file[i] = pre[i]
         /\ \A i \in 1..Len(Block(k)) : file[Len(pre) + i] = Block(k)[i]
         /\ \A i \in 1..Len(post) : file[Len(pre) + Len(Block(k)) + i] = post[i]
<1>1. pre \in Seq(Lines) /\ post \in Seq(Lines)
  <2>1. Plain \subseteq Lines
    BY DEF Plain
  <2> QED BY <2>1, SeqMonotonic DEF Around
<1>2. Block(k) \in Seq(Lines)
  <2>1. CASE k = None
    <3>1. Block(k) = <<>>
      BY <2>1 DEF Block
    <3> QED BY <3>1
  <2>2. CASE Whole(k)
    BY <2>2, BlockLines
  <2> QED BY <2>1, <2>2 DEF Around
<1>3. file = pre \o Block(k) \o post
  BY DEF Around
<1>4. Len(pre) \in Nat /\ Len(post) \in Nat /\ Len(Block(k)) \in Nat
  BY <1>1, <1>2
<1> QED BY <1>1, <1>2, <1>3, <1>4, Elements

(* The filter takes a block out, and nothing else. *)
LEMMA KeptAround ==
  ASSUME LinesApart, NEW file, NEW pre, NEW k, NEW post, Around(file, pre, k, post)
  PROVE  Agents!Kept(file) = pre \o post
<1> DEFINE a == Len(pre)
           m == Len(Block(k))
           b == Len(pre) + Len(Block(k))
           n == Len(file)
<1>1. /\ a \in Nat /\ m \in Nat /\ b \in Nat /\ n \in Nat
      /\ b = a + m /\ n = b + Len(post) /\ Len(post) \in Nat
      /\ file \in Seq(Lines) /\ pre \in Seq(Plain) /\ post \in Seq(Plain)
      /\ \A i \in 1..a : file[i] = pre[i]
      /\ \A i \in 1..m : file[a + i] = Block(k)[i]
      /\ \A i \in 1..Len(post) : file[b + i] = post[i]
  <2>1. pre \in Seq(Plain) /\ post \in Seq(Plain)
    BY DEF Around
  <2>2. /\ file \in Seq(Lines) /\ a \in Nat /\ m \in Nat /\ Len(post) \in Nat
        /\ n = a + m + Len(post)
        /\ \A i \in 1..a : file[i] = pre[i]
        /\ \A i \in 1..m : file[a + i] = Block(k)[i]
        /\ \A i \in 1..Len(post) : file[b + i] = post[i]
    BY AroundLines
  <2> HIDE DEF a, m, n
  <2>3. b = a + m
    BY DEF a, m
  <2>4. b \in Nat /\ n \in Nat /\ n = b + Len(post)
    BY <2>2, <2>3
  <2> QED BY <2>1, <2>2, <2>3, <2>4
<1>2. \/ m = 0
      \/ /\ m >= 3 /\ Block(k)[1] = Begin /\ Block(k)[m] = End
         /\ \A i \in 2..(m - 1) : Block(k)[i] \in Plain
  <2>1. CASE k = None
    <3>1. Block(k) = <<>>
      BY <2>1 DEF Block
    <3> QED BY <3>1
  <2>2. CASE Whole(k)
    <3>1. /\ k \in Seq(Plain) /\ m = Len(k) + 3
          /\ Block(k)[1] = Begin /\ Block(k)[Len(k) + 3] = End
          /\ \A i \in 2..(Len(k) + 2) : Block(k)[i] \in Plain
      BY <2>2, BlockLines
    <3>2. Len(k) \in Nat
      BY <3>1
    <3>3. m - 1 = Len(k) + 2 /\ m >= 3
      BY <3>1, <3>2
    <3> QED BY <3>1, <3>3
  <2> QED BY <2>1, <2>2 DEF Around
<1>3. PICK g \in [0..n -> Awk] :
        /\ g[0] = [inblock |-> FALSE, out |-> <<>>]
        /\ \A i \in 1..n : g[i] = Step(g[i - 1], file[i])
        /\ Agents!Kept(file) = g[n].out
  BY <1>1, KeptFold
<1>20. file = pre \o Block(k) \o post
  BY DEF Around
<1>21. a = Len(pre) /\ m = Len(Block(k)) /\ b = Len(pre) + Len(Block(k)) /\ n = Len(file)
  OBVIOUS
<1> HIDE DEF a, m, b, n
<1> DEFINE In(i) == a < i /\ i < b
           Good == {i \in 0..n : g[i].inblock = In(i)}
(* Where each line is. *)
<1>4. ASSUME NEW i \in 1..n
      PROVE  \/ i <= a /\ file[i] \in Plain
             \/ b < i /\ file[i] \in Plain
             \/ /\ a < i /\ i <= b /\ m >= 3
                /\ \/ i = a + 1 /\ file[i] = Begin
                   \/ i = b /\ file[i] = End
                   \/ a + 1 < i /\ i < b /\ file[i] \in Plain
  <2>1. CASE i <= a
    <3>1. i \in 1..a
      BY <1>1, <2>1
    <3>2. i \in 1..Len(pre)
      BY <3>1 DEF a
    <3>3. pre[i] \in Plain
      BY <1>1, <3>2, ElementOfSeq
    <3> QED BY <1>1, <2>1, <3>1, <3>3
  <2>2. CASE b < i
    <3> DEFINE j == i - b
    <3>1. j \in 1..Len(post) /\ i = b + j
      <4>1. \A x, y, z \in Nat : x \in 1..(y + z) /\ y < x => x - y \in 1..z /\ x = y + (x - y)
        OBVIOUS
      <4>2. i \in 1..(b + Len(post)) /\ b \in Nat /\ Len(post) \in Nat /\ i \in Nat
        BY <1>1
      <4> QED BY <2>2, <4>1, <4>2
    <3> HIDE DEF j
    <3>2. post[j] \in Plain
      BY <1>1, <3>1, ElementOfSeq
    <3> QED BY <1>1, <2>2, <3>1, <3>2
  <2>3. CASE a < i /\ i <= b
    <3> DEFINE j == i - a
    <3>1. j \in 1..m /\ i = a + j
      BY <1>1, <2>3
    <3>2. m >= 3
      BY <1>1, <1>2, <3>1
    <3>3. file[i] = Block(k)[j]
      BY <1>1, <3>1
    <3>4. CASE j = 1
      <4>1. i = a + 1
        BY <3>4, <3>1
      <4> QED BY <1>2, <2>3, <3>2, <3>3, <3>4, <4>1
    <3>5. CASE j = m
      <4>1. i = b
        BY <1>1, <3>1, <3>5
      <4> QED BY <1>2, <2>3, <3>2, <3>3, <3>5, <4>1
    <3>6. CASE j # 1 /\ j # m
      <4>1. j \in 2..(m - 1) /\ a + 1 < i /\ i < b
        BY <1>1, <3>1, <3>6
      <4> QED BY <1>2, <2>3, <3>2, <3>3, <4>1
    <3> QED BY <3>4, <3>5, <3>6
  <2> QED BY <1>1, <2>1, <2>2, <2>3
<1>5. \A i \in 0..n : g[i] \in Awk
  BY <1>3
<1>6. \A i \in 1..n : g[i - 1] \in Awk /\ i - 1 \in 0..n
  BY <1>1, <1>5
<1>7. \A l \in Plain : l \notin Agents!Marker
  BY DEF Plain
<1>8. Begin \in Agents!Marker /\ End \in Agents!Marker /\ Begin # End
  BY DEF Agents!Marker, LinesApart
<1>9. 0 \in Good
  <2>1. ~(a < 0 /\ 0 < b) /\ 0 \in 0..n
    BY <1>1
  <2>2. g[0].inblock = FALSE
    BY <1>3
  <2>3. g[0].inblock = (a < 0 /\ 0 < b)
    BY <2>1, <2>2
  <2> QED BY <2>1, <2>3
<1>10. ASSUME NEW i \in 1..n, i - 1 \in Good PROVE i \in Good
  <2>1. i \in 0..n /\ g[i - 1].inblock = In(i - 1) /\ g[i - 1] \in Awk
    BY <1>1, <1>6, <1>10
  <2>2. g[i] = Step(g[i - 1], file[i])
    BY <1>3
  <2>3. file[i] \in Plain => g[i].inblock = g[i - 1].inblock
    BY <1>7, <2>1, <2>2 DEF Step, Awk
  <2>4. file[i] \in Agents!Marker => g[i].inblock = (file[i] = Begin)
    BY <2>1, <2>2 DEF Step, Awk
  <2>5. CASE (i <= a \/ b < i) /\ file[i] \in Plain
    <3>1. ~In(i) /\ ~In(i - 1)
      BY <1>1, <2>5
    <3> QED BY <2>1, <2>3, <2>5, <3>1
  <2>6. CASE i = a + 1 /\ file[i] = Begin /\ m >= 3
    <3>1. In(i)
      BY <1>1, <2>6
    <3> QED BY <1>8, <2>1, <2>4, <2>6, <3>1
  <2>7. CASE i = b /\ file[i] = End
    <3>1. ~In(i)
      BY <1>1, <2>7
    <3> QED BY <1>8, <2>1, <2>4, <2>7, <3>1
  <2>8. CASE a + 1 < i /\ i < b /\ file[i] \in Plain
    <3>1. In(i) /\ In(i - 1)
      BY <1>1, <2>8
    <3> QED BY <2>1, <2>3, <2>8, <3>1
  <2> QED BY <1>4, <2>5, <2>6, <2>7, <2>8
<1>11. \A i \in 0..n : i \in Good
  <2> HIDE DEF Good
  <2> QED BY <1>1, <1>9, <1>10, Induction
<1> DEFINE h == [i \in 0..n |-> g[i].out]
<1>12. ASSUME NEW i \in 1..n
       PROVE  h[i] = IF a < i /\ i <= b THEN h[i - 1] ELSE Append(h[i - 1], file[i])
  <2>1. i \in 0..n /\ i - 1 \in 0..n /\ g[i - 1].inblock = In(i - 1) /\ g[i - 1] \in Awk
    BY <1>1, <1>6, <1>11
  <2>2. g[i] = Step(g[i - 1], file[i])
    BY <1>3
  <2>3. h[i] = g[i].out /\ h[i - 1] = g[i - 1].out
    BY <2>1
  <2>4. file[i] \in Agents!Marker \/ In(i - 1) => g[i].out = g[i - 1].out
    BY <2>1, <2>2 DEF Step, Awk
  <2>5. file[i] \notin Agents!Marker /\ ~In(i - 1) => g[i].out = Append(g[i - 1].out, file[i])
    BY <2>1, <2>2 DEF Step, Awk
  <2>6. CASE (i <= a \/ b < i) /\ file[i] \in Plain
    <3>1. ~(a < i /\ i <= b) /\ ~In(i - 1)
      BY <1>1, <2>6
    <3> QED BY <1>7, <2>3, <2>5, <2>6, <3>1
  <2>7. CASE a < i /\ i <= b /\ file[i] \in Agents!Marker
    BY <2>3, <2>4, <2>7
  <2>8. CASE a + 1 < i /\ i < b
    <3>1. In(i - 1) /\ a < i /\ i <= b
      BY <1>1, <2>8
    <3> QED BY <2>3, <2>4, <3>1
  <2> QED BY <1>4, <1>8, <2>6, <2>7, <2>8
<1>13. h[0] = <<>> /\ h[n] = g[n].out
  <2>1. 0 \in 0..n /\ n \in 0..n
    BY <1>1
  <2> QED BY <1>3, <2>1
<1> HIDE DEF h
<1>14. h[n] = pre \o post
  <2>1. pre \in Seq(Lines) /\ post \in Seq(Lines) /\ Block(k) \in Seq(Lines)
    BY AroundLines
  <2>2. \A i \in 1..Len(pre \o Block(k) \o post) :
          h[i] = IF Len(pre) < i /\ i <= Len(pre) + Len(Block(k)) THEN h[i - 1]
                 ELSE Append(h[i - 1], (pre \o Block(k) \o post)[i])
    BY <1>12, <1>20, <1>21
  <2>3. h[0] = <<>>
    BY <1>13
  <2>4. h[Len(pre \o Block(k) \o post)] = pre \o post
    BY <2>1, <2>2, <2>3, Skips
  <2> QED BY <2>4, <1>20, <1>21
<1> QED BY <1>3, <1>13, <1>14

(* The user's lines outside a block. *)
LEMMA OutsideAround ==
  ASSUME LinesApart, NEW file, NEW pre, NEW k, NEW post, Around(file, pre, k, post),
         pre \in Seq(Mine), post \in Seq(Mine)
  PROVE  Agents!Outside(file) = pre \o post
<1> DEFINE a == Len(pre)
           m == Len(Block(k))
           b == Len(pre) + Len(Block(k))
           n == Len(file)
<1>1. /\ a \in Nat /\ m \in Nat /\ b \in Nat /\ n \in Nat
      /\ b = a + m /\ n = b + Len(post) /\ Len(post) \in Nat
      /\ file \in Seq(Lines)
      /\ \A i \in 1..a : file[i] = pre[i]
      /\ \A i \in 1..m : file[a + i] = Block(k)[i]
      /\ \A i \in 1..Len(post) : file[b + i] = post[i]
  BY AroundLines
<1>2. \A i \in 1..m : Block(k)[i] \notin Mine
  <2>1. CASE k = None
    <3>1. Block(k) = <<>>
      BY <2>1 DEF Block
    <3> QED BY <3>1
  <2>2. CASE Whole(k)
    <3>1. /\ k \in Seq(Plain) /\ m = Len(k) + 3
          /\ Block(k)[1] = Begin /\ Block(k)[Len(k) + 3] = End
          /\ \A i \in 2..(Len(k) + 2) : Block(k)[i] \notin Mine
      BY <2>2, BlockLines
    <3>2. Len(k) \in Nat
      BY <3>1
    <3>3. Begin \notin Mine /\ End \notin Mine
      BY DEF LinesApart
    <3>4. \A i \in 1..m : i = 1 \/ i = Len(k) + 3 \/ i \in 2..(Len(k) + 2)
      BY <3>1, <3>2
    <3> QED BY <3>1, <3>3, <3>4
  <2> QED BY <2>1, <2>2 DEF Around
<1>3. PICK h \in [0..n -> Seq(Mine)] :
        /\ h[0] = <<>>
        /\ \A i \in 1..n : h[i] = Select(h[i - 1], file[i])
        /\ Agents!Outside(file) = h[n]
  BY <1>1, OutsideFold
<1>20. file = pre \o Block(k) \o post
  BY DEF Around
<1>21. a = Len(pre) /\ m = Len(Block(k)) /\ b = Len(pre) + Len(Block(k)) /\ n = Len(file)
  OBVIOUS
<1> HIDE DEF a, m, b, n
<1>4. ASSUME NEW i \in 1..n
      PROVE  h[i] = IF a < i /\ i <= b THEN h[i - 1] ELSE Append(h[i - 1], file[i])
  <2>1. CASE i <= a
    <3>1. i \in 1..a
      BY <1>1, <2>1
    <3>2. file[i] \in Mine /\ ~(a < i)
      BY <1>1, <1>21, <3>1
    <3> QED BY <1>3, <3>2 DEF Select
  <2>2. CASE b < i
    <3> DEFINE j == i - b
    <3>1. j \in 1..Len(post) /\ i = b + j
      BY <1>1, <2>2
    <3> HIDE DEF j
    <3>2. file[i] \in Mine
      BY <1>1, <3>1
    <3>3. ~(i <= b)
      BY <1>1, <2>2
    <3> QED BY <1>3, <3>2, <3>3 DEF Select
  <2>3. CASE a < i /\ i <= b
    <3> DEFINE j == i - a
    <3>1. j \in 1..m /\ i = a + j
      BY <1>1, <2>3
    <3> HIDE DEF j
    <3>2. file[i] \notin Mine
      BY <1>1, <1>2, <3>1
    <3> QED BY <1>3, <2>3, <3>2 DEF Select
  <2> QED BY <1>1, <2>1, <2>2, <2>3
<1>5. h[n] = pre \o post
  <2>1. pre \in Seq(Lines) /\ post \in Seq(Lines) /\ Block(k) \in Seq(Lines)
    BY AroundLines
  <2>2. \A i \in 1..Len(pre \o Block(k) \o post) :
          h[i] = IF Len(pre) < i /\ i <= Len(pre) + Len(Block(k)) THEN h[i - 1]
                 ELSE Append(h[i - 1], (pre \o Block(k) \o post)[i])
    BY <1>4, <1>20, <1>21
  <2>3. h[0] = <<>>
    BY <1>3
  <2>4. h[Len(pre \o Block(k) \o post)] = pre \o post
    BY <2>1, <2>2, <2>3, Skips
  <2> QED BY <2>4, <1>20, <1>21
<1> QED BY <1>3, <1>5

(* The block of a file is where its markers are. *)
LEMMA WholeAround ==
  ASSUME LinesApart, NEW file, NEW pre, NEW k, NEW post, Around(file, pre, k, post), Whole(k)
  PROVE  LET at(l) == {i \in DOMAIN file : file[i] = l}
         IN  \E b \in at(Begin), e \in at(End) :
               /\ at(Begin) = {b} /\ at(End) = {e}
               /\ SubSeq(file, b + 1, e - 1) = k \o <<Blank>>
<1> DEFINE a == Len(pre)
           m == Len(k)
           n == Len(file)
<1>1. /\ a \in Nat /\ m \in Nat /\ n \in Nat /\ Len(post) \in Nat
      /\ n = a + (m + 3) + Len(post) /\ Len(Block(k)) = m + 3
      /\ file \in Seq(Lines) /\ pre \in Seq(Plain) /\ post \in Seq(Plain) /\ k \in Seq(Plain)
      /\ \A i \in 1..a : file[i] = pre[i]
      /\ \A i \in 1..(m + 3) : file[a + i] = Block(k)[i]
      /\ \A i \in 1..Len(post) : file[a + (m + 3) + i] = post[i]
  <2>1. k \in Seq(Plain) /\ Len(Block(k)) = m + 3
    BY BlockLines
  <2>2. m \in Nat
    BY <2>1
  <2>3. pre \in Seq(Plain) /\ post \in Seq(Plain)
    BY DEF Around
  <2>4. /\ file \in Seq(Lines) /\ a \in Nat /\ Len(post) \in Nat
        /\ n = a + Len(Block(k)) + Len(post)
        /\ \A i \in 1..a : file[i] = pre[i]
        /\ \A i \in 1..Len(Block(k)) : file[a + i] = Block(k)[i]
        /\ \A i \in 1..Len(post) : file[a + Len(Block(k)) + i] = post[i]
    BY AroundLines
  <2> HIDE DEF a, m, n
  <2>5. n \in Nat /\ n = a + (m + 3) + Len(post)
    BY <2>1, <2>2, <2>4
  <2> QED BY <2>1, <2>2, <2>3, <2>4, <2>5
<1>2. /\ Block(k)[1] = Begin /\ Block(k)[m + 3] = End
      /\ \A i \in 2..(m + 2) : Block(k)[i] \in Plain
      /\ \A i \in 1..(m + 1) : Block(k)[i + 1] = (k \o <<Blank>>)[i]
  BY BlockLines
<1>3. Begin \notin Plain /\ End \notin Plain /\ Begin # End
  BY DEF Plain, Agents!Marker, LinesApart
<1>21. a = Len(pre)
  OBVIOUS
<1> HIDE DEF a, m, n
<1>4. ASSUME NEW i \in 1..n
      PROVE  /\ file[i] = Begin <=> i = a + 1
             /\ file[i] = End <=> i = a + (m + 3)
  <2>1. CASE i <= a
    <3>1. i \in 1..a /\ i # a + 1 /\ i # a + (m + 3)
      BY <1>1, <2>1
    <3>2. i \in 1..Len(pre)
      BY <1>21, <3>1
    <3>3. pre[i] \in Plain
      BY <1>1, <3>2, ElementOfSeq
    <3>4. file[i] \in Plain
      BY <1>1, <3>1, <3>3
    <3> QED BY <1>3, <3>1, <3>4
  <2>2. CASE a + (m + 3) < i
    <3> DEFINE j == i - (a + (m + 3))
    <3>1. j \in 1..Len(post) /\ i = a + (m + 3) + j /\ i # a + 1 /\ i # a + (m + 3)
      BY <1>1, <2>2
    <3> HIDE DEF j
    <3>2. post[j] \in Plain
      BY <1>1, <3>1, ElementOfSeq
    <3>3. file[i] = post[j]
      BY <1>1, <3>1
    <3> QED BY <1>3, <3>1, <3>2, <3>3
  <2>3. CASE a < i /\ i <= a + (m + 3)
    <3> DEFINE j == i - a
    <3>1. j \in 1..(m + 3) /\ i = a + j
      BY <1>1, <2>3
    <3> HIDE DEF j
    <3>2. file[i] = Block(k)[j]
      BY <1>1, <3>1
    <3>3. (i = a + 1 <=> j = 1) /\ (i = a + (m + 3) <=> j = m + 3) /\ m + 3 # 1
      BY <1>1, <3>1
    <3>4. j = 1 \/ j = m + 3 \/ j \in 2..(m + 2)
      BY <1>1, <3>1
    <3> QED BY <1>2, <1>3, <3>2, <3>3, <3>4
  <2> QED BY <1>1, <2>1, <2>2, <2>3
<1> DEFINE at(l) == {i \in DOMAIN file : file[i] = l}
           b == a + 1
           e == a + (m + 3)
<1>5. DOMAIN file = 1..n /\ b \in 1..n /\ e \in 1..n
  <2>1. DOMAIN file = 1..n
    BY <1>1 DEF n
  <2> QED BY <1>1, <2>1
<1>6. at(Begin) = {b} /\ at(End) = {e}
  BY <1>4, <1>5
<1>7. SubSeq(file, b + 1, e - 1) = k \o <<Blank>>
  <2> DEFINE s == SubSeq(file, b + 1, e - 1)
             t == k \o <<Blank>>
  <2>1. b + 1 \in Int /\ e - 1 \in Int /\ (e - 1) - (b + 1) + 1 = m + 1 /\ b + 1 <= e - 1
    BY <1>1
  <2>2. \A i \in (b + 1)..(e - 1) : file[i] \in Lines
    <3>1. \A i \in (b + 1)..(e - 1) : i \in 1..Len(file)
      BY <1>1 DEF n
    <3> QED BY <1>1, <3>1
  <2>3. /\ s \in Seq(Lines) /\ Len(s) = m + 1
        /\ \A i \in 1..(m + 1) : s[i] = file[b + 1 + i - 1]
    BY <2>1, <2>2, SubSeqProperties
  <2>4. t \in Seq(Lines) /\ Len(t) = m + 1
    <3>1. k \in Seq(Lines) /\ <<Blank>> \in Seq(Lines) /\ Len(<<Blank>>) = 1
      <4>1. Plain \subseteq Lines /\ Blank \in Lines
        BY DEF Plain, Lines
      <4>2. k \in Seq(Lines)
        BY <1>1, <4>1, SeqMonotonic
      <4> QED BY <4>1, <4>2
    <3> QED BY <3>1, ConcatProperties DEF m
  <2>5. ASSUME NEW i \in 1..(m + 1) PROVE s[i] = t[i]
    <3>1. i + 1 \in 1..(m + 3) /\ b + 1 + i - 1 = a + (i + 1)
      BY <1>1
    <3>2. s[i] = file[a + (i + 1)]
      BY <2>3, <3>1
    <3>3. file[a + (i + 1)] = Block(k)[i + 1]
      BY <1>1, <3>1
    <3> QED BY <1>2, <3>2, <3>3
  <2> HIDE DEF s, t
  <2>6. \A i \in 1..Len(s) : s[i] = t[i]
    BY <2>3, <2>5
  <2>7. s = t
    BY <2>3, <2>4, <2>6, SeqEqual
  <2> QED BY <2>7 DEF s, t
<1>8. b \in at(Begin) /\ e \in at(End)
  BY <1>6
<1> HIDE DEF b, e, at
<1>9. \E x \in at(Begin), y \in at(End) :
        at(Begin) = {x} /\ at(End) = {y} /\ SubSeq(file, x + 1, y - 1) = k \o <<Blank>>
  BY <1>6, <1>7, <1>8
<1> QED BY <1>9 DEF at

(* A line of the user may be lost: a run was cut short, or overtaken by a save. *)
Lost == torn \/ raced

(* The file has the block of k, or none, and while no line is lost the rest of
   it is m, what the user wrote. *)
Holds(file, k, m, cut) ==
  \E pre, post \in Seq(Plain) :
    /\ Around(file, pre, k, post)
    /\ ~cut => pre \in Seq(Mine) /\ post \in Seq(Mine) /\ m = pre \o post

(* The files, and the kernel of the last whole run. *)
FilesFit ==
  /\ mine \in Seq(Mine) /\ target \in Seq(Lines) /\ tmp \in Seq(Plain) /\ todo \in Seq(Lines)
  /\ corpus # None \/ pc = "resolve" => corpus.kernel \in Kernel
  /\ ran = None \/ Whole(ran)

(* A kernel is looked through before it is used. *)
KernelWhole ==
  /\ pc = "check" => kernel \in Kernel
  /\ pc \in {"filter", "truncate", "write"} => Whole(kernel)

(* Unless it is being written, the file has the block of the last run. *)
FileHolds == pc # "write" /\ (ran # None \/ ~Lost) => Holds(target, ran, mine, Lost)

(* The copy is what the user wrote, while no line is lost. *)
CopyHolds == pc \in {"truncate", "write"} => (~Lost => tmp = mine)

(* What is written and what is left to be written, unless the user has saved
   the file meanwhile. *)
WriteLeft ==
  /\ pc = "write" /\ ~aside => target \o todo = tmp \o Block(kernel)
  /\ aside => raced

BlockInductive == FilesFit /\ KernelWhole /\ FileHolds /\ CopyHolds /\ WriteLeft

LEMMA MinePlain ==
  ASSUME LinesApart
  PROVE  Mine \subseteq Plain /\ Plain \subseteq Lines
BY DEF LinesApart, Plain, Lines, Agents!Marker

(* A file without a block. *)
LEMMA HoldsMine ==
  ASSUME LinesApart, NEW m \in Seq(Mine), NEW cut
  PROVE  Holds(m, None, m, cut)
<1>1. m \in Seq(Plain) /\ m \in Seq(Lines)
  <2>1. Mine \subseteq Plain /\ Mine \subseteq Lines
    BY MinePlain
  <2> QED BY <2>1, SeqMonotonic
<1>2. <<>> \in Seq(Plain) /\ <<>> \in Seq(Mine)
  OBVIOUS
<1>3. m \o <<>> = m
  BY ConcatEmptySeq
<1>4. m = m \o Block(None) \o <<>>
  BY <1>3 DEF Block
<1>5. Around(m, m, None, <<>>)
  BY <1>1, <1>2, <1>4 DEF Around
<1> QED BY <1>1, <1>2, <1>3, <1>5 DEF Holds

(* An edit stays outside the block. *)
LEMMA HoldsEdit ==
  ASSUME LinesApart, NEW file, NEW k, NEW m \in Seq(Mine), NEW cut, Holds(file, k, m, cut),
         NEW u \in Mine
  PROVE  Holds(<<u>> \o file, k, <<u>> \o m, cut) /\ Holds(Append(file, u), k, Append(m, u), cut)
<1>1. PICK pre, post \in Seq(Plain) :
        /\ Around(file, pre, k, post)
        /\ ~cut => pre \in Seq(Mine) /\ post \in Seq(Mine) /\ m = pre \o post
  BY DEF Holds
<1> DEFINE B == Block(k)
           L == Lines
<1>2. pre \in Seq(L) /\ post \in Seq(L) /\ B \in Seq(L) /\ file = pre \o B \o post
  BY <1>1, AroundLines DEF Around
<1>3. u \in Plain /\ u \in L
  BY MinePlain
<1>4. <<u>> \in Seq(Mine) /\ <<u>> \in Seq(Plain) /\ <<u>> \in Seq(L)
  BY <1>3
<1>5. k = None \/ Whole(k)
  BY <1>1 DEF Around
<1> HIDE DEF B, L
<1>6. \A s, t, v \in Seq(L) : (s \o t) \o v = s \o (t \o v) /\ s \o t \in Seq(L)
  BY Regroup
<1>7. \A s, t, v \in Seq(Mine) : (s \o t) \o v = s \o (t \o v) /\ s \o t \in Seq(Mine)
  BY Regroup
<1>8. Holds(<<u>> \o file, k, <<u>> \o m, cut)
  <2> DEFINE p == <<u>> \o pre
  <2>1. p \in Seq(Plain)
    BY <1>1, <1>4, ConcatProperties
  <2>2. <<u>> \o file = p \o B \o post
    <3>1. pre \o B \in Seq(L) /\ (<<u>> \o pre) \o B = <<u>> \o (pre \o B)
      BY <1>2, <1>4, <1>6
    <3>2. (<<u>> \o (pre \o B)) \o post = <<u>> \o ((pre \o B) \o post)
      BY <1>2, <1>4, <1>6, <3>1
    <3> QED BY <1>2, <3>1, <3>2
  <2>3. ~cut => p \in Seq(Mine) /\ <<u>> \o m = p \o post
    <3> SUFFICES ASSUME ~cut PROVE p \in Seq(Mine) /\ <<u>> \o m = p \o post
      OBVIOUS
    <3>1. pre \in Seq(Mine) /\ post \in Seq(Mine) /\ m = pre \o post
      BY <1>1
    <3>2. (<<u>> \o pre) \o post = <<u>> \o (pre \o post) /\ <<u>> \o pre \in Seq(Mine)
      BY <1>4, <1>7, <3>1
    <3> QED BY <3>1, <3>2
  <2> HIDE DEF p
  <2>4. Around(<<u>> \o file, p, k, post)
    BY <1>1, <1>5, <2>1, <2>2 DEF Around, B
  <2> QED BY <1>1, <2>1, <2>3, <2>4 DEF Holds
<1>9. Holds(Append(file, u), k, Append(m, u), cut)
  <2> DEFINE q == post \o <<u>>
  <2>1. q \in Seq(Plain)
    BY <1>1, <1>4, ConcatProperties
  <2>2. Append(file, u) = pre \o B \o q
    <3>1. pre \o B \in Seq(L) /\ file \in Seq(L)
      BY <1>2, <1>6
    <3>2. Append(file, u) = file \o <<u>>
      BY <1>3, <3>1, AppendIsConcat
    <3>3. ((pre \o B) \o post) \o <<u>> = (pre \o B) \o (post \o <<u>>)
      <4>1. post \in Seq(L) /\ <<u>> \in Seq(L)
        BY <1>2, <1>4
      <4> QED BY <1>6, <3>1, <4>1
    <3> QED BY <1>2, <3>2, <3>3
  <2>3. ~cut => q \in Seq(Mine) /\ Append(m, u) = pre \o q
    <3> SUFFICES ASSUME ~cut PROVE q \in Seq(Mine) /\ Append(m, u) = pre \o q
      OBVIOUS
    <3>1. pre \in Seq(Mine) /\ post \in Seq(Mine) /\ m = pre \o post
      BY <1>1
    <3>2. (pre \o post) \o <<u>> = pre \o (post \o <<u>>) /\ post \o <<u>> \in Seq(Mine)
      BY <1>4, <1>7, <3>1
    <3>3. Append(m, u) = m \o <<u>>
      BY AppendIsConcat
    <3> QED BY <3>1, <3>2, <3>3
  <2> HIDE DEF q
  <2>4. Around(Append(file, u), pre, k, q)
    BY <1>1, <1>5, <2>1, <2>2 DEF Around, B
  <2> QED BY <1>1, <2>1, <2>3, <2>4 DEF Holds
<1> QED BY <1>8, <1>9

(* Whatever the file was, no marker is kept. *)
LEMMA KeptPlain ==
  ASSUME NEW file \in Seq(Lines)
  PROVE  Agents!Kept(file) \in Seq(Plain)
<1>1. PICK g \in [0..Len(file) -> Awk] : Agents!Kept(file) = g[Len(file)].out
  BY KeptFold
<1>2. Len(file) \in 0..Len(file)
  OBVIOUS
<1>3. g[Len(file)] \in Awk
  BY <1>2
<1> QED BY <1>1, <1>3 DEF Awk

LEMMA BlockStarts ==
  ASSUME LinesApart, Agents!Init
  PROVE  BlockInductive
<1> USE DEF Agents!Init
<1>1. mine \in Seq(Mine) /\ target = mine
  <2>1. CASE mine = <<>>
    BY <2>1
  <2>2. CASE \E u \in Mine : mine = <<u>>
    <3>1. PICK u \in Mine : mine = <<u>>
      BY <2>2
    <3> QED BY <3>1
  <2> QED BY <2>1, <2>2
<1>2. target \in Seq(Lines)
  <2>1. Mine \subseteq Lines
    BY MinePlain
  <2> QED BY <1>1, <2>1, SeqMonotonic
<1>3. FilesFit
  BY <1>1, <1>2 DEF FilesFit
<1>4. KernelWhole /\ CopyHolds /\ WriteLeft
  BY DEF KernelWhole, CopyHolds, WriteLeft
<1>5. FileHolds
  BY <1>1, HoldsMine DEF FileHolds
<1> QED BY <1>3, <1>4, <1>5 DEF BlockInductive

LEMMA BlockStep ==
  ASSUME LinesApart, BlockInductive, [Agents!Next]_Agents!vars
  PROVE  BlockInductive'
<1> USE DEF BlockInductive
<1>1. CASE \E k \in Kernel : Agents!Flip(k)
  <2>1. PICK k \in Kernel : Agents!Flip(k)
    BY <1>1
  <2> USE <2>1 DEF Agents!Flip, Agents!run
  <2>2. FilesFit'
    BY DEF FilesFit, Whole
  <2>3. KernelWhole' /\ CopyHolds' /\ WriteLeft'
    BY DEF KernelWhole, CopyHolds, WriteLeft, Lost, Whole, Block
  <2>4. FileHolds'
    BY DEF FileHolds, Lost, Holds, Around, Whole, Block
  <2> QED BY <2>2, <2>3, <2>4
<1>2. CASE \E u \in Mine : Agents!Edit(u)
  <2>1. PICK u \in Mine : Agents!Edit(u)
    BY <1>2
  <2>2. /\ \/ target' = <<u>> \o target /\ mine' = <<u>> \o mine
           \/ target' = Append(target, u) /\ mine' = Append(mine, u)
        /\ (aside' <=> pc = "write") /\ todo' \in {todo, <<>>}
        /\ raced' <=> raced \/ pc \in {"filter", "truncate", "write"}
        /\ UNCHANGED <<corpus, pc, kernel, tmp, ran, torn>>
    BY <2>1 DEF Agents!Edit
  <2>3. u \in Lines /\ <<u>> \in Seq(Mine) /\ <<u>> \in Seq(Lines)
    BY MinePlain
  <2>4. <<u>> \o mine \in Seq(Mine) /\ Append(mine, u) \in Seq(Mine)
    <3>1. mine \in Seq(Mine)
      BY DEF FilesFit
    <3> QED BY <2>3, <3>1, ConcatProperties, AppendProperties
  <2>5. <<u>> \o target \in Seq(Lines) /\ Append(target, u) \in Seq(Lines)
    <3>1. target \in Seq(Lines)
      BY DEF FilesFit
    <3> QED BY <2>3, <3>1, ConcatProperties, AppendProperties
  <2>6. FilesFit'
    <3>1. <<>> \in Seq(Lines)
      OBVIOUS
    <3>2. todo' \in Seq(Lines)
      BY <2>2, <3>1 DEF FilesFit
    <3> QED BY <2>2, <2>4, <2>5, <3>2 DEF FilesFit, Whole
  <2>7. KernelWhole' /\ CopyHolds' /\ WriteLeft'
    BY <2>2 DEF KernelWhole, CopyHolds, WriteLeft, Lost, Whole
  <2>8. FileHolds'
    <3> SUFFICES ASSUME pc # "write", ran # None \/ ~Lost' PROVE Holds(target, ran, mine, Lost)'
      BY <2>2 DEF FileHolds
    <3>1. Lost => Lost'
      BY <2>2 DEF Lost
    <3>2. Holds(target, ran, mine, Lost) /\ mine \in Seq(Mine)
      BY <3>1 DEF FileHolds, FilesFit
    <3>3. Holds(<<u>> \o target, ran, <<u>> \o mine, Lost)
          /\ Holds(Append(target, u), ran, Append(mine, u), Lost)
      BY <3>2, HoldsEdit
    <3>4. Holds(target', ran, mine', Lost)
      BY <2>2, <3>3
    <3> QED BY <2>2, <3>1, <3>4 DEF Holds, Around, Block, Whole
  <2> QED BY <2>6, <2>7, <2>8
<1>3. CASE Agents!ResolveRoot
  <2>1. /\ pc = "idle" /\ pc' = "resolve" /\ corpus # None
        /\ UNCHANGED <<corpus, target, kernel, tmp, todo, aside, mine, ran, torn, raced>>
    BY <1>3 DEF Agents!ResolveRoot
  <2>2. FilesFit'
    BY <2>1 DEF FilesFit, Whole
  <2>3. KernelWhole' /\ CopyHolds' /\ WriteLeft'
    BY <2>1 DEF KernelWhole, CopyHolds, WriteLeft
  <2>4. FileHolds'
    BY <2>1 DEF FileHolds, Lost, Holds, Around, Whole, Block
  <2> QED BY <2>2, <2>3, <2>4
<1>4. ASSUME Agents!Ends, pc # "write", UNCHANGED <<corpus, target, mine, ran, torn, raced>>
      PROVE  BlockInductive'
  <2>1. pc' = "idle" /\ tmp' = <<>> /\ todo' = <<>> /\ ~aside'
    BY <1>4 DEF Agents!Ends
  <2>2. FilesFit'
    BY <1>4, <2>1 DEF FilesFit, Whole
  <2>3. KernelWhole' /\ CopyHolds' /\ WriteLeft'
    BY <2>1 DEF KernelWhole, CopyHolds, WriteLeft
  <2>4. FileHolds'
    BY <1>4, <2>1 DEF FileHolds, Lost, Holds, Around, Whole, Block
  <2> QED BY <2>2, <2>3, <2>4
<1>5. CASE Agents!ResolveKernel
  <2>1. pc = "resolve" /\ UNCHANGED <<corpus, target, mine, ran, torn, raced>>
    BY <1>5 DEF Agents!ResolveKernel
  <2>2. CASE corpus.dir = root
    <3>1. pc' = "check" /\ kernel' = corpus.kernel /\ UNCHANGED <<tmp, todo, aside>>
      BY <1>5, <2>2 DEF Agents!ResolveKernel
    <3>2. FilesFit'
      BY <2>1, <3>1 DEF FilesFit, Whole
    <3>3. KernelWhole' /\ CopyHolds' /\ WriteLeft'
      BY <2>1, <3>1 DEF KernelWhole, CopyHolds, WriteLeft, FilesFit
    <3>4. FileHolds'
      BY <2>1, <3>1 DEF FileHolds, Lost, Holds, Around, Whole, Block
    <3> QED BY <3>2, <3>3, <3>4
  <2>3. CASE corpus.dir # root
    <3>1. Agents!Ends
      BY <1>5, <2>3 DEF Agents!ResolveKernel
    <3> QED BY <1>4, <2>1, <3>1
  <2> QED BY <2>2, <2>3
<1>6. CASE Agents!CheckKernel
  <2>1. pc = "check" /\ UNCHANGED <<corpus, target, mine, ran, torn, raced>>
    BY <1>6 DEF Agents!CheckKernel
  <2>2. CASE Range(kernel) \cap Agents!Marker = {}
    <3>1. pc' = "filter" /\ UNCHANGED <<kernel, tmp, todo, aside>>
      BY <1>6, <2>2 DEF Agents!CheckKernel, Agents!Held, Agents!Range, Range
    <3>2. FilesFit'
      BY <2>1, <3>1 DEF FilesFit, Whole
    <3>3. KernelWhole' /\ CopyHolds' /\ WriteLeft'
      BY <2>1, <2>2, <3>1 DEF KernelWhole, CopyHolds, WriteLeft, Whole
    <3>4. FileHolds'
      BY <2>1, <3>1 DEF FileHolds, Lost, Holds, Around, Whole, Block
    <3> QED BY <3>2, <3>3, <3>4
  <2>3. CASE Range(kernel) \cap Agents!Marker # {}
    <3>1. Agents!Ends
      BY <1>6, <2>3 DEF Agents!CheckKernel, Agents!Held, Agents!Range, Range
    <3> QED BY <1>4, <2>1, <3>1
  <2> QED BY <2>2, <2>3
<1>7. CASE Agents!Filter
  <2>1. /\ pc = "filter" /\ pc' = "truncate" /\ tmp' = Agents!Kept(target)
        /\ UNCHANGED <<corpus, target, kernel, todo, aside, mine, ran, torn, raced>>
    BY <1>7 DEF Agents!Filter
  <2>2. tmp' \in Seq(Plain)
    BY <2>1, KeptPlain DEF FilesFit
  <2>3. FilesFit'
    BY <2>1, <2>2 DEF FilesFit, Whole
  <2>4. KernelWhole' /\ WriteLeft'
    BY <2>1 DEF KernelWhole, WriteLeft, Whole
  <2>5. CopyHolds'
    <3> SUFFICES ASSUME ~Lost PROVE Agents!Kept(target) = mine
      BY <2>1 DEF CopyHolds, Lost
    <3>1. PICK pre, post \in Seq(Plain) : Around(target, pre, ran, post) /\ mine = pre \o post
      BY <2>1 DEF FileHolds, Holds
    <3> QED BY <3>1, KeptAround
  <2>6. FileHolds'
    BY <2>1 DEF FileHolds, Lost, Holds, Around, Whole, Block
  <2> QED BY <2>3, <2>4, <2>5, <2>6
<1>8. CASE Agents!Truncate
  <2>1. /\ pc = "truncate" /\ pc' = "write" /\ target' = <<>>
        /\ todo' = tmp \o <<Begin>> \o kernel \o <<Blank, End>>
        /\ UNCHANGED <<corpus, kernel, tmp, aside, mine, ran, torn, raced>>
    BY <1>8 DEF Agents!Truncate, Agents!Held
  <2>2. Whole(kernel) /\ tmp \in Seq(Plain)
    BY <2>1 DEF KernelWhole, FilesFit
  <2> DEFINE L == Lines
  <2>3. tmp \in Seq(L) /\ kernel \in Seq(L) /\ <<Begin>> \in Seq(L) /\ <<Blank, End>> \in Seq(L)
    <3>1. Plain \subseteq L /\ Begin \in L /\ Blank \in L /\ End \in L
      BY DEF Plain, Lines
    <3>2. kernel \in Seq(Plain)
      BY <2>2, BlockLines
    <3>3. tmp \in Seq(L) /\ kernel \in Seq(L)
      BY <2>2, <3>1, <3>2, SeqMonotonic
    <3> QED BY <3>1, <3>3
  <2>4. Block(kernel) = <<Begin>> \o kernel \o <<Blank, End>>
    <3>1. kernel # None
      BY <2>2 DEF Whole, LinesApart
    <3> QED BY <3>1 DEF Block
  <2> HIDE DEF L
  <2>5. todo' = tmp \o Block(kernel) /\ todo' \in Seq(L)
    <3>1. \A s, t, v \in Seq(L) : (s \o t) \o v = s \o (t \o v) /\ s \o t \in Seq(L)
      BY Regroup
    <3>2. (tmp \o <<Begin>>) \o kernel = tmp \o (<<Begin>> \o kernel) /\ <<Begin>> \o kernel \in Seq(L)
      BY <2>3, <3>1
    <3>3. (tmp \o (<<Begin>> \o kernel)) \o <<Blank, End>> = tmp \o ((<<Begin>> \o kernel) \o <<Blank, End>>)
          /\ (<<Begin>> \o kernel) \o <<Blank, End>> \in Seq(L)
      BY <2>3, <3>1, <3>2
    <3>4. tmp \o ((<<Begin>> \o kernel) \o <<Blank, End>>) \in Seq(L)
      BY <2>3, <3>1, <3>3
    <3> QED BY <2>1, <2>4, <3>2, <3>3, <3>4
  <2>6. FilesFit'
    BY <2>1, <2>5 DEF FilesFit, Whole, L
  <2>7. KernelWhole' /\ CopyHolds' /\ FileHolds'
    BY <2>1 DEF KernelWhole, CopyHolds, FileHolds, Lost, Whole
  <2>8. WriteLeft'
    <3>1. <<>> \o todo' = todo'
      BY <2>5, ConcatEmptySeq
    <3> QED BY <2>1, <2>5, <3>1 DEF WriteLeft, Block
  <2> QED BY <2>6, <2>7, <2>8
<1>9. CASE Agents!Write
  <2>1. /\ pc = "write" /\ todo # <<>> /\ todo' = Tail(todo)
        /\ target' = IF Agents!Place > Len(target) THEN Append(target, Head(todo))
                     ELSE [target EXCEPT ![Agents!Place] = Head(todo)]
        /\ UNCHANGED <<corpus, pc, kernel, tmp, aside, mine, ran, torn, raced>>
    BY <1>9 DEF Agents!Write
  <2> DEFINE L == Lines
             hd == Head(todo)
             tl == Tail(todo)
  <2>2. target \in Seq(L) /\ todo \in Seq(L)
    BY DEF FilesFit
  <2> HIDE DEF L
  <2>3. hd \in L /\ tl \in Seq(L)
    BY <2>1, <2>2, HeadTailProperties
  <2>4. todo = <<hd>> \o tl
    <3>1. Len(todo) \in Nat /\ Len(todo) # 0 /\ SubSeq(todo, 1, Len(todo)) = todo
      BY <2>1, <2>2, SubSeqFull, EmptySeq
    <3>2. 1 \in 1..Len(todo) /\ Len(todo) \in 1..Len(todo)
      BY <3>1
    <3>3. SubSeq(todo, 1, Len(todo)) = <<todo[1]>> \o SubSeq(todo, 2, Len(todo))
      <4>1. 1 + 1 = 2
        OBVIOUS
      <4> QED BY <2>2, <3>2, <4>1, SubSeqRecursiveFirst
    <3>4. tl = SubSeq(todo, 2, Len(todo))
      BY <2>1, <2>2, TailIsSubSeq
    <3>5. hd = todo[1]
      OBVIOUS
    <3> QED BY <3>1, <3>3, <3>4, <3>5
  <2> HIDE DEF hd, tl
  <2>5. /\ target' \in Seq(L) /\ <<hd>> \in Seq(L)
        /\ Agents!Place > Len(target) => target' = target \o <<hd>>
    <3>1. Append(target, hd) \in Seq(L) /\ Append(target, hd) = target \o <<hd>> /\ <<hd>> \in Seq(L)
      BY <2>2, <2>3, AppendProperties, AppendIsConcat
    <3>2. \A n : [target EXCEPT ![n] = hd] \in Seq(L)
      <4>1. ASSUME NEW n PROVE [target EXCEPT ![n] = hd] \in [1..Len(target) -> L]
        <5>1. target \in [1..Len(target) -> L]
          BY <2>2, LenProperties
        <5> QED BY <2>3, <5>1
      <4>2. Len(target) \in Nat
        BY <2>2, LenProperties
      <4> QED BY <4>1, <4>2, SeqDef
    <3> QED BY <2>1, <3>1, <3>2 DEF hd
  <2>6. ~aside => target' \o todo' = target \o todo
    <3> SUFFICES ASSUME ~aside PROVE target' \o todo' = target \o todo
      OBVIOUS
    <3>1. Agents!Place > Len(target)
      <4>1. Whole(kernel) /\ tmp \in Seq(Plain)
        BY <2>1 DEF KernelWhole, FilesFit
      <4>2. /\ kernel \in Seq(Plain) /\ Len(kernel) \in Nat
            /\ Block(kernel) \in Seq(L) /\ Len(Block(kernel)) = Len(kernel) + 3
        BY <4>1, BlockLines DEF L
      <4>3. tmp \in Seq(L)
        <5>1. Plain \subseteq L
          BY DEF Plain, L
        <5> QED BY <4>1, <5>1, SeqMonotonic
      <4>4. Len(target \o todo) = Len(target) + Len(todo)
            /\ Len(tmp \o Block(kernel)) = Len(tmp) + Len(Block(kernel))
        BY <2>2, <4>2, <4>3, ConcatProperties
      <4>5. target \o todo = tmp \o Block(kernel)
        BY <2>1 DEF WriteLeft
      <4>6. Len(target) \in Nat /\ Len(todo) \in Nat /\ Len(tmp) \in Nat
        BY <2>2, <4>3, LenProperties
      <4> QED BY <4>2, <4>4, <4>5, <4>6 DEF Agents!Place
    <3>2. (target \o <<hd>>) \o tl = target \o (<<hd>> \o tl)
      BY <2>2, <2>3, <2>5, ConcatAssociative
    <3> QED BY <2>1, <2>4, <2>5, <3>1, <3>2 DEF tl
  <2>7. FilesFit'
    BY <2>1, <2>3, <2>5 DEF FilesFit, Whole, L, tl
  <2>8. KernelWhole' /\ CopyHolds' /\ FileHolds'
    BY <2>1 DEF KernelWhole, CopyHolds, FileHolds, Lost, Whole
  <2>9. WriteLeft'
    BY <2>1, <2>6 DEF WriteLeft, Block
  <2> QED BY <2>7, <2>8, <2>9
<1>10. CASE Agents!Finish
  <2>1. /\ pc = "write" /\ pc' = "idle" /\ todo = <<>> /\ tmp' = <<>> /\ todo' = <<>> /\ ~aside'
        /\ ran' = (IF aside THEN None ELSE kernel)
        /\ UNCHANGED <<corpus, target, mine, torn, raced>>
    BY <1>10 DEF Agents!Finish, Agents!Ends
  <2>2. Whole(kernel)
    BY <2>1 DEF KernelWhole
  <2>3. FilesFit'
    BY <2>1, <2>2 DEF FilesFit, Whole
  <2>4. KernelWhole' /\ CopyHolds' /\ WriteLeft'
    BY <2>1 DEF KernelWhole, CopyHolds, WriteLeft
  <2>5. CASE aside
    <3>1. ran' = None /\ Lost'
      BY <2>1, <2>5 DEF WriteLeft, Lost
    <3> QED BY <2>3, <2>4, <3>1 DEF FileHolds
  <2>6. CASE ~aside
    <3>1. target = tmp \o Block(kernel) \o <<>> /\ tmp \in Seq(Plain)
      <4>1. target \o <<>> = target
        BY ConcatEmptySeq DEF FilesFit
      <4>2. target = tmp \o Block(kernel)
        BY <2>1, <2>6, <4>1 DEF WriteLeft
      <4> QED BY <4>1, <4>2 DEF FilesFit
    <3>2. Holds(target, kernel, mine, Lost)
      <4>1. <<>> \in Seq(Plain) /\ <<>> \in Seq(Mine)
        OBVIOUS
      <4>2. Around(target, tmp, kernel, <<>>)
        BY <2>2, <3>1, <4>1 DEF Around
      <4>3. ~Lost => tmp \in Seq(Mine) /\ mine = tmp \o <<>>
        <5>1. ~Lost => tmp = mine
          BY <2>1 DEF CopyHolds
        <5>2. mine \in Seq(Mine)
          BY DEF FilesFit
        <5> QED BY <5>1, <5>2, ConcatEmptySeq
      <4> QED BY <3>1, <4>1, <4>2, <4>3 DEF Holds
    <3>3. FileHolds'
      BY <2>1, <2>6, <3>2 DEF FileHolds, Lost, Holds, Around, Whole, Block
    <3> QED BY <2>3, <2>4, <3>3
  <2> QED BY <2>5, <2>6
<1>11. CASE Agents!Crash
  <2>1. CASE pc = "write"
    <3>1. pc' = "idle" /\ tmp' = <<>> /\ todo' = <<>> /\ ran' = None /\ torn' /\ ~aside'
          /\ UNCHANGED <<corpus, target, mine, raced>>
      BY <1>11, <2>1 DEF Agents!Crash, Agents!Ends
    <3>2. FilesFit'
      BY <2>1, <3>1 DEF FilesFit, Whole
    <3>3. KernelWhole' /\ CopyHolds' /\ WriteLeft' /\ FileHolds'
      BY <3>1 DEF KernelWhole, CopyHolds, WriteLeft, FileHolds, Lost
    <3> QED BY <3>2, <3>3
  <2>2. CASE pc # "write"
    <3>1. Agents!Ends /\ ran' = ran /\ (torn' <=> torn) /\ UNCHANGED <<corpus, target, mine, raced>>
      BY <1>11, <2>2 DEF Agents!Crash
    <3>2. pc' = "idle" /\ tmp' = <<>> /\ todo' = <<>> /\ ~aside'
      BY <3>1 DEF Agents!Ends
    <3>3. FilesFit'
      BY <2>2, <3>1, <3>2 DEF FilesFit, Whole
    <3>4. KernelWhole' /\ CopyHolds' /\ WriteLeft'
      BY <3>2 DEF KernelWhole, CopyHolds, WriteLeft
    <3>5. FileHolds'
      BY <2>2, <3>1, <3>2 DEF FileHolds, Lost, Holds, Around, Whole, Block
    <3> QED BY <3>3, <3>4, <3>5
  <2> QED BY <2>1, <2>2
<1>12. CASE UNCHANGED Agents!vars
  <2>1. UNCHANGED <<corpus, target, pc, root, kernel, tmp, todo, aside, mine, ran, torn, raced>>
    BY <1>12 DEF Agents!vars, Agents!run
  <2> QED BY <2>1 DEF FilesFit, KernelWhole, FileHolds, CopyHolds, WriteLeft, Lost, Holds, Around, Whole, Block
<1> QED BY <1>1, <1>2, <1>3, <1>5, <1>6, <1>7, <1>8, <1>9, <1>10, <1>11, <1>12
        DEF Agents!Next, Agents!Run

LEMMA BlockHolds ==
  ASSUME LinesApart, BlockInductive
  PROVE  BlockInvariant
<1>1. Agents!OutsideUntouched
  <2> SUFFICES ASSUME pc = "idle", ~Lost PROVE Agents!Outside(target) = mine
    BY DEF Agents!OutsideUntouched, Agents!Untouched, Lost
  <2>1. PICK pre, post \in Seq(Plain) :
          /\ Around(target, pre, ran, post)
          /\ pre \in Seq(Mine) /\ post \in Seq(Mine) /\ mine = pre \o post
    BY DEF BlockInductive, FileHolds, Holds
  <2> QED BY <2>1, OutsideAround
<1>2. Agents!OneWholeBlock
  <2> SUFFICES ASSUME pc = "idle", ran # None
               PROVE  LET at(l) == {i \in DOMAIN target : target[i] = l}
                      IN  \E b \in at(Begin), e \in at(End) :
                            /\ at(Begin) = {b} /\ at(End) = {e}
                            /\ SubSeq(target, b + 1, e - 1) = ran \o <<Blank>>
    BY DEF Agents!OneWholeBlock
  <2>1. PICK pre, post \in Seq(Plain) : Around(target, pre, ran, post)
    BY DEF BlockInductive, FileHolds, Holds
  <2>2. Whole(ran)
    BY DEF BlockInductive, FilesFit
  <2> QED BY <2>1, <2>2, WholeAround
<1> QED BY <1>1, <1>2 DEF BlockInvariant, Agents!BlockInvariant

(* update-agents-md.sh loses and moves no line of the user unless it is killed
   in the middle of a write or the user saves the file between its reading and
   its last write, and whenever it ends without such a save it leaves one whole
   block, whatever runs and saves came before (OutsideUntouched,
   OneWholeBlock). *)
THEOREM UserLinesStay ==
  ASSUME LinesApart
  PROVE  Agents!Spec => []BlockInvariant
<1>1. Agents!Init => BlockInductive
  BY BlockStarts
<1>2. BlockInductive /\ [Agents!Next]_Agents!vars => BlockInductive'
  BY BlockStep
<1>3. BlockInductive => BlockInvariant
  BY BlockHolds
<1> QED BY <1>1, <1>2, <1>3, PTL DEF Agents!Spec

-----------------------------------------------------------------------------
(* The tree of a release, for every manifest and archive. *)

(* Elements of paths; those of documents' paths are none of "", "." and "..". *)
Elem ==
  {"home", "releases", ".tmp", "corpus"} \cup (UNION {Range(p) : p \in Name})
    \cup Collection \cup {Last(f) \o ".md" : f \in Family}
AnyPath == Seq(Elem) \ {<<>>}
Plainly == Elem \ {"", ".", ".."}

PathsFit ==
  /\ MaxDoc \in Nat
  /\ \A p \in Name \cup Family : p \in Seq(Range(p)) /\ p # <<>>
  /\ Collection \cap {"", ".", ".."} = {}
  /\ \A f \in Family : Ident(f) => (Last(f) \o ".md") \notin {"", ".", ".."}
  /\ Range(Dest) \cap Long = {}

(* An element after the elements filepath.Clean has kept. *)
Down(done, e) ==
  IF e \in {"", "."} THEN done
  ELSE IF e # ".." THEN Append(done, e)
  ELSE IF done = <<>> THEN <<>> ELSE Front(done)

(* All but the last element. *)
LEMMA FrontFacts ==
  ASSUME NEW S, NEW s \in Seq(S), s # <<>>
  PROVE  /\ Front(s) \in Seq(S) /\ Len(Front(s)) = Len(s) - 1 /\ Len(s) \in Nat \ {0}
         /\ \A i \in 1..(Len(s) - 1) : Front(s)[i] = s[i]
<1>1. Len(s) \in Nat /\ Len(s) # 0
  BY EmptySeq
<1>2. \A i \in 1..(Len(s) - 1) : s[i] \in S
  BY <1>1
<1>3. /\ SubSeq(s, 1, Len(s) - 1) \in Seq(S)
      /\ Len(SubSeq(s, 1, Len(s) - 1)) = IF 1 <= Len(s) - 1 THEN Len(s) - 1 - 1 + 1 ELSE 0
      /\ \A i \in 1..(Len(s) - 1 - 1 + 1) : SubSeq(s, 1, Len(s) - 1)[i] = s[1 + i - 1]
  <2>1. 1 \in Int /\ Len(s) - 1 \in Int
    BY <1>1
  <2> QED BY <1>2, <2>1, SubSeqProperties
<1>4. Len(Front(s)) = Len(s) - 1
  <2>1. Front(s) = SubSeq(s, 1, Len(s) - 1)
    BY DEF Front
  <2>2. CASE Len(s) = 1
    <3>1. ~(1 <= Len(s) - 1) /\ Len(s) - 1 = 0
      BY <2>2
    <3> QED BY <1>3, <2>1, <3>1
  <2>3. CASE Len(s) # 1
    <3>1. \A n \in Nat : n # 0 /\ n # 1 => 1 <= n - 1 /\ n - 1 - 1 + 1 = n - 1
      OBVIOUS
    <3>2. 1 <= Len(s) - 1 /\ Len(s) - 1 - 1 + 1 = Len(s) - 1
      BY <1>1, <2>3, <3>1
    <3> QED BY <1>3, <2>1, <3>2
  <2> QED BY <2>2, <2>3
<1>5. ASSUME NEW i \in 1..(Len(s) - 1) PROVE Front(s)[i] = s[i]
  <2>1. i \in 1..(Len(s) - 1 - 1 + 1) /\ 1 + i - 1 = i
    BY <1>1
  <2> QED BY <1>3, <2>1 DEF Front
<1> QED BY <1>1, <1>3, <1>4, <1>5 DEF Front

(* Clean is the last of what is kept on the way. *)
LEMMA CleanFold ==
  ASSUME NEW path \in Seq(Elem)
  PROVE  \E g \in [0..Len(path) -> Seq(Elem)] :
           /\ g[0] = <<>>
           /\ \A k \in 1..Len(path) : g[k] = Down(g[k - 1], path[k])
           /\ Clean(path) = g[Len(path)]
<1> DEFINE V == Seq(Elem)
           n == Len(path)
           F == [p \in (1..n) \X V |-> Down(p[2], path[p[1]])]
           Eq(f) == f = [s \in SUBSET (1..n) |->
                     IF s = {} THEN <<>>
                     ELSE Down(f[s \ {Max(s)}], path[Max(s)])]
<1>1. n \in Nat /\ DOMAIN path = 1..n /\ <<>> \in V
  OBVIOUS
<1>2. Clean(path) = (CHOOSE f : Eq(f))[1..n]
  BY <1>1 DEF Clean, FoldLeft, MapThenFoldSet, Max, Down
<1>3. ASSUME NEW s \in V, NEW e \in Elem PROVE Down(s, e) \in V
  <2>1. CASE e \in {"", "."}
    BY <2>1 DEF Down
  <2>2. CASE e \notin {"", "."} /\ e # ".."
    <3>1. Append(s, e) \in V
      BY AppendProperties
    <3> QED BY <2>2, <3>1 DEF Down
  <2>3. CASE e = ".." /\ s = <<>>
    BY <2>3 DEF Down
  <2>4. CASE e = ".." /\ s # <<>>
    BY <2>4, FrontFacts DEF Down
  <2> QED BY <2>1, <2>2, <2>3, <2>4
<1>4. \A k \in 1..n : path[k] \in Elem
  BY <1>1
<1>5. F \in [(1..n) \X V -> V]
  <2> HIDE DEF V, n
  <2> QED BY <1>3, <1>4
<1> HIDE DEF F, n, V
<1>6. PICK f \in [SUBSET (1..n) -> V] : IsFold(f, n, <<>>, F)
  BY <1>1, <1>5, FoldExists
<1>7. Eq(f)
  <2>1. ASSUME NEW s \in SUBSET (1..n), s # {}
        PROVE  F[<<Max(s), f[s \ {Max(s)}]>>] = Down(f[s \ {Max(s)}], path[Max(s)])
    <3>1. Max(s) \in 1..n
      BY <1>1, <2>1, MaxIn
    <3>2. f[s \ {Max(s)}] \in V
      BY <1>6
    <3> QED BY <3>1, <3>2 DEF F
  <2> QED BY <1>6, <2>1 DEF IsFold
<1> DEFINE h == CHOOSE f_1 : Eq(f_1)
<1>8. Eq(h)
  <2> HIDE DEF Eq
  <2> QED BY <1>7
<1>9. Clean(path) = h[1..n]
  BY <1>2
<1> HIDE DEF h
<1>10. h[{}] = <<>>
  BY <1>8
<1>11. ASSUME NEW k \in 1..n PROVE h[1..k] = Down(h[1..(k - 1)], path[k])
  <2>1. 1..k \in SUBSET (1..n) /\ 1..k # {} /\ (1..k) \ {k} = 1..(k - 1) /\ Max(1..k) = k
    BY <1>1, Upto
  <2> QED BY <1>8, <2>1
<1>12. Runs(h, n, <<>>, V)
  <2>1. \A k \in 1..n : h[1..(k - 1)] \in V => h[1..k] \in V
    BY <1>4, <1>11, <1>3
  <2> QED BY <1>10, <2>1 DEF Runs
<1>13. PICK g \in [0..n -> V] : Trace(g, h, n, <<>>)
  BY <1>1, <1>12, Running
<1>14. /\ g[0] = <<>> /\ g[n] = h[1..n]
       /\ \A k \in 1..n : g[k] = Down(g[k - 1], path[k])
  BY <1>11, <1>13 DEF Trace
<1> QED BY <1>9, <1>13, <1>14 DEF n, V

LEMMA CleanPath ==
  ASSUME NEW path \in Seq(Elem)
  PROVE  Clean(path) \in Seq(Elem)
<1>1. PICK g \in [0..Len(path) -> Seq(Elem)] : Clean(path) = g[Len(path)]
  BY CleanFold
<1>2. Len(path) \in 0..Len(path)
  OBVIOUS
<1> QED BY <1>1, <1>2

(* A path that has no ".", no ".." and no empty element is clean. *)
LEMMA CleanPlain ==
  ASSUME NEW path \in Seq(Plainly)
  PROVE  Clean(path) = path
<1> DEFINE n == Len(path)
<1>1. path \in Seq(Elem) /\ n \in Nat
  <2>1. Plainly \subseteq Elem
    BY DEF Plainly
  <2>2. path \in Seq(Elem)
    BY <2>1, SeqMonotonic
  <2> QED BY <2>2
<1>2. PICK g \in [0..n -> Seq(Elem)] :
        /\ g[0] = <<>>
        /\ \A k \in 1..n : g[k] = Down(g[k - 1], path[k])
        /\ Clean(path) = g[n]
  BY <1>1, CleanFold
<1> DEFINE Good == {k \in 0..n : g[k] = SubSeq(path, 1, k)}
<1>3. 0 \in Good
  <2>1. 0 \in 0..n /\ SubSeq(path, 1, 0) = <<>>
    BY <1>1, SubSeqEmpty
  <2> QED BY <1>2, <2>1
<1>4. ASSUME NEW k \in 1..n, k - 1 \in Good PROVE k \in Good
  <2>1. k \in 0..n /\ g[k - 1] = SubSeq(path, 1, k - 1) /\ path[k] \in Plainly
    BY <1>1, <1>4
  <2>2. g[k] = Append(g[k - 1], path[k])
    BY <1>2, <2>1 DEF Down, Plainly
  <2>3. SubSeq(path, 1, k) = SubSeq(path, 1, k - 1) \o <<path[k]>>
    <3>1. 1 \in 1..Len(path) /\ k \in 1..Len(path)
      BY <1>1
    <3> QED BY <3>1, SubSeqRecursiveSecond
  <2>4. SubSeq(path, 1, k - 1) \in Seq(Plainly)
    OBVIOUS
  <2>5. Append(SubSeq(path, 1, k - 1), path[k]) = SubSeq(path, 1, k - 1) \o <<path[k]>>
    BY <2>1, <2>4, AppendIsConcat
  <2> QED BY <2>1, <2>2, <2>3, <2>5
<1>5. n \in Good
  <2>1. n \in 0..n
    BY <1>1
  <2> HIDE DEF Good, n
  <2> QED BY <1>1, <1>3, <1>4, <2>1, Induction
<1>6. SubSeq(path, 1, n) = path
  BY SubSeqFull
<1> QED BY <1>2, <1>5, <1>6

(* The paths of the model. *)
LEMMA DestFacts ==
  /\ Dest \in Seq(Plainly) /\ Dest \in Seq(Elem) /\ Len(Dest) = 3
  /\ Dest[1] = "home" /\ Dest[2] = "releases" /\ Dest[3] = ".tmp"
  /\ Front(Dest) = <<"home", "releases">> /\ Corpus = <<"home", "corpus">> /\ Home = <<"home">>
<1> DEFINE d == <<"home", "releases", ".tmp">>
<1>1. d \in Seq(Plainly) /\ d \in Seq(Elem) /\ Len(d) = 3
      /\ d[1] = "home" /\ d[2] = "releases" /\ d[3] = ".tmp"
  <2>1. {"home", "releases", ".tmp"} \subseteq Plainly /\ {"home", "releases", ".tmp"} \subseteq Elem
    BY DEF Plainly, Elem
  <2>2. \A S : \A x, y, z \in S : <<x, y, z>> \in Seq(S) /\ Len(<<x, y, z>>) = 3
    OBVIOUS
  <2> QED BY <2>1, <2>2
<1>2. <<"home">> \in Seq(Elem) /\ <<"releases", ".tmp">> \in Seq(Elem) /\ <<"corpus">> \in Seq(Elem)
      /\ Len(<<"home">>) = 1 /\ Len(<<"releases", ".tmp">>) = 2 /\ Len(<<"corpus">>) = 1
  <2>1. {"home", "releases", ".tmp", "corpus"} \subseteq Elem
    BY DEF Elem
  <2>2. \A S : \A x, y \in S : <<x>> \in Seq(S) /\ <<x, y>> \in Seq(S) /\ Len(<<x>>) = 1 /\ Len(<<x, y>>) = 2
    OBVIOUS
  <2> QED BY <2>1, <2>2
<1>3. Dest = d
  <2>1. Dest = <<"home">> \o <<"releases", ".tmp">>
    BY DEF Dest, Home
  <2>2. Dest \in Seq(Elem) /\ Len(Dest) = 3
        /\ \A i \in 1..3 : Dest[i] = IF i <= 1 THEN <<"home">>[i] ELSE <<"releases", ".tmp">>[i - 1]
    BY <1>2, <2>1, ConcatProperties
  <2>3. \A i \in 1..3 : Dest[i] = d[i]
    BY <2>2
  <2> HIDE DEF d
  <2> QED BY <1>1, <2>2, <2>3, SeqEqual
<1>4. Front(d) = <<"home", "releases">>
  <2> DEFINE e == <<"home", "releases">>
  <2>1. e \in Seq(Elem) /\ Len(e) = 2
    <3>1. "home" \in Elem /\ "releases" \in Elem
      BY DEF Elem
    <3> QED BY <3>1
  <2>2. Front(d) \in Seq(Elem) /\ Len(Front(d)) = 2 /\ \A i \in 1..2 : Front(d)[i] = d[i]
    <3>1. d # <<>>
      OBVIOUS
    <3> HIDE DEF d
    <3>2. Len(d) - 1 = 2
      BY <1>1
    <3>3. /\ Front(d) \in Seq(Elem) /\ Len(Front(d)) = Len(d) - 1
          /\ \A i \in 1..(Len(d) - 1) : Front(d)[i] = d[i]
      BY <1>1, <3>1, FrontFacts
    <3> QED BY <3>2, <3>3
  <2>3. \A i \in 1..2 : Front(d)[i] = e[i]
    BY <2>2
  <2> HIDE DEF d, e
  <2>4. Front(d) = e
    BY <2>1, <2>2, <2>3, SeqEqual
  <2> QED BY <2>4 DEF e
<1>5. Corpus = <<"home", "corpus">>
  <2> DEFINE e == <<"home", "corpus">>
  <2>1. e \in Seq(Elem) /\ Len(e) = 2
    <3>1. "home" \in Elem /\ "corpus" \in Elem
      BY DEF Elem
    <3> QED BY <3>1
  <2>2. Corpus \in Seq(Elem) /\ Len(Corpus) = 2
        /\ \A i \in 1..2 : Corpus[i] = IF i <= 1 THEN <<"home">>[i] ELSE <<"corpus">>[i - 1]
    <3>1. Corpus = <<"home">> \o <<"corpus">>
      BY DEF Corpus, Home
    <3> QED BY <1>2, <3>1, ConcatProperties
  <2>3. \A i \in 1..2 : Corpus[i] = e[i]
    BY <2>2
  <2> HIDE DEF e
  <2>4. Corpus = e
    BY <2>1, <2>2, <2>3, SeqEqual
  <2> QED BY <2>4 DEF e
<1>6. Front(Dest) = <<"home", "releases">>
  <2> HIDE DEF d
  <2> QED BY <1>3, <1>4
<1> QED BY <1>1, <1>3, <1>5, <1>6 DEF Home

(* To be under the temporary directory is to begin with its elements. *)
LEMMA PrefixDest ==
  ASSUME NEW t \in Seq(Elem)
  PROVE  IsPrefix(Dest, t) <=> Len(t) >= 3 /\ t[1] = "home" /\ t[2] = "releases" /\ t[3] = ".tmp"
<1> DEFINE n == Len(t)
           s == SubSeq(t, 1, 3)
<1>1. n \in Nat
  OBVIOUS
<1>2. IsPrefix(Dest, t) <=> 3 <= n /\ Dest = s
  <2>1. SubSeq(Dest, 1, 3) = Dest
    BY DestFacts, SubSeqFull
  <2>2. Len(Dest) = 3
    BY DestFacts
  <2> QED BY <2>1, <2>2 DEF IsPrefix
<1>3. ASSUME 3 <= n
      PROVE  s \in Seq(Elem) /\ Len(s) = 3 /\ \A i \in 1..3 : s[i] = t[i]
  <2>1. \A i \in 1..3 : t[i] \in Elem
    BY <1>1, <1>3
  <2>2. /\ s \in Seq(Elem)
        /\ Len(s) = IF 1 <= 3 THEN 3 - 1 + 1 ELSE 0
        /\ \A i \in 1..(3 - 1 + 1) : s[i] = t[1 + i - 1]
    <3>1. 1 \in Int /\ 3 \in Int
      OBVIOUS
    <3> HIDE DEF n
    <3> QED BY <2>1, <3>1, SubSeqProperties
  <2>3. Len(s) = 3
    BY <2>2
  <2>4. ASSUME NEW i \in 1..3 PROVE s[i] = t[i]
    <3>1. i \in 1..(3 - 1 + 1) /\ 1 + i - 1 = i
      OBVIOUS
    <3> QED BY <2>2, <3>1
  <2> QED BY <2>2, <2>3, <2>4
<1> HIDE DEF s
<1>4. 3 <= n => (Dest = s <=> t[1] = "home" /\ t[2] = "releases" /\ t[3] = ".tmp")
  <2> SUFFICES ASSUME 3 <= n PROVE Dest = s <=> t[1] = "home" /\ t[2] = "releases" /\ t[3] = ".tmp"
    OBVIOUS
  <2>1. s[1] = t[1] /\ s[2] = t[2] /\ s[3] = t[3] /\ s \in Seq(Elem) /\ Len(s) = 3
    BY <1>3
  <2>2. ASSUME t[1] = "home", t[2] = "releases", t[3] = ".tmp" PROVE Dest = s
    <3>1. \A i \in 1..3 : Dest[i] = s[i]
      <4>1. \A i \in 1..3 : i = 1 \/ i = 2 \/ i = 3
        OBVIOUS
      <4> QED BY <2>1, <2>2, <4>1, DestFacts
    <3>2. Dest \in Seq(Elem) /\ Len(Dest) = 3
      BY DestFacts
    <3> QED BY <2>1, <3>1, <3>2, SeqEqual
  <2>3. ASSUME Dest = s PROVE t[1] = "home" /\ t[2] = "releases" /\ t[3] = ".tmp"
    BY <2>1, <2>3, DestFacts
  <2> QED BY <2>2, <2>3
<1> QED BY <1>1, <1>2, <1>4

LEMMA NamesFit ==
  ASSUME PathsFit
  PROVE  Name \subseteq AnyPath
<1> SUFFICES ASSUME NEW p \in Name PROVE p \in Seq(Elem) /\ p # <<>>
  BY DEF AnyPath
<1>1. p \in Seq(Range(p)) /\ p # <<>>
  BY DEF PathsFit
<1>2. Range(p) \subseteq Elem
  <2>1. Range(p) \subseteq UNION {Range(q) : q \in Name}
    OBVIOUS
  <2> QED BY <2>1 DEF Elem
<1> QED BY <1>1, <1>2, SeqMonotonic

(* A name that is not refused leads under the temporary directory. *)
LEMMA TargetFits ==
  ASSUME NEW name \in AnyPath
  PROVE  Target(name) \in Seq(Elem) /\ (~Refused(name) => IsPrefix(Dest, Target(name)))
<1>1. name \in Seq(Elem)
  BY DEF AnyPath
<1>2. Dest \o name \in Seq(Elem)
  BY <1>1, DestFacts, ConcatProperties
<1> QED BY <1>2, CleanPath DEF Target, Refused

(* The names of served documents, and where they go. *)
LEMMA ServedFits ==
  ASSUME PathsFit, NEW p \in ServedPath
  PROVE  /\ p \in AnyPath /\ p \in Seq(Elem) /\ ~Refused(p)
         /\ Target(p) = Dest \o p /\ Target(p) \in Seq(Elem) /\ Len(Target(p)) = 5
         /\ IsPrefix(Dest, Target(p))
<1>1. PICK c \in Collection, f \in Family : Ident(f) /\ p = DocPath(c, f)
  BY DEF ServedPath
<1> DEFINE l == Last(f) \o ".md"
<1>2. c \in Plainly /\ l \in Plainly
  BY <1>1 DEF PathsFit, Plainly, Elem
<1>3. Front(f) = <<>>
  <2>1. f \in Seq(Range(f)) /\ f # <<>> /\ Len(f) = 1
    BY <1>1 DEF PathsFit, Ident
  <2>2. Front(f) \in Seq(Range(f)) /\ Len(Front(f)) = 0
    BY <2>1, FrontFacts
  <2> QED BY <2>2, EmptySeq
<1> HIDE DEF l
<1>4. p = <<c, l>>
  <2>1. p = <<c>> \o <<>> \o <<l>>
    BY <1>1, <1>3 DEF DocPath, l
  <2>2. <<c>> \in Seq(Plainly) /\ <<l>> \in Seq(Plainly) /\ <<c>> \o <<>> = <<c>>
    BY <1>2, ConcatEmptySeq
  <2>3. <<c>> \o <<l>> = <<c, l>>
    <3>1. <<c, l>> \in Seq(Plainly) /\ Len(<<c, l>>) = 2 /\ Len(<<c>>) = 1 /\ Len(<<l>>) = 1
      BY <1>2
    <3>2. /\ <<c>> \o <<l>> \in Seq(Plainly) /\ Len(<<c>> \o <<l>>) = 2
          /\ \A i \in 1..2 : (<<c>> \o <<l>>)[i] = IF i <= 1 THEN <<c>>[i] ELSE <<l>>[i - 1]
      BY <2>2, <3>1, ConcatProperties
    <3>3. \A i \in 1..2 : (<<c>> \o <<l>>)[i] = <<c, l>>[i]
      BY <3>2
    <3> QED BY <3>1, <3>2, <3>3, SeqEqual
  <2> QED BY <2>1, <2>2, <2>3
<1>5. /\ p \in Seq(Plainly) /\ Len(p) = 2 /\ p[1] = c /\ p[2] = l /\ p # <<>> /\ p # <<"">>
      /\ DOMAIN p = 1..2
  <2>1. \A S : \A x, y \in S : <<x, y>> \in Seq(S) /\ Len(<<x, y>>) = 2 /\ DOMAIN <<x, y>> = 1..2
    OBVIOUS
  <2>2. p \in Seq(Plainly) /\ Len(p) = 2 /\ p[1] = c /\ p[2] = l /\ DOMAIN p = 1..2
    BY <1>2, <1>4, <2>1
  <2>3. \A x : Len(<<>>) = 0 /\ Len(<<x>>) = 1
    OBVIOUS
  <2>4. p # <<>>
    <3> SUFFICES ASSUME p = <<>> PROVE FALSE
      OBVIOUS
    <3> QED BY <2>2, <2>3
  <2>5. p # <<"">>
    <3>1. Len(<<"">>) = 1
      OBVIOUS
    <3>2. Len(p) = 2
      BY <2>2
    <3>3. Len(p) # Len(<<"">>)
      BY <3>1, <3>2
    <3> QED BY <3>3
  <2> QED BY <2>2, <2>4, <2>5
<1>6. p \in Seq(Elem)
  <2>1. Plainly \subseteq Elem
    BY DEF Plainly
  <2> QED BY <1>5, <2>1, SeqMonotonic
<1>7. Dest \o p \in Seq(Plainly) /\ Dest \o p \in Seq(Elem) /\ Len(Dest \o p) = 5
      /\ \A i \in 1..5 : (Dest \o p)[i] = IF i <= 3 THEN Dest[i] ELSE p[i - 3]
  <2>1. Dest \in Seq(Plainly) /\ Dest \in Seq(Elem) /\ Len(Dest) = 3
    BY DestFacts
  <2>2. Dest \o p \in Seq(Plainly)
    BY <1>5, <2>1, ConcatProperties
  <2>3. /\ Dest \o p \in Seq(Elem) /\ Len(Dest \o p) = Len(Dest) + Len(p)
        /\ \A i \in 1..(Len(Dest) + Len(p)) :
             (Dest \o p)[i] = IF i <= Len(Dest) THEN Dest[i] ELSE p[i - Len(Dest)]
    BY <1>6, <2>1, ConcatProperties
  <2>4. Len(Dest) + Len(p) = 5
    <3>1. Len(Dest) = 3 /\ Len(p) = 2
      BY <1>5, <2>1
    <3> QED BY <3>1
  <2> QED BY <2>1, <2>2, <2>3, <2>4
<1>8. Target(p) = Dest \o p
  BY <1>7, CleanPlain DEF Target
<1>9. IsPrefix(Dest, Target(p))
  <2>1. (Dest \o p)[1] = "home" /\ (Dest \o p)[2] = "releases" /\ (Dest \o p)[3] = ".tmp"
    BY <1>7, DestFacts
  <2>2. Dest \o p \in Seq(Elem) /\ Len(Dest \o p) >= 3
    BY <1>7
  <2>3. IsPrefix(Dest, Dest \o p)
    BY <2>1, <2>2, PrefixDest
  <2> QED BY <1>8, <2>3
<1>10. ~Refused(p)
  <2>1. Head(p) # ""
    <3>1. Head(p) = p[1]
      OBVIOUS
    <3>2. c # ""
      BY <1>2 DEF Plainly
    <3> QED BY <1>5, <3>1, <3>2
  <2>2. ".." \notin Range(p)
    <3>1. \A i \in 1..2 : i \in 1..Len(p)
      BY <1>5
    <3>2. \A i \in 1..2 : p[i] \in Plainly
      BY <1>5, <3>1, ElementOfSeq
    <3>3. ".." \notin Plainly
      BY DEF Plainly
    <3> QED BY <1>5, <3>2, <3>3 DEF Range
  <2> QED BY <1>5, <1>9, <2>1, <2>2 DEF Refused
<1> QED BY <1>5, <1>6, <1>7, <1>8, <1>9, <1>10 DEF AnyPath

(* The first elements of a path. *)
LEMMA UpTo ==
  ASSUME NEW t \in Seq(Elem), NEW n \in 0..Len(t)
  PROVE  /\ SubSeq(t, 1, n) \in Seq(Elem) /\ Len(SubSeq(t, 1, n)) = n
         /\ \A i \in 1..n : SubSeq(t, 1, n)[i] = t[i]
<1>1. Len(t) \in Nat
  OBVIOUS
<1>2. \A i \in 1..n : t[i] \in Elem
  <2>1. \A i \in 1..n : i \in 1..Len(t)
    BY <1>1
  <2> QED BY <2>1, ElementOfSeq
<1>3. /\ SubSeq(t, 1, n) \in Seq(Elem)
      /\ Len(SubSeq(t, 1, n)) = IF 1 <= n THEN n - 1 + 1 ELSE 0
      /\ \A i \in 1..(n - 1 + 1) : SubSeq(t, 1, n)[i] = t[1 + i - 1]
  <2>1. 1 \in Int /\ n \in Int
    BY <1>1
  <2> QED BY <1>2, <2>1, SubSeqProperties
<1>4. Len(SubSeq(t, 1, n)) = n
  <2>1. n = 0 \/ 1 <= n
    BY <1>1
  <2> QED BY <1>1, <1>3, <2>1
<1>5. ASSUME NEW i \in 1..n PROVE SubSeq(t, 1, n)[i] = t[i]
  <2>1. i \in 1..(n - 1 + 1) /\ 1 + i - 1 = i
    BY <1>1
  <2> QED BY <1>3, <2>1
<1> QED BY <1>3, <1>4, <1>5

(* The directories above the temporary one. *)
Above == {<<>>, Home, Front(Dest)}

(* The directories above a target are under the temporary directory, or are
   the ones above it. *)
LEMMA ParentsFit ==
  ASSUME NEW t \in Seq(Elem), IsPrefix(Dest, t), NEW p \in Parents(t)
  PROVE  /\ p \in Seq(Elem) /\ Len(p) \in Nat /\ Len(p) < Len(t)
         /\ p \in Above \/ (Len(p) >= 3 /\ IsPrefix(Dest, p))
         /\ p # <<>> => Front(p) \in Parents(t)
<1>1. PICK n \in 0..(Len(t) - 1) : p = SubSeq(t, 1, n)
  BY DEF Parents
<1>2. Len(t) \in Nat /\ n \in Nat /\ n < Len(t) /\ n \in 0..Len(t)
  BY <1>1
<1>3. p \in Seq(Elem) /\ Len(p) = n /\ \A i \in 1..n : p[i] = t[i]
  BY <1>1, <1>2, UpTo
<1>4. Len(t) >= 3 /\ t[1] = "home" /\ t[2] = "releases" /\ t[3] = ".tmp"
  BY PrefixDest
<1>5. p \in Above \/ (Len(p) >= 3 /\ IsPrefix(Dest, p))
  <2>1. CASE n >= 3
    <3>1. p[1] = t[1] /\ p[2] = t[2] /\ p[3] = t[3]
      <4>1. 1 \in 1..n /\ 2 \in 1..n /\ 3 \in 1..n
        BY <1>2, <2>1
      <4> QED BY <1>3, <4>1
    <3> QED BY <1>3, <1>4, <2>1, <3>1, PrefixDest
  <2>2. CASE n = 0
    <3>1. p = <<>>
      BY <1>3, <2>2, EmptySeq
    <3> QED BY <3>1 DEF Above
  <2>3. CASE n = 1
    <3>1. Home \in Seq(Elem) /\ Len(Home) = 1 /\ Home[1] = "home"
      BY DEF Home, Elem
    <3>2. \A i \in 1..1 : p[i] = Home[i]
      BY <1>3, <1>4, <2>3, <3>1
    <3>3. p = Home
      BY <1>3, <2>3, <3>1, <3>2, SeqEqual
    <3> QED BY <3>3 DEF Above
  <2>4. CASE n = 2
    <3> DEFINE e == <<"home", "releases">>
    <3>1. e \in Seq(Elem) /\ Len(e) = 2 /\ e[1] = "home" /\ e[2] = "releases" /\ e = Front(Dest)
      <4>1. "home" \in Elem /\ "releases" \in Elem
        BY DEF Elem
      <4>2. e = Front(Dest)
        BY DestFacts
      <4> QED BY <4>1, <4>2
    <3> HIDE DEF e
    <3>2. \A i \in 1..2 : p[i] = e[i]
      <4>1. \A i \in 1..2 : i = 1 \/ i = 2
        OBVIOUS
      <4> QED BY <1>3, <1>4, <2>4, <3>1, <4>1
    <3>3. p = e
      BY <1>3, <2>4, <3>1, <3>2, SeqEqual
    <3> QED BY <3>1, <3>3 DEF Above
  <2>5. n >= 3 \/ n = 0 \/ n = 1 \/ n = 2
    BY <1>2
  <2> QED BY <2>1, <2>2, <2>3, <2>4, <2>5
<1>6. ASSUME p # <<>> PROVE Front(p) \in Parents(t)
  <2>1. /\ Front(p) \in Seq(Elem) /\ Len(Front(p)) = n - 1 /\ n \in Nat \ {0}
        /\ \A i \in 1..(n - 1) : Front(p)[i] = p[i]
    BY <1>3, <1>6, FrontFacts
  <2>2. n - 1 \in 0..Len(t) /\ n - 1 \in 0..(Len(t) - 1)
    BY <1>2, <2>1
  <2>3. /\ SubSeq(t, 1, n - 1) \in Seq(Elem) /\ Len(SubSeq(t, 1, n - 1)) = n - 1
        /\ \A i \in 1..(n - 1) : SubSeq(t, 1, n - 1)[i] = t[i]
    BY <2>2, UpTo
  <2>4. \A i \in 1..(n - 1) : Front(p)[i] = SubSeq(t, 1, n - 1)[i]
    <3>1. \A i \in 1..(n - 1) : i \in 1..n
      BY <1>2
    <3> QED BY <1>3, <2>1, <2>3, <3>1
  <2>5. Front(p) = SubSeq(t, 1, n - 1)
    BY <2>1, <2>3, <2>4, SeqEqual
  <2> QED BY <2>2, <2>5 DEF Parents
<1> QED BY <1>2, <1>3, <1>5, <1>6

LEMMA FrontIsParent ==
  ASSUME NEW t \in Seq(Elem), t # <<>>
  PROVE  Front(t) \in Parents(t)
<1>1. Len(t) \in Nat \ {0}
  BY FrontFacts
<1>2. Len(t) - 1 \in 0..(Len(t) - 1)
  BY <1>1
<1> QED BY <1>2 DEF Front, Parents

(* What was there before. *)
LEMMA BeforeFacts ==
  /\ DOMAIN Before = Above \cup {Corpus} /\ Corpus \notin Above
  /\ \A p \in Above : Before[p] = Dir
  /\ Before[Corpus] = File("old") /\ Front(Corpus) \in Above
  /\ \A p \in Above : p # <<>> => Front(p) \in Above
  /\ \A p \in DOMAIN Before : p \in Seq(Elem) /\ ~IsPrefix(Dest, p)
  /\ \A body : File(body) # Dir
<1>1. \A body : File(body) # Dir
  <2>1. ASSUME NEW body PROVE File(body) # Dir
    <3>1. Len(<<"file", body>>) = 2 /\ Len(<<"dir">>) = 1
      OBVIOUS
    <3> QED BY <3>1 DEF File, Dir
  <2> QED BY <2>1
<1> DEFINE r == <<"home", "releases">>
           c == <<"home", "corpus">>
           m == <<"home">>
<1>2. Front(Dest) = r /\ Corpus = c /\ Home = m
  BY DestFacts
<1>3. /\ r \in Seq(Elem) /\ c \in Seq(Elem) /\ m \in Seq(Elem) /\ <<>> \in Seq(Elem)
      /\ Len(r) = 2 /\ Len(c) = 2 /\ Len(m) = 1 /\ Len(<<>>) = 0
      /\ r[1] = "home" /\ c[1] = "home" /\ m[1] = "home" /\ r[2] = "releases" /\ c[2] = "corpus"
  <2>1. {"home", "releases", "corpus"} \subseteq Elem
    BY DEF Elem
  <2>2. \A S : \A x, y \in S : <<x, y>> \in Seq(S) /\ Len(<<x, y>>) = 2 /\ <<x>> \in Seq(S) /\ Len(<<x>>) = 1
    OBVIOUS
  <2> QED BY <2>1, <2>2
<1> HIDE DEF r, c, m
<1>4. Corpus \notin Above
  <2>1. r # c /\ m # c /\ <<>> # c
    BY <1>3
  <2> QED BY <1>2, <2>1 DEF Above
<1>5. DOMAIN Before = Above \cup {Corpus}
      /\ (\A p \in Above : Before[p] = Dir) /\ Before[Corpus] = File("old")
  BY <1>4 DEF Before, Above
<1>6. Front(r) = m /\ Front(c) = m /\ Front(m) = <<>>
  <2>1. r # <<>> /\ c # <<>> /\ m # <<>>
    <3>1. r # <<>>
      BY <1>3
    <3>2. c # <<>>
      BY <1>3
    <3>3. m # <<>>
      BY <1>3
    <3> QED BY <3>1, <3>2, <3>3
  <2>2. ASSUME NEW s \in Seq(Elem), s # <<>>, Len(s) = 2, s[1] = "home" PROVE Front(s) = m
    <3>1. Front(s) \in Seq(Elem) /\ Len(Front(s)) = Len(s) - 1 /\ \A i \in 1..(Len(s) - 1) : Front(s)[i] = s[i]
      BY <2>2, FrontFacts
    <3>2. Len(s) - 1 = 1
      BY <2>2
    <3>3. \A i \in 1..1 : Front(s)[i] = m[i]
      BY <1>3, <2>2, <3>1, <3>2
    <3> QED BY <1>3, <3>1, <3>2, <3>3, SeqEqual
  <2>3. Front(m) \in Seq(Elem) /\ Len(Front(m)) = 0
    <3>1. Front(m) \in Seq(Elem) /\ Len(Front(m)) = Len(m) - 1
      BY <1>3, <2>1, FrontFacts
    <3> QED BY <1>3, <3>1
  <2> QED BY <1>3, <2>1, <2>2, <2>3, EmptySeq
<1>7. \A p \in Above : p # <<>> => Front(p) \in Above
  BY <1>2, <1>6 DEF Above
<1>8. ASSUME NEW p \in DOMAIN Before PROVE p \in Seq(Elem) /\ ~IsPrefix(Dest, p)
  <2>0. p = r \/ p = c \/ p = m \/ p = <<>>
    BY <1>2, <1>5 DEF Above
  <2>20. ~(2 >= 3) /\ ~(1 >= 3) /\ ~(0 >= 3)
    OBVIOUS
  <2>1. p \in Seq(Elem) /\ ~(Len(p) >= 3)
    <3>1. CASE p = r
      BY <1>3, <2>20, <3>1
    <3>2. CASE p = c
      BY <1>3, <2>20, <3>2
    <3>3. CASE p = m
      BY <1>3, <2>20, <3>3
    <3>4. CASE p = <<>>
      BY <1>3, <2>20, <3>4
    <3> QED BY <2>0, <3>1, <3>2, <3>3, <3>4
  <2> QED BY <2>1, PrefixDest
<1>9. Front(Corpus) \in Above
  BY <1>2, <1>6 DEF Above
<1> QED BY <1>1, <1>4, <1>5, <1>7, <1>8, <1>9

(* What is in the tree, and whether it hangs together. *)
TreeFits ==
  /\ served \in BOOLEAN /\ docs \in Seq(Doc(AnyPath)) /\ read \in Nat
  /\ phase \in {"manifest", "extract", "hash", "installed", "failed"}
  /\ seen \subseteq Want
  /\ DOMAIN tree \subseteq Seq(Elem)

(* Everything is in a directory. *)
Rooted == \A p \in DOMAIN tree : p # <<>> => IsDir(Front(p))

(* No name of a manifest that was checked is refused. *)
Checked == phase \in {"extract", "hash", "installed"} => \A name \in Want : ~Refused(name)

(* Files are entries that were seen. *)
OnlySeen ==
  \A p \in DOMAIN tree :
    IsPrefix(Dest, p) /\ tree[p] # Dir => \E name \in seen : p = Target(name)

(* The file of a document, with its body. *)
Stored(i) ==
  /\ Target(docs[i].path) \in DOMAIN tree
  /\ tree[Target(docs[i].path)] = File(docs[i].body)

Hashed == phase = "installed" => \A i \in DOMAIN docs : Stored(i)

(* Documents, and the directories they are in. *)
TwoDeep ==
  \A p \in DOMAIN tree :
    IsPrefix(Dest, p) => (tree[p] = Dir /\ Len(p) < 5) \/ (tree[p] # Dir /\ Len(p) = 5)

(* What the server sends is under way, and the host takes its names. *)
Taken == served /\ NamesTaken

(* A pass over it has stored all it has read, and fails nowhere. *)
ServedSoFar ==
  Taken =>
    /\ Release(docs) /\ \A i \in DOMAIN docs : docs[i].path \in ServedPath
    /\ phase # "failed" /\ read <= Len(docs)
    /\ phase \in {"hash", "installed"} => read = Len(docs)
    /\ \A i \in 1..read : docs[i].path \in seen /\ Stored(i)
    /\ TwoDeep

TreeInductive ==
  TreeFits /\ StaysInside /\ Rooted /\ Checked /\ OnlySeen /\ Hashed /\ ServedSoFar

(* The manifest, and the names it wants. *)
LEMMA DocsFit ==
  ASSUME TreeFits
  PROVE  /\ Len(docs) \in Nat /\ DOMAIN docs = 1..Len(docs)
         /\ \A i \in DOMAIN docs : docs[i].path \in AnyPath /\ docs[i].path \in Want /\ docs[i].body \in Body
         /\ \A name \in Want : name \in AnyPath /\ \E i \in DOMAIN docs : name = docs[i].path
<1>1. docs \in Seq(Doc(AnyPath))
  BY DEF TreeFits
<1>2. Len(docs) \in Nat /\ DOMAIN docs = 1..Len(docs)
  BY <1>1
<1>3. \A i \in DOMAIN docs : docs[i] \in Doc(AnyPath)
  BY <1>1, <1>2, ElementOfSeq
<1>4. \A i \in DOMAIN docs : docs[i].path \in AnyPath /\ docs[i].body \in Body
  BY <1>3 DEF Doc
<1>5. Want = {docs[i].path : i \in DOMAIN docs}
  BY DEF Want, Range, Paths
<1> QED BY <1>2, <1>4, <1>5

(* What was there before is as it was. *)
LEMMA BeforeStays ==
  ASSUME StaysInside
  PROVE  /\ \A p \in DOMAIN Before : p \in DOMAIN tree /\ tree[p] = Before[p]
         /\ \A p \in Above : IsDir(p)
<1>1. \A p \in DOMAIN Before : p \in DOMAIN tree /\ tree[p] = Before[p]
  BY BeforeFacts DEF StaysInside
<1> QED BY <1>1, BeforeFacts DEF IsDir

(* What is left after a failure. *)
LEMMA FailsFit ==
  ASSUME StaysInside, DOMAIN tree \subseteq Seq(Elem), Fails
  PROVE  /\ phase' = "failed" /\ DOMAIN tree' \subseteq Seq(Elem) /\ StaysInside' /\ Rooted'
         /\ \A p \in DOMAIN tree' : ~IsPrefix(Dest, p)
<1> DEFINE D == {p \in DOMAIN tree : ~IsPrefix(Dest, p)}
<1>1. phase' = "failed" /\ tree' = [p \in D |-> tree[p]]
  BY DEF Fails, Restrict
<1>2. DOMAIN tree' = D /\ \A p \in D : tree'[p] = tree[p]
  BY <1>1
<1>3. \A p \in DOMAIN Before : p \in D
  BY BeforeStays, BeforeFacts
<1>4. \A p \in D : p \in DOMAIN Before /\ tree[p] = Before[p]
  BY DEF StaysInside
<1>5. StaysInside'
  BY <1>2, <1>3, <1>4 DEF StaysInside
<1>6. Rooted'
  <2> SUFFICES ASSUME NEW p \in D, p # <<>> PROVE Front(p) \in D /\ tree'[Front(p)] = Dir
    BY <1>2 DEF Rooted, IsDir
  <2>1. Front(p) \in Above
    BY <1>4, BeforeFacts
  <2>2. Front(p) \in DOMAIN Before /\ tree[Front(p)] = Dir
    BY <2>1, BeforeFacts, BeforeStays DEF IsDir
  <2> QED BY <1>2, <1>3, <2>2
<1> QED BY <1>1, <1>2, <1>5, <1>6

(* A file that is written, and the directories made for it. *)
LEMMA WrittenFits ==
  ASSUME StaysInside, DOMAIN tree \subseteq Seq(Elem), Rooted,
         NEW t \in Seq(Elem), IsPrefix(Dest, t), Writable(t), NEW body,
         tree' = Written(t, body)
  PROVE  /\ DOMAIN tree' \subseteq Seq(Elem) /\ StaysInside' /\ Rooted'
         /\ t \in DOMAIN tree' /\ tree'[t] = File(body)
         /\ \A p \in DOMAIN tree : p \in DOMAIN tree' /\ (p # t => tree'[p] = tree[p])
         /\ \A p \in DOMAIN tree' :
              p # t => \/ p \in DOMAIN tree
                       \/ p \in Parents(t) /\ tree'[p] = Dir
<1> DEFINE D == DOMAIN tree \cup Parents(t) \cup {t}
<1>1. DOMAIN tree' = D
  BY DEF Written
<1>2. \A p \in D : tree'[p] = IF p = t THEN File(body) ELSE IF p \in DOMAIN tree THEN tree[p] ELSE Dir
  BY DEF Written
<1>3. /\ \A p \in Parents(t) : p \in Seq(Elem) /\ Len(p) < Len(t) /\ Len(p) \in Nat
      /\ \A p \in Parents(t) : p \in Above \/ IsPrefix(Dest, p)
      /\ \A p \in Parents(t) : p # <<>> => Front(p) \in Parents(t)
  BY ParentsFit
<1>4. t # <<>> /\ t \notin Parents(t)
  <2>1. Len(t) >= 3 /\ Len(t) \in Nat
    BY PrefixDest
  <2>2. t # <<>>
    BY <2>1, EmptySeq
  <2>3. t \notin Parents(t)
    BY <1>3, <2>1
  <2> QED BY <2>2, <2>3
<1>5. \A p \in Parents(t) : p \in D /\ tree'[p] = Dir
  BY <1>2, <1>4 DEF Writable, IsFile
<1>6. \A p \in DOMAIN tree : p # t => tree'[p] = tree[p]
  BY <1>2
<1>7. DOMAIN tree' \subseteq Seq(Elem)
  BY <1>1, <1>3
<1>8. StaysInside'
  <2>1. ASSUME NEW p \in D PROVE IsPrefix(Dest, p) \/ (p \in DOMAIN Before /\ tree'[p] = Before[p])
    <3>1. CASE p = t
      BY <3>1
    <3>2. CASE p \in Parents(t)
      BY <1>3, <1>5, <3>2, BeforeFacts
    <3>3. CASE p \in DOMAIN tree /\ p # t
      BY <1>6, <3>3 DEF StaysInside
    <3> QED BY <3>1, <3>2, <3>3
  <2>2. DOMAIN Before \subseteq D
    BY DEF StaysInside
  <2> HIDE DEF D
  <2> QED BY <1>1, <2>1, <2>2 DEF StaysInside
<1>9. Rooted'
  <2> SUFFICES ASSUME NEW p \in D, p # <<>> PROVE Front(p) \in D /\ tree'[Front(p)] = Dir
    BY <1>1 DEF Rooted, IsDir
  <2>1. CASE p = t
    BY <1>5, <2>1, FrontIsParent
  <2>2. CASE p \in Parents(t)
    BY <1>3, <1>5, <2>2
  <2>3. CASE p \in DOMAIN tree
    <3>1. Front(p) \in DOMAIN tree /\ tree[Front(p)] = Dir
      BY <2>3 DEF Rooted, IsDir
    <3>2. Front(p) # t
      BY <3>1 DEF Writable, IsDir
    <3> QED BY <1>6, <3>1, <3>2
  <2> QED BY <2>1, <2>2, <2>3
<1>10. t \in DOMAIN tree' /\ tree'[t] = File(body)
  BY <1>1, <1>2
<1>11. ASSUME NEW p \in D, p # t PROVE p \in DOMAIN tree \/ (p \in Parents(t) /\ tree'[p] = Dir)
  BY <1>5, <1>11
<1> QED BY <1>1, <1>6, <1>7, <1>8, <1>9, <1>10, <1>11

LEMMA TreeStarts ==
  ASSUME PathsFit, Init
  PROVE  TreeInductive
<1>1. Before = tree /\ seen = {} /\ phase = "manifest" /\ read = 0 /\ served \in BOOLEAN
  BY DEF Init
<1>2. ASSUME NEW paths, paths \subseteq AnyPath, docs \in Manifest(paths)
      PROVE  docs \in Seq(Doc(AnyPath)) /\ \A i \in DOMAIN docs : docs[i].path \in paths
  <2>1. PICK n \in 0..MaxDoc : docs \in [1..n -> Doc(paths)]
    BY <1>2 DEF Manifest
  <2>2. n \in Nat
    <3>1. MaxDoc \in Nat
      BY DEF PathsFit
    <3> QED BY <2>1, <3>1
  <2>3. docs \in Seq(Doc(paths))
    BY <2>1, <2>2, SeqDef
  <2>4. Doc(paths) \subseteq Doc(AnyPath)
    BY <1>2 DEF Doc
  <2>5. docs \in Seq(Doc(AnyPath))
    BY <2>3, <2>4, SeqMonotonic
  <2>6. \A i \in DOMAIN docs : docs[i].path \in paths
    BY <2>1 DEF Doc
  <2> QED BY <2>5, <2>6
<1>3. ServedPath \subseteq AnyPath /\ Name \subseteq AnyPath
  BY ServedFits, NamesFit
<1>4. docs \in Seq(Doc(AnyPath))
  BY <1>2, <1>3 DEF Init
<1>5. served => Release(docs) /\ \A i \in DOMAIN docs : docs[i].path \in ServedPath
  BY <1>2, <1>3 DEF Init
<1>6. \A p \in DOMAIN tree : p \in Seq(Elem) /\ ~IsPrefix(Dest, p)
  BY <1>1, BeforeFacts
<1>7. TreeFits
  BY <1>1, <1>4, <1>6 DEF TreeFits
<1>8. StaysInside
  BY <1>1 DEF StaysInside
<1>9. Rooted
  <2> SUFFICES ASSUME NEW p \in DOMAIN tree, p # <<>> PROVE IsDir(Front(p))
    BY DEF Rooted
  <2>1. Front(p) \in Above
    BY <1>1, BeforeFacts
  <2> QED BY <1>8, <2>1, BeforeStays
<1>10. Checked /\ OnlySeen /\ Hashed
  BY <1>1, <1>6 DEF Checked, OnlySeen, Hashed
<1>11. ServedSoFar
  <2>1. 0 <= Len(docs) /\ 1..0 = {}
    BY <1>4
  <2> QED BY <1>1, <1>5, <1>6, <2>1 DEF ServedSoFar, Taken, TwoDeep
<1> QED BY <1>7, <1>8, <1>9, <1>10, <1>11 DEF TreeInductive

(* A pass that fails, when the archive is not the server's or a name of it is
   not taken. *)
LEMMA FailsKeeps ==
  ASSUME TreeInductive, Fails, ~Taken', UNCHANGED <<docs, seen>>, served' \in BOOLEAN, read' \in Nat
  PROVE  TreeInductive'
<1>1. /\ phase' = "failed" /\ DOMAIN tree' \subseteq Seq(Elem) /\ StaysInside' /\ Rooted'
      /\ \A p \in DOMAIN tree' : ~IsPrefix(Dest, p)
  BY FailsFit DEF TreeInductive, TreeFits
<1>2. TreeFits'
  BY <1>1 DEF TreeInductive, TreeFits, Want, Paths
<1>3. Checked' /\ OnlySeen' /\ Hashed' /\ ServedSoFar'
  BY <1>1 DEF Checked, OnlySeen, Hashed, ServedSoFar
<1> QED BY <1>1, <1>2, <1>3 DEF TreeInductive

LEMMA CheckManifestKeeps ==
  ASSUME PathsFit, TreeInductive, CheckManifest
  PROVE  TreeInductive'
<1> USE DEF TreeInductive
<1>1. phase = "manifest" /\ UNCHANGED <<served, docs, read, seen>>
  BY DEF CheckManifest
<1>2. CASE \E name \in Want : Refused(name)
  <2>1. ~Taken
    <3> SUFFICES ASSUME Taken PROVE FALSE
      OBVIOUS
    <3>1. PICK name \in Want : Refused(name)
      BY <1>2
    <3>2. name \in ServedPath
      BY DocsFit DEF ServedSoFar
    <3> QED BY <3>1, <3>2, ServedFits
  <2>2. Fails /\ ~Taken' /\ served' \in BOOLEAN /\ read' \in Nat
    BY <1>1, <1>2, <2>1 DEF CheckManifest, TreeFits, Taken, NamesTaken, Want, Paths
  <2> QED BY <1>1, <2>2, FailsKeeps
<1>3. CASE ~\E name \in Want : Refused(name)
  <2>1. phase' = "extract" /\ tree' = [p \in DOMAIN tree \cup {Dest} |-> IF p = Dest THEN Dir ELSE tree[p]]
    BY <1>3 DEF CheckManifest
  <2>2. DOMAIN tree' = DOMAIN tree \cup {Dest} /\ tree'[Dest] = Dir
        /\ \A p \in DOMAIN tree : p # Dest => tree'[p] = tree[p]
    BY <2>1
  <2>3. IsPrefix(Dest, Dest) /\ Dest \in Seq(Elem) /\ Len(Dest) = 3 /\ Front(Dest) \in Above
    <3>1. Dest \in Seq(Elem) /\ Len(Dest) = 3 /\ Len(Dest) >= 3
      BY DestFacts
    <3> QED BY <3>1, DestFacts, PrefixDest DEF Above
  <2>4. TreeFits'
    BY <1>1, <2>1, <2>2, <2>3 DEF TreeFits, Want, Paths
  <2>5. StaysInside'
    <3>1. ASSUME NEW p \in DOMAIN tree' PROVE IsPrefix(Dest, p) \/ (p \in DOMAIN Before /\ tree'[p] = Before[p])
      BY <2>2, <2>3 DEF StaysInside
    <3> QED BY <2>2, <3>1 DEF StaysInside
  <2>6. Rooted'
    <3> SUFFICES ASSUME NEW p \in DOMAIN tree', p # <<>> PROVE Front(p) \in DOMAIN tree' /\ tree'[Front(p)] = Dir
      BY DEF Rooted, IsDir
    <3>1. CASE p = Dest
      <4>1. IsDir(Front(Dest))
        BY <2>3, BeforeStays
      <4> QED BY <2>2, <3>1, <4>1 DEF IsDir
    <3>2. CASE p \in DOMAIN tree
      <4>1. Front(p) \in DOMAIN tree /\ tree[Front(p)] = Dir
        BY <3>2 DEF Rooted, IsDir
      <4> QED BY <2>2, <4>1
    <3> QED BY <2>2, <3>1, <3>2
  <2>7. Checked'
    <3>1. \A name \in Want : ~Refused(name)
      BY <1>3
    <3>2. Want' = Want
      BY <1>1 DEF Want, Paths
    <3> QED BY <3>1, <3>2 DEF Checked
  <2>8. OnlySeen'
    BY <1>1, <2>2 DEF OnlySeen
  <2>9. Hashed'
    BY <2>1 DEF Hashed
  <2>10. ServedSoFar'
    <3> SUFFICES ASSUME Taken PROVE ServedSoFar'
      BY <1>1 DEF ServedSoFar, Taken, NamesTaken, Want, Paths
    <3>1. ASSUME NEW i \in 1..read PROVE docs[i].path \in seen /\ Stored(i)'
      <4>1. docs[i].path \in seen /\ Stored(i) /\ i \in DOMAIN docs /\ docs[i].path \in ServedPath
        BY DocsFit DEF ServedSoFar, TreeFits
      <4>2. Target(docs[i].path) # Dest
        <5>1. Len(Target(docs[i].path)) = 5
          BY <4>1, ServedFits
        <5>2. Len(Target(docs[i].path)) # Len(Dest)
          BY <2>3, <5>1
        <5> QED BY <5>2
      <4>3. Target(docs[i].path) \in DOMAIN tree' /\ tree'[Target(docs[i].path)] = File(docs[i].body)
        BY <2>2, <4>1, <4>2 DEF Stored
      <4> QED BY <1>1, <4>1, <4>3 DEF Stored
    <3>2. TwoDeep'
      <4>1. TwoDeep
        BY DEF ServedSoFar
      <4>2. tree'[Dest] = Dir /\ Len(Dest) < 5
        BY <2>2, <2>3
      <4>3. ASSUME NEW p \in DOMAIN tree', IsPrefix(Dest, p)
            PROVE  (tree'[p] = Dir /\ Len(p) < 5) \/ (tree'[p] # Dir /\ Len(p) = 5)
        <5>1. CASE p = Dest
          BY <4>2, <5>1
        <5>2. CASE p # Dest
          <6>1. p \in DOMAIN tree /\ tree'[p] = tree[p]
            BY <2>2, <4>3, <5>2
          <6> QED BY <4>1, <4>3, <6>1 DEF TwoDeep
        <5> QED BY <5>1, <5>2
      <4> HIDE DEF TreeInductive
      <4> QED BY <4>3 DEF TwoDeep
    <3>3. Release(docs)'
      BY <1>1 DEF Release, Paths, ServedSoFar
    <3>4. read = read' /\ docs' = docs
      BY <1>1
    <3>5. /\ \A i \in DOMAIN docs : docs[i].path \in ServedPath
          /\ read <= Len(docs)
      BY DEF ServedSoFar
    <3>6. \A i \in 1..read : docs'[i].path \in seen' /\ Stored(i)'
      BY <1>1, <3>1
    <3> QED BY <2>1, <3>2, <3>3, <3>4, <3>5, <3>6 DEF ServedSoFar
  <2> QED BY <2>4, <2>5, <2>6, <2>7, <2>8, <2>9, <2>10
<1> QED BY <1>2, <1>3

(* A manifest path of the server is written once, in a place of its own. *)
LEMMA ServedApart ==
  ASSUME PathsFit, TreeInductive, Taken, NEW i \in DOMAIN docs, NEW j \in DOMAIN docs, i # j
  PROVE  Target(docs[i].path) # Target(docs[j].path)
<1>1. docs[i].path \in ServedPath /\ docs[j].path \in ServedPath /\ docs[i].path # docs[j].path
  BY DEF TreeInductive, ServedSoFar, Release, IsInjective, Paths
<1>2. /\ docs[i].path \in Seq(Elem) /\ docs[j].path \in Seq(Elem)
      /\ Target(docs[i].path) = Dest \o docs[i].path /\ Target(docs[j].path) = Dest \o docs[j].path
  BY <1>1, ServedFits
<1>3. Dest \in Seq(Elem)
  BY DestFacts
<1> QED BY <1>1, <1>2, <1>3, ConcatSimplifications

(* An entry of the archive, whoever sent it. *)
LEMMA ExtractKeeps ==
  ASSUME PathsFit, TreeInductive, NEW name \in AnyPath, NEW regular \in BOOLEAN, NEW body,
         Extract(name, regular, body),
         served => /\ read < Len(docs) /\ regular
                   /\ name = docs[read + 1].path /\ body = docs[read + 1].body
  PROVE  TreeInductive'
<1> USE DEF TreeInductive
<1> DEFINE t == Target(name)
<1>1. phase = "extract" /\ read' = read + 1 /\ UNCHANGED <<served, docs>>
  BY DEF Extract
<1>2. read \in Nat /\ read + 1 \in Nat /\ Len(docs) \in Nat
  BY DocsFit DEF TreeFits
<1>3. t \in Seq(Elem) /\ (~Refused(name) => IsPrefix(Dest, t))
  BY TargetFits
<1> HIDE DEF t
(* An entry of the server is accepted. *)
<1>4. ASSUME Taken
      PROVE  /\ read + 1 \in DOMAIN docs /\ name \in ServedPath
             /\ Allowed(name, regular) /\ Writable(t) /\ Len(t) = 5
  <2>1. read + 1 \in DOMAIN docs /\ name \in Want
    <3>1. read + 1 \in 1..Len(docs)
      BY <1>2, <1>4 DEF Taken
    <3> QED BY <1>4, <3>1, DocsFit DEF Taken
  <2>2. name \in ServedPath
    BY <1>4, <2>1 DEF ServedSoFar, Taken
  <2>3. ~Refused(name) /\ Len(t) = 5 /\ IsPrefix(Dest, t)
    BY <2>2, ServedFits DEF t
  <2>4. TwoDeep
    BY <1>4 DEF ServedSoFar
  <2>5. ~IsDir(t)
    <3> SUFFICES ASSUME t \in DOMAIN tree, tree[t] = Dir PROVE FALSE
      BY DEF IsDir
    <3>1. Len(t) < 5
      BY <2>3, <2>4 DEF TwoDeep
    <3> QED BY <2>3, <3>1
  <2>6. ASSUME NEW p \in Parents(t) PROVE ~IsFile(p)
    <3>1. Len(p) < 5 /\ Len(p) \in Nat /\ (p \in Above \/ IsPrefix(Dest, p))
      BY <1>3, <2>3, ParentsFit
    <3>2. CASE p \in Above
      BY <3>2, BeforeStays DEF IsFile, IsDir
    <3>3. CASE IsPrefix(Dest, p)
      <4>1. Len(p) # 5
        <5>1. \A n \in Nat : n < 5 => n # 5
          OBVIOUS
        <5> QED BY <3>1, <5>1
      <4> QED BY <2>4, <3>3, <4>1 DEF TwoDeep, IsFile
    <3> QED BY <3>1, <3>2, <3>3
  <2>7. Range(t) \cap Long = {}
    <3>1. t = Dest \o name /\ name \in Seq(Elem) /\ Dest \in Seq(Elem)
      BY <2>2, ServedFits, DestFacts DEF t
    <3>2. Range(name) \cap Long = {}
      BY <1>4, <2>1 DEF Taken, NamesTaken
    <3>3. Range(t) \subseteq Range(Dest) \cup Range(name)
      <4>1. /\ Len(Dest) \in Nat /\ Len(name) \in Nat /\ DOMAIN t = 1..(Len(Dest) + Len(name))
            /\ DOMAIN Dest = 1..Len(Dest) /\ DOMAIN name = 1..Len(name)
            /\ \A i \in 1..(Len(Dest) + Len(name)) :
                 t[i] = IF i <= Len(Dest) THEN Dest[i] ELSE name[i - Len(Dest)]
        BY <3>1, ConcatProperties
      <4> HIDE DEF t
      <4>2. ASSUME NEW i \in 1..(Len(Dest) + Len(name))
            PROVE  (\E j \in DOMAIN Dest : t[i] = Dest[j]) \/ (\E j \in DOMAIN name : t[i] = name[j])
        <5>1. CASE i <= Len(Dest)
          BY <4>1, <5>1
        <5>2. CASE ~(i <= Len(Dest))
          <6>1. i - Len(Dest) \in 1..Len(name)
            BY <4>1, <5>2
          <6> QED BY <4>1, <5>2, <6>1
        <5> QED BY <5>1, <5>2
      <4> QED BY <4>1, <4>2 DEF Range
    <3> QED BY <3>2, <3>3 DEF PathsFit
  <2> QED BY <1>4, <2>1, <2>2, <2>3, <2>5, <2>6, <2>7 DEF Allowed, Writable, Taken
<1>5. CASE Allowed(name, regular) /\ Writable(t)
  <2>1. tree' = Written(t, body) /\ seen' = seen \cup {name} /\ phase' = phase
    BY <1>5 DEF Extract, t
  <2>2. ~Refused(name) /\ name \in Want /\ IsPrefix(Dest, t)
    BY <1>3, <1>5 DEF Allowed
  <2>3. /\ DOMAIN tree' \subseteq Seq(Elem) /\ StaysInside' /\ Rooted'
        /\ t \in DOMAIN tree' /\ tree'[t] = File(body)
        /\ \A p \in DOMAIN tree : p \in DOMAIN tree' /\ (p # t => tree'[p] = tree[p])
        /\ \A p \in DOMAIN tree' : p # t => p \in DOMAIN tree \/ (p \in Parents(t) /\ tree'[p] = Dir)
    <3>1. DOMAIN tree \subseteq Seq(Elem) /\ Writable(t)
      BY <1>5 DEF TreeFits
    <3> QED BY <1>3, <2>1, <2>2, <3>1, WrittenFits
  <2>4. TreeFits'
    BY <1>1, <1>2, <2>1, <2>2, <2>3 DEF TreeFits, Want, Paths
  <2>5. Checked'
    <3>1. Want' = Want
      BY <1>1 DEF Want, Paths
    <3> QED BY <2>1, <3>1 DEF Checked
  <2>6. OnlySeen'
    <3> SUFFICES ASSUME NEW p \in DOMAIN tree', IsPrefix(Dest, p), tree'[p] # Dir
                 PROVE  \E q \in seen' : p = Target(q)
      BY DEF OnlySeen
    <3>1. CASE p = t
      BY <2>1, <3>1 DEF t
    <3>2. CASE p # t
      <4>1. p \in DOMAIN tree /\ tree[p] # Dir
        BY <2>3, <3>2
      <4> QED BY <2>1, <4>1 DEF OnlySeen
    <3> QED BY <3>1, <3>2
  <2>7. Hashed'
    BY <1>1, <2>1 DEF Hashed
  <2>8. ServedSoFar'
    <3> SUFFICES ASSUME Taken PROVE ServedSoFar'
      BY <1>1 DEF ServedSoFar, Taken, NamesTaken, Want, Paths
    <3>1. /\ read < Len(docs) /\ name = docs[read + 1].path /\ body = docs[read + 1].body
          /\ read + 1 \in DOMAIN docs /\ Len(t) = 5
      BY <1>4 DEF Taken
    <3>2. ASSUME NEW i \in 1..(read + 1) PROVE docs[i].path \in seen' /\ Stored(i)'
      <4>1. CASE i = read + 1
        BY <1>1, <2>1, <2>3, <3>1, <4>1 DEF Stored, t
      <4>2. CASE i # read + 1
        <5>1. i \in 1..read /\ i \in DOMAIN docs
          BY <1>2, <3>1, <4>2, DocsFit
        <5>2. docs[i].path \in seen /\ Stored(i)
          BY <5>1 DEF ServedSoFar
        <5>3. Target(docs[i].path) # t
          BY <3>1, <4>2, <5>1, ServedApart DEF t
        <5> QED BY <1>1, <2>1, <2>3, <5>2, <5>3 DEF Stored
      <4> QED BY <4>1, <4>2
    <3>3. TwoDeep'
      <4> SUFFICES ASSUME NEW p \in DOMAIN tree', IsPrefix(Dest, p)
                   PROVE  (tree'[p] = Dir /\ Len(p) < 5) \/ (tree'[p] # Dir /\ Len(p) = 5)
        BY DEF TwoDeep
      <4>1. CASE p = t
        BY <2>3, <3>1, <4>1, BeforeFacts
      <4>2. CASE p # t /\ p \in DOMAIN tree
        BY <2>3, <4>2 DEF TwoDeep, ServedSoFar
      <4>3. CASE p # t /\ p \in Parents(t) /\ tree'[p] = Dir
        <5>1. Len(p) < Len(t)
          BY <1>3, <2>2, <4>3, ParentsFit
        <5> QED BY <3>1, <4>3, <5>1
      <4> QED BY <2>3, <4>1, <4>2, <4>3
    <3>4. Release(docs)'
      BY <1>1 DEF Release, Paths, ServedSoFar
    <3>5. read + 1 <= Len(docs)
      BY <1>2, <3>1
    <3>6. phase' \notin {"failed", "hash", "installed"}
      BY <1>1, <2>1
    <3> QED BY <1>1, <3>2, <3>3, <3>4, <3>5, <3>6 DEF ServedSoFar
  <2> QED BY <2>3, <2>4, <2>5, <2>6, <2>7, <2>8
<1>6. CASE ~(Allowed(name, regular) /\ Writable(t))
  <2>1. Fails /\ UNCHANGED seen
    BY <1>6 DEF Extract, t
  <2>2. ~Taken' /\ served' \in BOOLEAN
    BY <1>1, <1>4, <1>6 DEF TreeFits, Taken, NamesTaken, Want, Paths
  <2> QED BY <1>1, <1>2, <2>1, <2>2, FailsKeeps
<1> QED BY <1>5, <1>6

LEMMA TreeStep ==
  ASSUME PathsFit, TreeInductive, [Next]_vars
  PROVE  TreeInductive'
<1> USE DEF TreeInductive
<1>1. CASE CheckManifest
  BY <1>1, CheckManifestKeeps
<1>2. CASE NextEntry
  <2>1. CASE served
    <3>1. read < Len(docs) /\ Extract(docs[read + 1].path, TRUE, docs[read + 1].body)
      BY <1>2, <2>1 DEF NextEntry
    <3>2. read + 1 \in DOMAIN docs
      BY <3>1, DocsFit DEF TreeFits
    <3>3. docs[read + 1].path \in AnyPath
      BY <3>2, DocsFit
    <3> QED BY <3>1, <3>3, ExtractKeeps
  <2>2. CASE ~served
    <3>1. PICK name \in Name, regular \in BOOLEAN, body \in Body : Extract(name, regular, body)
      BY <1>2, <2>2 DEF NextEntry
    <3>2. name \in AnyPath
      BY <3>1, NamesFit
    <3> QED BY <2>2, <3>1, <3>2, ExtractKeeps
  <2> QED BY <2>1, <2>2
<1>3. CASE EndOfArchive
  <2>1. phase = "extract" /\ (served => read = Len(docs)) /\ UNCHANGED <<served, docs, read, seen>>
    BY <1>3 DEF EndOfArchive
  <2>2. CASE Want \subseteq seen
    <3>1. phase' = "hash" /\ tree' = tree
      BY <1>3, <2>2 DEF EndOfArchive
    <3>2. TreeFits' /\ StaysInside' /\ Rooted' /\ OnlySeen' /\ Hashed'
      BY <2>1, <3>1 DEF TreeFits, StaysInside, Rooted, OnlySeen, Hashed, Want, Paths, IsDir
    <3>3. Checked'
      <4>1. Want' = Want
        BY <2>1 DEF Want, Paths
      <4> QED BY <2>1, <4>1 DEF Checked
    <3>4. ServedSoFar'
      BY <2>1, <3>1 DEF ServedSoFar, Taken, NamesTaken, Want, Release, Paths, Stored, TwoDeep
    <3> QED BY <3>2, <3>3, <3>4
  <2>3. CASE ~(Want \subseteq seen)
    <3>1. ~Taken
      <4> SUFFICES ASSUME Taken PROVE FALSE
        OBVIOUS
      <4>1. \A i \in 1..Len(docs) : docs[i].path \in seen
        BY <2>1 DEF ServedSoFar, Taken
      <4> QED BY <2>3, <4>1, DocsFit
    <3>2. Fails /\ ~Taken' /\ served' \in BOOLEAN /\ read' \in Nat
      BY <1>3, <2>1, <2>3, <3>1 DEF EndOfArchive, TreeFits, Taken, NamesTaken, Want, Paths
    <3> QED BY <2>1, <3>2, FailsKeeps
  <2> QED BY <2>2, <2>3
<1>4. CASE Interrupted
  <2>1. Fails /\ ~Taken' /\ served' \in BOOLEAN /\ read' \in Nat /\ UNCHANGED <<docs, seen>>
    BY <1>4 DEF Interrupted, TreeFits, Taken
  <2> QED BY <2>1, FailsKeeps
<1>5. CASE Hash
  <2> DEFINE Same == \A i \in DOMAIN docs : LET t == Target(docs[i].path)
                                            IN  IsFile(t) /\ tree[t] = File(docs[i].body)
  <2>1. phase = "hash" /\ UNCHANGED <<served, docs, read, seen>>
    BY <1>5 DEF Hash
  <2>2. CASE Same
    <3>1. phase' = "installed" /\ tree' = tree
      BY <1>5, <2>2 DEF Hash
    <3>2. TreeFits' /\ StaysInside' /\ Rooted' /\ OnlySeen'
      BY <2>1, <3>1 DEF TreeFits, StaysInside, Rooted, OnlySeen, Want, Paths, IsDir
    <3>3. Hashed'
      BY <2>1, <2>2, <3>1 DEF Hashed, Stored, IsFile
    <3>4. Checked'
      <4>1. Want' = Want
        BY <2>1 DEF Want, Paths
      <4> QED BY <2>1, <4>1 DEF Checked
    <3>5. ServedSoFar'
      BY <2>1, <3>1 DEF ServedSoFar, Taken, NamesTaken, Want, Release, Paths, Stored, TwoDeep
    <3> QED BY <3>2, <3>3, <3>4, <3>5
  <2>3. CASE ~Same
    <3>1. ~Taken
      <4> SUFFICES ASSUME Taken PROVE FALSE
        OBVIOUS
      <4>1. \A i \in DOMAIN docs : Stored(i)
        BY <2>1, DocsFit DEF ServedSoFar
      <4>2. Same
        BY <4>1, BeforeFacts DEF Stored, IsFile
      <4> QED BY <2>3, <4>2
    <3>2. Fails /\ ~Taken' /\ served' \in BOOLEAN /\ read' \in Nat
      BY <1>5, <2>1, <2>3, <3>1 DEF Hash, TreeFits, Taken, NamesTaken, Want, Paths
    <3> QED BY <2>1, <3>2, FailsKeeps
  <2> QED BY <2>2, <2>3
<1>6. CASE UNCHANGED vars
  <2>1. UNCHANGED <<served, docs, read, tree, seen, phase>>
    BY <1>6 DEF vars
  <2>2. TreeFits' /\ StaysInside' /\ Rooted' /\ OnlySeen' /\ Hashed'
    BY <2>1 DEF TreeFits, StaysInside, Rooted, OnlySeen, Hashed, Want, Paths, IsDir, Stored
  <2>3. Checked'
    <3>1. Want' = Want
      BY <2>1 DEF Want, Paths
    <3> QED BY <2>1, <3>1 DEF Checked
  <2>4. ServedSoFar'
    BY <2>1 DEF ServedSoFar, Taken, NamesTaken, Want, Release, Paths, Stored, TwoDeep
  <2> QED BY <2>2, <2>3, <2>4
<1> QED BY <1>1, <1>2, <1>3, <1>4, <1>5, <1>6 DEF Next

LEMMA TreeHolds ==
  ASSUME TreeInductive
  PROVE  TreeInvariant
<1> USE DEF TreeInductive
<1>1. TypeOK
  BY DocsFit DEF TypeOK, TreeFits, Rooted
<1>2. ExactlyTheManifest
  <2> SUFFICES ASSUME phase = "installed"
               PROVE  /\ {p \in DOMAIN tree : IsPrefix(Dest, p) /\ IsFile(p)} = {Target(name) : name \in Want}
                      /\ \A i \in DOMAIN docs : tree[Target(docs[i].path)] = File(docs[i].body)
    BY DEF ExactlyTheManifest
  <2>1. \A i \in DOMAIN docs : Stored(i)
    BY DEF Hashed
  <2>2. ASSUME NEW p \in DOMAIN tree, IsPrefix(Dest, p), IsFile(p) PROVE \E name \in Want : p = Target(name)
    BY <2>2 DEF OnlySeen, IsFile, TreeFits
  <2>3. ASSUME NEW name \in Want
        PROVE  Target(name) \in DOMAIN tree /\ IsPrefix(Dest, Target(name)) /\ IsFile(Target(name))
    <3>1. PICK i \in DOMAIN docs : name = docs[i].path
      BY DocsFit
    <3>2. name \in AnyPath /\ ~Refused(name)
      BY DocsFit DEF Checked
    <3> QED BY <2>1, <3>1, <3>2, TargetFits, BeforeFacts DEF Stored, IsFile
  <2>4. \A i \in DOMAIN docs : tree[Target(docs[i].path)] = File(docs[i].body)
    BY <2>1 DEF Stored
  <2> QED BY <2>2, <2>3, <2>4
<1>3. ServedIsInstalled
  BY DEF ServedSoFar, Taken, ServedIsInstalled, EveryReleaseInstalls
<1> QED BY <1>1, <1>2, <1>3 DEF TreeInvariant

(* extractTar writes nothing outside its directory, whatever the names of
   manifest and archive are; what is installed is the manifest, with the bodies
   its hash stands for; and no release of the server is refused, unless a name
   in it is too long for the host. *)
THEOREM TreesAreManifests ==
  ASSUME PathsFit
  PROVE  Spec => []TreeInvariant
<1>1. Init => TreeInductive
  BY TreeStarts
<1>2. TreeInductive /\ [Next]_vars => TreeInductive'
  BY TreeStep
<1>3. TreeInductive => TreeInvariant
  BY TreeHolds
<1> QED BY <1>1, <1>2, <1>3, PTL DEF Spec
=============================================================================
