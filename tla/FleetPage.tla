----------------------------- MODULE FleetPage -----------------------------
(***************************************************************************)
(* The fleet view: refreshFleet and submitResync of                        *)
(* knowledge-server/ui/app.js with the statuses of ui/lib.mjs, against     *)
(* listHosts of knowledge-server/api.go, which reads the rows of the       *)
(* hosts, then the latest release, then the clock, while heartbeats, cuts  *)
(* and resync requests go on.  The clock of the server stamps seen_at and  *)
(* now, and may be set back: a stamp is when it was taken and how far the  *)
(* clock had been set back by then.                                        *)
(***************************************************************************)
EXTENDS Integers, Sequences

CONSTANTS
  Host,         \* hosts
  Slot,         \* requests in flight
  None,         \* no value
  DarkAfter,    \* DARK_AFTER_MS, in units of time
  Tolerance,    \* SKEW_TOLERANCE_MS
  MaxRelease,   \* bound: releases
  MaxTime,      \* bound: time
  MaxBack       \* bound: how far the clock is set back in all

VARIABLES
  latest,   \* the latest release, 0 for none
  row,      \* heartbeats: the last one of each host, None for none
  flag,     \* resync_requests: whether the host has one
  stamp,    \* time as it passes, and the clock
  fleet,    \* state.fleet, the table shown
  call      \* the requests of the running handlers

server == <<latest, row, flag, stamp>>
vars == <<server, fleet, call>>

Stamp == [time : 0..MaxTime, back : 0..MaxBack]
Clock(t) == t.time - t.back

Release == 0..MaxRelease
Row == [release_id : Release, ok : BOOLEAN, seen_at : Stamp]

(* Mutant: the latest release is read before the rows. *)
ReadsLatestFirst == <<"latest", "hosts", "now">>

(* What listHosts reads, in this order. *)
Reads == <<"hosts", "latest", "now">>

(* An answer of listHosts; read and was are the time at which the rows were
   read and the latest release then. *)
Fleet == [hosts : [Host -> Row \cup {None}], flags : [Host -> BOOLEAN],
          latest : Release, now : Stamp, read : 0..MaxTime, was : Release]

Call == [step : {"list", "resync"}, fresh : BOOLEAN, served : BOOLEAN,
         host : Host \cup {None}, todo : 0..Len(Reads), fleet : Fleet]

TypeOK ==
  /\ latest \in Release
  /\ row \in [Host -> Row \cup {None}]
  /\ flag \in [Host -> BOOLEAN]
  /\ stamp \in Stamp
  /\ fleet \in Fleet \cup {None}
  /\ call \in [Slot -> Call \cup {None}]

Init ==
  /\ latest \in {0, 1}
  /\ row = [h \in Host |-> None]
  /\ flag = [h \in Host |-> FALSE]
  /\ stamp = [time |-> 0, back |-> 0]
  /\ fleet = None
  /\ call = [s \in Slot |-> None]

-----------------------------------------------------------------------------
(* Time, cuts and hosts. *)

Tick ==
  /\ stamp.time < MaxTime
  /\ stamp' = [stamp EXCEPT !.time = @ + 1]
  /\ UNCHANGED <<latest, row, flag, fleet, call>>

SetBack ==
  /\ stamp.back < MaxBack
  /\ stamp' = [stamp EXCEPT !.back = @ + 1]
  /\ UNCHANGED <<latest, row, flag, fleet, call>>

Cut ==
  /\ latest < MaxRelease
  /\ latest' = latest + 1
  /\ UNCHANGED <<row, flag, stamp, fleet, call>>

(* A host reports the release it has, and may have answered a request. *)
Heartbeat(h, r, ok, applied) ==
  /\ r <= latest
  /\ row' = [row EXCEPT ![h] = [release_id |-> r, ok |-> ok, seen_at |-> stamp]]
  /\ flag' = [flag EXCEPT ![h] = @ /\ ~(ok /\ applied)]
  /\ UNCHANGED <<latest, stamp, fleet, call>>

-----------------------------------------------------------------------------
(* The server. *)

Waits(s, step) ==
  call[s] # None /\ call[s].step = step /\ ~call[s].served

(* An answer under way after one more read. *)
After(part, f) ==
  CASE part = "hosts" -> [f EXCEPT !.hosts = row, !.flags = flag,
                                   !.read = stamp.time, !.was = latest]
    [] part = "latest" -> [f EXCEPT !.latest = latest]
    [] part = "now" -> [f EXCEPT !.now = stamp]

(* One read of listHosts; what an outdated request reads is not kept. *)
Read(s) ==
  LET c == call[s]
      last == c.todo = Len(Reads)
  IN  /\ Waits(s, "list")
      /\ call' = [call EXCEPT
           ![s].todo = IF last THEN 0 ELSE @ + 1,
           ![s].served = last,
           ![s].fleet = IF c.fresh THEN After(Reads[c.todo], @) ELSE @]
      /\ UNCHANGED <<server, fleet>>

ServeResync(s) ==
  /\ Waits(s, "resync")
  /\ flag' = [flag EXCEPT ![call[s].host] = TRUE]
  /\ call' = [call EXCEPT ![s].served = TRUE]
  /\ UNCHANGED <<latest, row, stamp, fleet>>

-----------------------------------------------------------------------------
(* The page. *)

NoFleet ==
  [hosts |-> [h \in Host |-> None], flags |-> [h \in Host |-> FALSE],
   latest |-> 0, now |-> [time |-> 0, back |-> 0], read |-> 0, was |-> 0]

List == [step |-> "list", fresh |-> TRUE, served |-> FALSE, host |-> None,
         todo |-> 1, fleet |-> NoFleet]

(* Mutant: the earlier refreshes still count. *)
RefreshFleetUnnumbered(s) == call' = [call EXCEPT ![s] = List]

(* refreshFleet up to its await: ++state.fleetGen. *)
RefreshFleet(s) ==
  call' = [t \in Slot |->
             IF t = s THEN List
             ELSE IF call[t] # None /\ call[t].step = "list"
               THEN [call[t] EXCEPT !.fresh = FALSE, !.fleet = NoFleet]
             ELSE call[t]]

(* The Refresh button, or the navigation bar. *)
Click(s) == call[s] = None /\ RefreshFleet(s) /\ UNCHANGED <<server, fleet>>

Answered(s, step) == call[s] # None /\ call[s].step = step /\ call[s].served

Ends(s) == call' = [call EXCEPT ![s] = None]

(* The answer is shown unless a later refresh was started. *)
FleetArrives(s) ==
  /\ Answered(s, "list")
  /\ Ends(s)
  /\ fleet' = IF call[s].fresh THEN call[s].fleet ELSE fleet
  /\ UNCHANGED server

(* "Force resync" in the row of a host that is shown. *)
SubmitResync(s, h) ==
  /\ call[s] = None /\ fleet # None
  /\ fleet.hosts[h] # None \/ fleet.flags[h]
  /\ call' = [call EXCEPT ![s] =
       [List EXCEPT !.step = "resync", !.host = h, !.todo = 0]]
  /\ UNCHANGED <<server, fleet>>

(* A 204 refreshes the table. *)
ResyncArrives(s) ==
  /\ Answered(s, "resync")
  /\ RefreshFleet(s)
  /\ UNCHANGED <<server, fleet>>

(* An error: the table stays as it is. *)
Fails(s) == call[s] # None /\ Ends(s) /\ UNCHANGED <<server, fleet>>

-----------------------------------------------------------------------------
Answer(s) ==
  Read(s) \/ ServeResync(s) \/ FleetArrives(s) \/ ResyncArrives(s) \/ Fails(s)

Next ==
  \/ Tick \/ SetBack \/ Cut
  \/ \E h \in Host, r \in Release, ok, applied \in BOOLEAN : Heartbeat(h, r, ok, applied)
  \/ \E s \in Slot : Answer(s) \/ Click(s) \/ \E h \in Host : SubmitResync(s, h)

Spec == Init /\ [][Next]_vars

-----------------------------------------------------------------------------
(* The status column (fleetStatus). *)

Age(h, f) == Clock(f.now) - Clock(f.hosts[h].seen_at)

Dark(h, f) ==
  \/ f.hosts[h] = None
  \/ Age(h, f) < -Tolerance
  \/ Age(h, f) > DarkAfter

Current(h, f) ==
  /\ ~Dark(h, f)
  /\ f.hosts[h].ok
  /\ f.hosts[h].release_id = f.latest

-----------------------------------------------------------------------------
(* What must hold. *)

(* A host shown as current had the latest release, whole, when its row was
   read: no host that was behind looks current because a release is cut or a
   heartbeat comes between the reads of listHosts. *)
CurrentWasCurrent ==
  fleet # None =>
    \A h \in Host : Current(h, fleet) =>
      fleet.hosts[h].ok /\ fleet.hosts[h].release_id = fleet.was

(* A host that is not shown as dark was heard of lately: the age that is not
   known because the clock was set back is bounded by the tolerance, or by
   how far it was. *)
NotDarkIsAlive ==
  fleet # None =>
    \A h \in Host : ~Dark(h, fleet) =>
      LET seen == fleet.hosts[h].seen_at
          unknown == fleet.now.back - seen.back
      IN  /\ fleet.now.time - seen.time <= DarkAfter + unknown
          /\ unknown - (fleet.now.time - seen.time) <= Tolerance

(* What the page shows never goes back: a table is replaced by one whose rows
   were read later, so that a resync request or a heartbeat that was shown
   does not disappear again. *)
TableMovesForward ==
  [][fleet # None => fleet'.read >= fleet.read]_vars

(* What every table of the fleet page satisfies (fleetStatus, listHosts): no
   host looks better than it was. *)
PageInvariant == TypeOK /\ CurrentWasCurrent /\ NotDarkIsAlive
=============================================================================
