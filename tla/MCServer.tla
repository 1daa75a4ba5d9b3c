------------------------------ MODULE MCServer ------------------------------
(***************************************************************************)
(* Serving for TLC.  Its three parts are explored apart: those that part   *)
(* does not name stay as they start.                                       *)
(***************************************************************************)
EXTENDS Serving, TLC

VARIABLE part

process == <<file, drawn, starts, pc, conf, loaded, reported>>
tab == <<patient, valid, token, stored, view, signOut, fetched, submitted>>

NoRequests == Init /\ ~auth
NoTab == Tab!Init /\ patient /\ valid = None

MCInit ==
  /\ Main!Init
  /\ \/ part = "requests" /\ Init /\ NoTab
     \/ part = "process" /\ NoRequests /\ NoTab
     \/ part = "tab" /\ NoRequests /\ Tab!Init

MCNext ==
  /\ UNCHANGED part
  /\ \/ part = "requests" /\ Next /\ UNCHANGED <<process, tab>>
     \/ part = "process" /\ Main!Next /\ UNCHANGED <<vars, tab>>
     \/ part = "tab" /\ Tab!Next /\ UNCHANGED <<vars, process>>

MCSpec == MCInit /\ [][MCNext]_<<part, vars, process, tab>>

Symmetry == UNION {Permutations(S) : S \in {Host, Token, Slot}}

(* One of two hosts is heard of, and requests overlap when they are
   authenticated. *)
Region ==
  /\ auth \/ \E s \in Slot : req[s] = None
  /\ \E h \in Host : beat[h] = None /\ ~flag[h]
=============================================================================
