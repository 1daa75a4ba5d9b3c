------------------------------ MODULE Delivery ------------------------------
(***************************************************************************)
(* What a host is promised: the release its agents read only moves         *)
(* forward, and is always one the server published.                        *)
(***************************************************************************)
EXTENDS Naturals

VARIABLES
  latest,   \* the newest published release, 0 before the first
  shown     \* the release the corpus shows, 0 before the first

vars == <<latest, shown>>

Init == latest = 0 /\ shown = 0

Publish == latest' = latest + 1 /\ UNCHANGED shown

(* The host may skip releases, and may show the same one again. *)
Show == shown' \in shown + 1..latest /\ UNCHANGED latest

Next == Publish \/ Show

Spec == Init /\ [][Next]_vars
=============================================================================
