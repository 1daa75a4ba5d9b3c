----------------------------- MODULE HostFiles ------------------------------
(***************************************************************************)
(* The files of a host, and what operators are told of it: a tree is       *)
(* installed (Materialize) and read (ManagedBlock), and the host is shown  *)
(* on the fleet page (FleetPage).                                          *)
(***************************************************************************)
EXTENDS Materialize

CONSTANTS Mine, Kernel, Begin, End, Blank, None, MaxEdit, MaxFlip,
          Host, Slot, DarkAfter, Tolerance, MaxRelease, MaxTime, MaxBack

VARIABLES corpus, target, pc, root, kernel, tmp, todo, aside, edits, flips, mine, ran, torn, raced,
          latest, row, flag, stamp, fleet, call

Agents == INSTANCE ManagedBlock
Page == INSTANCE FleetPage

(* The file of the user stays whole (ManagedBlock). *)
BlockInvariant == Agents!BlockInvariant

(* No host looks better than it was (FleetPage). *)
PageInvariant == Page!PageInvariant

(* The table never goes back (FleetPage). *)
TableMovesForward == Page!TableMovesForward
=============================================================================
