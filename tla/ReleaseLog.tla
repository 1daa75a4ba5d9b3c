----------------------------- MODULE ReleaseLog -----------------------------
(***************************************************************************)
(* What the knowledge server promises the hosts that subscribe to it: a    *)
(* log of releases that only grows.  A release is the set of documents of  *)
(* its archive, each path with one body; its id is its position.  A        *)
(* document that was published stays published, possibly with another body.*)
(***************************************************************************)
EXTENDS Naturals, Sequences

CONSTANTS Family, Body

VARIABLE log

(* An archive: at least one document, one body for each path. *)
Archive ==
  {a \in SUBSET (Family \X Body) :
     a # {} /\ \A d, e \in a : d[1] = e[1] => d = e}

Paths(a) == {d[1] : d \in a}

Latest == IF log = <<>> THEN {} ELSE log[Len(log)]

Init == log = <<>>

Publish ==
  \E a \in Archive :
    /\ Paths(Latest) \subseteq Paths(a)
    /\ log' = Append(log, a)

Spec == Init /\ [][Publish]_log
=============================================================================
