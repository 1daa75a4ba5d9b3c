---------------------------- MODULE MCSubscriber ----------------------------
(***************************************************************************)
(* Instances of Subscriber for TLC.                                        *)
(***************************************************************************)
EXTENDS Subscriber, TLC

Symmetry == Permutations(Proc) \cup Permutations(Body)

(* A release is rebuilt as often as markers are lost, and two processes can
   rebuild without end, each finding the marker the other has just truncated:
   states that hold the last copy of a release go no further. *)
CopiesLeft == \A d \in DOMAIN dirs : d.copy < MaxCopy

(* A second request meets one fault. *)
Region == CopiesLeft /\ (requests <= 1 \/ faults <= 1)

(* Symmetry is unsound for liveness; which body the first release has makes no
   difference all the same. *)
FirstBody == CHOOSE b \in Body : TRUE

MCNext ==
  /\ Next
  /\ log = <<>> => log' \in {<<>>, <<Family \X {FirstBody}>>}

MCFairSpec == Init /\ [][MCNext]_vars /\ Fairness
=============================================================================
