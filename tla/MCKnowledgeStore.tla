-------------------------- MODULE MCKnowledgeStore --------------------------
(***************************************************************************)
(* Instances of KnowledgeStore for TLC: one kernel family and one document *)
(* family.  What is released and what is registered are explored apart.    *)
(***************************************************************************)
EXTENDS KnowledgeStore, TLC

CONSTANTS kern, guide, small, big

(* "docs" sorts before "kernel". *)
MCRank == [f \in Family |-> IF f = guide THEN 1 ELSE 2]

LinkTo(relation, f, v) ==
  [relation |-> relation, to |-> [family |-> f, version |-> v]]

Save(status, body, links) == [status |-> status, body |-> body, links |-> links]

(* Publications only, one of which the kernel lint refuses. *)
ActivePayload == {Save("active", small, {}), Save("active", big, {})}

(* Two contents and both statuses, no links. *)
PlainPayload ==
  {Save("draft", small, {}), Save("active", small, {}), Save("active", big, {})}

(* Active documents that reference one version of a family and that say what
   they supersede: a target may be missing, a draft, active or superseded. *)
LinkedPayload ==
  PlainPayload \cup
    {Save("active", small, {LinkTo("reference", kern, 1)}),
     Save("active", small, {LinkTo("supersedes", guide, 1)})}

VARIABLE part

(* Saves and cuts alone: no edit or claim conflicts. *)
ReleaseNext ==
  \/ \E f \in Family, p \in Payload : SaveDoc(f, None, p)
  \/ CutRefused
  \/ CutRelease(None)
  \/ \E i \in DOMAIN conflicts, seen \in 1..MaxAttempts : ResolveKeep(i, seen)

(* Every operation, with publications only, at most two of a family, and bases
   that may be too high. *)
RegisterNext ==
  \/ \E f \in Family, base \in 0..2 \cup {None}, p \in ActivePayload :
       \/ Current(f) < 2 /\ SaveDoc(f, base, p)
       \/ SaveStale(f, base, p)
  \/ CutRefused
  \/ \E h \in Hash : CutRelease(h)
  \/ \E f \in Family, other \in Family \cup {None} : FlagClaim(f, other)
  \/ \E i \in DOMAIN conflicts, seen \in 1..MaxAttempts :
       \/ ResolveKeep(i, seen)
       \/ \E base \in 0..2 \cup {None}, p \in ActivePayload :
            Current(conflicts[i].family) < 2 /\ ResolveSave(i, seen, base, p)

(* A cut that is refused again adds nothing to releases. *)
ReleaseRegion ==
  /\ Len(conflicts) <= 1
  /\ \A i \in DOMAIN conflicts : conflicts[i].attempts = 1

(* The second family is needed for pairs of claims: one document of each is
   enough then, and no release.  Only the newest record has a second attempt. *)
RegisterRegion ==
  /\ \/ docs[guide] = <<>> /\ \A i \in DOMAIN conflicts :
          guide \notin {conflicts[i].family, conflicts[i].other}
     \/ releases = <<>> /\ \A f \in Family : Current(f) <= 1
        /\ \A i \in DOMAIN conflicts : conflicts[i].kind = "claim"
  /\ \A i, j \in DOMAIN conflicts : i < j => conflicts[i].attempts = 1

Region == IF part = "release" THEN ReleaseRegion ELSE RegisterRegion

MCInit == Init /\ part \in {"release", "register"}

MCNext ==
  /\ UNCHANGED part
  /\ \/ part = "release" /\ ReleaseNext
     \/ part = "register" /\ RegisterNext

MCSpec == MCInit /\ [][MCNext]_<<part, vars>>
=============================================================================
