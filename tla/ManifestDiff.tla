---------------------------- MODULE ManifestDiff ----------------------------
(***************************************************************************)
(* manifestDiff of knowledge-server/ui/lib.mjs: what the publish view      *)
(* lists as added, removed and changed between the current release and the *)
(* candidate.  Its two loops look at one entry of a manifest at a time.  A *)
(* manifest is a function from paths to entries; the path names the        *)
(* family, so family_id is left out, and sha256 is the body it hashes.     *)
(***************************************************************************)
EXTENDS Naturals, Functions

CONSTANTS
  Path,         \* paths of documents
  Body,         \* bodies
  MaxVersion    \* bound: versions

VARIABLES
  old, new,                   \* the two manifests
  newLeft, oldLeft,           \* paths the loops have yet to look at
  added, removed, changed     \* the answer

vars == <<old, new, newLeft, oldLeft, added, removed, changed>>

Entry == [version : 1..MaxVersion, sha256 : Body]
Manifest == UNION {[P -> Entry] : P \in SUBSET Path}

Init ==
  /\ old \in Manifest /\ new \in Manifest
  /\ newLeft = DOMAIN new /\ oldLeft = DOMAIN old
  /\ added = {} /\ removed = {} /\ changed = {}

(* Mutant: the versions are compared. *)
DiffersInVersion(p) == old[p].version # new[p].version

Differs(p) == old[p].sha256 # new[p].sha256

LookAtNew(p) ==
  /\ p \in newLeft
  /\ newLeft' = newLeft \ {p}
  /\ added' = IF p \notin DOMAIN old THEN added \cup {p} ELSE added
  /\ changed' = IF p \in DOMAIN old /\ Differs(p) THEN changed \cup {p} ELSE changed
  /\ UNCHANGED <<old, new, oldLeft, removed>>

LookAtOld(p) ==
  /\ newLeft = {} /\ p \in oldLeft
  /\ oldLeft' = oldLeft \ {p}
  /\ removed' = IF p \notin DOMAIN new THEN removed \cup {p} ELSE removed
  /\ UNCHANGED <<old, new, newLeft, added, changed>>

Next == \E p \in Path : LookAtNew(p) \/ LookAtOld(p)

Spec == Init /\ [][Next]_vars

-----------------------------------------------------------------------------
Done == newLeft = {} /\ oldLeft = {}

(* What hosts get: path and body. *)
Tree(m) == [p \in DOMAIN m |-> m[p].sha256]

(* The answer tells everything that happens to a host that moves from the old
   release to the new one: taking the removed paths away and putting the added
   and changed ones in place turns one tree into the other, and no path is
   listed twice or without a difference of its entries.  An entry that differs
   in its version alone changes no host; whether it belongs in the list is left
   open here, because the comment of manifestDiff ("equality of {family_id,
   version, sha256} decides") says yes and Differs says no. *)
TellsWhatHostsGet ==
  Done =>
    LET kept == Restrict(Tree(old), DOMAIN old \ (removed \cup changed))
        put == Restrict(Tree(new), added \cup changed)
    IN  /\ Tree(new) = [p \in DOMAIN kept \cup DOMAIN put |->
                          IF p \in DOMAIN put THEN put[p] ELSE kept[p]]
        /\ added \cap DOMAIN old = {}
        /\ removed \subseteq DOMAIN old \ DOMAIN new
        /\ \A p \in changed : old[p] # new[p]
=============================================================================
