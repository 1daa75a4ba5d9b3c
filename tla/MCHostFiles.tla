---------------------------- MODULE MCHostFiles -----------------------------
(***************************************************************************)
(* HostFiles for TLC.  Its three parts are explored apart: those that part *)
(* does not name stay as they start.                                       *)
(***************************************************************************)
EXTENDS HostFiles, TLC

CONSTANTS k1, k2

VARIABLE part

Elem == {"a", "b", ".", "..", ""}

(* Paths of up to two elements, and longer ones that go up, or nowhere. *)
MCName ==
  {<<d>> : d \in Elem} \cup (Elem \X Elem)
    \cup {<<"a", "..", "b">>, <<"a", "..", "..">>, <<"..", "..", "corpus">>,
          <<"a", "", "b">>, <<"a", ".", "b">>}

(* Families, some of which are no identifiers; "long" stands for one that is an
   identifier, of a document whose file name is longer than 255 bytes. *)
MCFamily ==
  {<<"a">>, <<"b">>, <<"long">>, <<"">>, <<".">>, <<"..">>, <<"..", "b">>, <<"a.md", "b">>}
MCLong == {"long.md"}

(* A kernel of one line, one of two, and one that quotes a marker. *)
MCKernel == {<<k1>>, <<k2, k1>>, <<k2, End, k1>>}

agents ==
  <<corpus, target, pc, root, kernel, tmp, todo, aside, edits, flips, mine, ran, torn,
    raced>>
shown == <<latest, row, flag, stamp, fleet, call>>

NoTree == Init /\ docs = <<>>
NoBlock == Agents!Init /\ mine = <<>>
NoPage == Page!Init /\ latest = 0

MCInit ==
  \/ part = "tree" /\ Init /\ NoBlock /\ NoPage
  \/ part = "block" /\ Agents!Init /\ NoTree /\ NoPage
  \/ part = "page" /\ Page!Init /\ NoTree /\ NoBlock

MCNext ==
  /\ UNCHANGED part
  /\ \/ part = "tree" /\ Next /\ UNCHANGED <<agents, shown>>
     \/ part = "block" /\ Agents!Next /\ UNCHANGED <<vars, shown>>
     \/ part = "page" /\ Page!Next /\ UNCHANGED <<vars, agents>>

MCSpec == MCInit /\ [][MCNext]_<<part, vars, agents, shown>>

Symmetry == Permutations(Slot)

Alone == \E s \in Slot : \A t \in Slot \ {s} : call[t] = None
Succeed == \A h \in Host : row[h] = None \/ row[h].ok

(* Requests overlap within one unit of time and while hosts succeed, hosts fail
   at the start, and a clock that is set back or goes on further meets one
   request and no resync. *)
Region ==
  \/ Alone /\ stamp.back = 0 /\ stamp.time = 0
  \/ Succeed /\ stamp.back = 0 /\ stamp.time <= 1
  \/ Alone /\ Succeed /\ \A h \in Host : ~flag[h]

(* A property of ManagedBlock, by its name there. *)
UntouchedUnlessKilled == Agents!UntouchedUnlessKilled
=============================================================================
