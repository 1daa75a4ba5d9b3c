---------------------------- MODULE ManagedBlock ----------------------------
(***************************************************************************)
(* adapters/codex/update-agents-md.sh: the block it keeps in AGENTS.md,    *)
(* rewritten line by line in place, beside a user who edits the rest of    *)
(* the file at any time, for the script takes no lock, and a subscriber    *)
(* that flips the corpus.  A file is a sequence of lines; awk reads it in  *)
(* one step.  akk_resolve_kernel of adapters/lib/kernel-path.sh follows    *)
(* the corpus link twice, and prints the path of the kernel in the         *)
(* directory it found; a release directory is neither changed nor removed. *)
(***************************************************************************)
EXTENDS Naturals, Sequences, SequencesExt

CONSTANTS
  Mine,         \* lines of the user
  Kernel,       \* kernels of releases: sequences of lines
  Begin, End,   \* the markers
  Blank,        \* the empty line that ends the kernel
  None,         \* no corpus, no path
  MaxEdit,      \* bound: edits of the user
  MaxFlip       \* bound: flips of the corpus

VARIABLES
  corpus,       \* the directory under the corpus link, and the kernel in it
  target,       \* AGENTS.md
  pc,           \* "idle", "resolve", "check", "filter", "truncate" or "write"
  root,         \* corpus_root_phys
  kernel,       \* $KERNEL: what is under the path resolved
  tmp,          \* $tmp
  todo,         \* lines still to be written to the target
  aside,        \* the user has saved the file since the script truncated it
  edits, flips,
  (* history *)
  mine,         \* the lines the user has written, in order
  ran,          \* the kernel of the last run that wrote, None if it was cut
                \* short or the user saved the file meanwhile
  torn,         \* a run was cut short between the truncation and the end
  raced         \* the user saved the file between awk's start and a run's end

run == <<pc, root, kernel, tmp, todo, aside>>
vars == <<corpus, target, run, edits, flips, mine, ran, torn, raced>>

Marker == {Begin, End}

Init ==
  /\ corpus = None
  /\ mine \in {<<>>} \cup {<<u>> : u \in Mine}
  /\ target = mine
  /\ pc = "idle" /\ root = 0 /\ kernel = None /\ tmp = <<>> /\ todo = <<>>
  /\ aside = FALSE
  /\ edits = 0 /\ flips = 0
  /\ ran = None /\ torn = FALSE /\ raced = FALSE

-----------------------------------------------------------------------------
(* The subscriber and the user. *)

Flip(k) ==
  /\ flips < MaxFlip
  /\ corpus' = [dir |-> flips + 1, kernel |-> k]
  /\ flips' = flips + 1
  /\ UNCHANGED <<target, run, edits, mine, ran, torn, raced>>

(* A line is put in front of the file or behind it.  Editors save in place, so
   that the script writes on where it was, or put a new file in its place, so
   that what the script still writes is seen by nobody. *)
Edit(u) ==
  /\ edits < MaxEdit
  /\ edits' = edits + 1
  /\ \/ target' = <<u>> \o target /\ mine' = <<u>> \o mine
     \/ target' = Append(target, u) /\ mine' = Append(mine, u)
  /\ aside' = (pc = "write")
  /\ todo' \in {todo, <<>>}
  /\ raced' = (raced \/ pc \in {"filter", "truncate", "write"})
  /\ UNCHANGED <<corpus, pc, root, kernel, tmp, flips, ran, torn>>

-----------------------------------------------------------------------------
(* The script. *)

(* Mutant: the path still goes through the link when the kernel is read. *)
HeldByLink == corpus.kernel

(* What is read from the path that was resolved. *)
Held == kernel

(* The script ends, one way or another. *)
Ends ==
  /\ pc' = "idle" /\ root' = 0 /\ kernel' = None /\ tmp' = <<>> /\ todo' = <<>>
  /\ aside' = FALSE

ResolveRoot ==
  /\ pc = "idle" /\ corpus # None
  /\ root' = corpus.dir
  /\ pc' = "resolve"
  /\ UNCHANGED <<corpus, target, kernel, tmp, todo, aside, edits, flips, mine, ran, torn, raced>>

(* A kernel that is no longer in the directory found first is refused. *)
ResolveKernel ==
  /\ pc = "resolve"
  /\ IF corpus.dir = root
       THEN pc' = "check" /\ kernel' = corpus.kernel /\ UNCHANGED <<root, tmp, todo, aside>>
       ELSE Ends
  /\ UNCHANGED <<corpus, target, edits, flips, mine, ran, torn, raced>>

(* grep: a kernel that holds a marker is refused. *)
CheckKernel ==
  /\ pc = "check"
  /\ IF Range(Held) \cap Marker # {} THEN Ends
     ELSE pc' = "filter" /\ UNCHANGED <<root, kernel, tmp, todo, aside>>
  /\ UNCHANGED <<corpus, target, edits, flips, mine, ran, torn, raced>>

(* The awk program. *)
Kept(file) ==
  FoldLeft(LAMBDA s, l : IF l \in Marker THEN [s EXCEPT !.inblock = (l = Begin)]
                         ELSE IF s.inblock THEN s
                         ELSE [s EXCEPT !.out = Append(@, l)],
           [inblock |-> FALSE, out |-> <<>>], file).out

Filter ==
  /\ pc = "filter"
  /\ tmp' = Kept(target)
  /\ pc' = "truncate"
  /\ UNCHANGED <<corpus, target, root, kernel, todo, aside, edits, flips, mine, ran, torn, raced>>

(* The redirection empties the file, and the group begins to fill it. *)
Truncate ==
  /\ pc = "truncate"
  /\ target' = <<>>
  /\ todo' = tmp \o <<Begin>> \o Held \o <<Blank, End>>
  /\ pc' = "write"
  /\ UNCHANGED <<corpus, root, kernel, tmp, aside, edits, flips, mine, ran, torn, raced>>

(* The place of the next line: behind those the script has written.  The user
   may have put others there. *)
Place == Len(tmp) + Len(kernel) + 4 - Len(todo)

Write ==
  /\ pc = "write" /\ todo # <<>>
  /\ target' = IF Place > Len(target) THEN Append(target, Head(todo))
                                      ELSE [target EXCEPT ![Place] = Head(todo)]
  /\ todo' = Tail(todo)
  /\ UNCHANGED <<corpus, pc, root, kernel, tmp, aside, edits, flips, mine, ran, torn, raced>>

Finish ==
  /\ pc = "write" /\ todo = <<>>
  /\ Ends
  /\ ran' = IF aside THEN None ELSE kernel
  /\ UNCHANGED <<corpus, target, edits, flips, mine, torn, raced>>

(* The script is killed, or a command of it fails. *)
Crash ==
  /\ pc # "idle"
  /\ Ends
  /\ ran' = IF pc = "write" THEN None ELSE ran
  /\ torn' = (torn \/ pc = "write")
  /\ UNCHANGED <<corpus, target, edits, flips, mine, raced>>

-----------------------------------------------------------------------------
Run == ResolveRoot \/ ResolveKernel \/ CheckKernel \/ Filter \/ Truncate \/ Write \/ Finish

Next ==
  \/ \E k \in Kernel : Flip(k)
  \/ \E u \in Mine : Edit(u)
  \/ Run \/ Crash

Spec == Init /\ [][Next]_vars

-----------------------------------------------------------------------------
(* What must hold. *)

Outside(file) ==
  FoldLeft(LAMBDA s, l : IF l \in Mine THEN Append(s, l) ELSE s, <<>>, file)

(* "Leaves everything outside the markers untouched": between runs the file
   has every line of the user, once and in order. *)
Untouched == pc = "idle" => Outside(target) = mine

(* The same, runs that are killed in the middle of their write left aside: what
   the header of the script says, and what a save between awk's reading and the
   last write breaks. *)
UntouchedUnlessKilled == torn \/ Untouched

(* Nothing else costs the user a line, whatever runs, flips and saves there
   are. *)
OutsideUntouched == torn \/ raced \/ Untouched

(* After a run that was not cut short, nor written over by the user, whatever
   came before it, the file has one pair of markers with the kernel of one
   release between them, whole and free of markers, although the corpus was
   flipped on the way. *)
OneWholeBlock ==
  pc = "idle" /\ ran # None =>
    LET at(l) == {i \in DOMAIN target : target[i] = l}
    IN  \E b \in at(Begin), e \in at(End) :
          /\ at(Begin) = {b} /\ at(End) = {e}
          /\ SubSeq(target, b + 1, e - 1) = ran \o <<Blank>>

(* What every state of update-agents-md.sh satisfies: the lines of the user
   stay, and a run that ended left one whole block. *)
BlockInvariant == OutsideUntouched /\ OneWholeBlock
=============================================================================
