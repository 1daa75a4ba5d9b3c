------------------------------ MODULE LineDiff ------------------------------
(***************************************************************************)
(* lineDiff of knowledge-server/ui/lib.mjs, which every diff of the page   *)
(* is drawn from: the table of longest common subsequences, and the walk   *)
(* back through it, one row per step.  The rows are kept in the order in   *)
(* which they are displayed, so a step puts one in front.  The byte budget *)
(* is left out beside the budgets of lines and of their product.           *)
(***************************************************************************)
EXTENDS Naturals, Sequences, SequencesExt

CONSTANTS
  Line,         \* lines of text
  MaxLength,    \* bound: lines of an input
  MaxLines,     \* DIFF_MAX_LINES
  MaxProduct    \* DIFF_MAX_PRODUCT

VARIABLES
  a, b,       \* the two bodies
  i, j,       \* how much of each is left to walk
  rows,       \* the rows found so far
  phase       \* "start", "walk", "done" or "tooLarge"

vars == <<a, b, i, j, rows, phase>>

(* split("\n") gives a line at least. *)
Texts == UNION {[1..n -> Line] : n \in 1..MaxLength}

Init ==
  /\ a \in Texts /\ b \in Texts
  /\ i = Len(a) /\ j = Len(b)
  /\ rows = <<>>
  /\ phase = "start"

TooLarge ==
  \/ Len(a) > MaxLines \/ Len(b) > MaxLines
  \/ Len(a) * Len(b) > MaxProduct

(* The table dp: the longest common subsequence of the first x lines of a and
   the first y of b. *)
dp == LET t[cell \in (0..Len(a)) \X (0..Len(b))] ==
            LET x == cell[1]
                y == cell[2]
            IN  IF x = 0 \/ y = 0 THEN 0
                ELSE IF a[x] = b[y] THEN t[<<x - 1, y - 1>>] + 1
                ELSE LET up == t[<<x - 1, y>>]
                         left == t[<<x, y - 1>>]
                     IN  IF up > left THEN up ELSE left
      IN  t

Start ==
  /\ phase = "start"
  /\ phase' = IF TooLarge THEN "tooLarge" ELSE "walk"
  /\ UNCHANGED <<a, b, i, j, rows>>

Row(tag, text) == [tag |-> tag, text |-> text]
Push(tag, text) == rows' = <<Row(tag, text)>> \o rows

Eq ==
  /\ phase = "walk" /\ i > 0 /\ j > 0 /\ a[i] = b[j]
  /\ Push("eq", a[i])
  /\ i' = i - 1 /\ j' = j - 1
  /\ UNCHANGED <<a, b, phase>>

(* Mutant: the smaller entry is followed. *)
UpWhenSmaller == dp[<<i - 1, j>>] < dp[<<i, j - 1>>]

(* Follow the larger of the two entries, the left one on a tie. *)
Up == dp[<<i - 1, j>>] > dp[<<i, j - 1>>]

Del ==
  /\ phase = "walk" /\ i > 0
  /\ j > 0 => a[i] # b[j] /\ Up
  /\ Push("del", a[i])
  /\ i' = i - 1
  /\ UNCHANGED <<a, b, j, phase>>

Add ==
  /\ phase = "walk" /\ j > 0
  /\ i > 0 => a[i] # b[j] /\ ~Up
  /\ Push("add", b[j])
  /\ j' = j - 1
  /\ UNCHANGED <<a, b, i, phase>>

Finish ==
  /\ phase = "walk" /\ i = 0 /\ j = 0
  /\ phase' = "done"
  /\ UNCHANGED <<a, b, i, j, rows>>

Next == Start \/ Eq \/ Del \/ Add \/ Finish

Spec == Init /\ [][Next]_vars

-----------------------------------------------------------------------------
(* The lines of the rows rs that are tagged so. *)
Texted(rs, tags) ==
  FoldLeft(LAMBDA s, r : IF r.tag \in tags THEN Append(s, r.text) ELSE s, <<>>, rs)

(* The rows show both bodies whole and in order, whatever is matched: nothing
   of what an operator compares is lost or made up. *)
ShowsBoth ==
  phase = "done" => Texted(rows, {"eq", "del"}) = a /\ Texted(rows, {"eq", "add"}) = b

(* The ways to pick lines in order, by the number of lines there are. *)
Picks ==
  [m \in 0..MaxLength |->
     UNION {{f \in [1..n -> 1..m] : \A k \in 1..(n - 1) : f[k] < f[k + 1]} : n \in 0..m}]

(* A common subsequence, by definition: lines of a picked in order that can be
   found in b in order. *)
Subsequences(s) == {[k \in DOMAIN f |-> s[f[k]]] : f \in Picks[Len(s)]}

Common == Subsequences(a) \cap Subsequences(b)

(* No diff of the two bodies marks fewer lines. *)
Shortest ==
  phase = "done" => \A c \in Common : Len(Texted(rows, {"eq"})) >= Len(c)

(* "this puts a replacement's del before its add in the displayed order"
   (lineDiff): an added line is never directly followed by a deleted one. *)
DelBeforeAdd ==
  \A k \in 1..(Len(rows) - 1) : ~(rows[k].tag = "add" /\ rows[k + 1].tag = "del")

(* What lineDiff promises: a diff is whole, shortest, and in the displayed
   order. *)
DiffInvariant == ShowsBoth /\ Shortest /\ DelBeforeAdd
=============================================================================
