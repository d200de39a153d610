------------------------------ MODULE LineDiff ------------------------------
(***************************************************************************)
(* The comparison of two bodies of a memo line by line (diff_lines and     *)
(* lcs_diff, peercove-memo/src/lib.rs), which a conflict and the history   *)
(* of a shared memo show.  A line is a value; a difference is a sequence   *)
(* of [kind, text].                                                        *)
(***************************************************************************)
EXTENDS Naturals, Sequences, FiniteSets

CONSTANTS Lines,      \* what a line may say
          MaxLines,   \* the longest body compared
          MaxProduct  \* stands for the 4,000,000 above which no table is built

DiffAssumption == MaxLines \in Nat /\ MaxProduct \in Nat

VARIABLES old, new, shownDiff

diffVars == <<old, new, shownDiff>>

Bodies == UNION {[1..n -> Lines] : n \in 0..MaxLines}
Smaller(a, b) == IF a <= b THEN a ELSE b

Marked(kind, s) == [i \in 1..Len(s) |-> [kind |-> kind, text |-> s[i]]]

(* The table of lcs_diff: the longest common subsequence of the rests that *)
(* start at i and j.                                                       *)
Table(a, b) ==
  LET dp[i \in 1..Len(a) + 1, j \in 1..Len(b) + 1] ==
        IF i > Len(a) \/ j > Len(b) THEN 0
        ELSE IF a[i] = b[j] THEN dp[i + 1, j + 1] + 1
        ELSE IF dp[i + 1, j] >= dp[i, j + 1] THEN dp[i + 1, j] ELSE dp[i, j + 1]
  IN dp

(* lcs_diff: from the front, an equal pair is kept; otherwise the line     *)
(* whose removal or addition keeps the longer common rest goes first.      *)
LcsDiff(a, b) ==
  LET dp == Table(a, b)
      walk[i \in 1..Len(a) + 1, j \in 1..Len(b) + 1] ==
        IF i > Len(a) THEN Marked("added", SubSeq(b, j, Len(b)))
        ELSE IF j > Len(b) THEN Marked("removed", SubSeq(a, i, Len(a)))
        ELSE IF a[i] = b[j] THEN Marked("same", <<a[i]>>) \o walk[i + 1, j + 1]
        ELSE IF dp[i + 1, j] >= dp[i, j + 1]
               THEN Marked("removed", <<a[i]>>) \o walk[i + 1, j]
               ELSE Marked("added", <<b[j]>>) \o walk[i, j + 1]
  IN walk[1, 1]

(* The common beginning, and the common end of what is left.               *)
Prefix(a, b) ==
  CHOOSE n \in 0..Smaller(Len(a), Len(b)) :
    /\ \A i \in 1..n : a[i] = b[i]
    /\ n < Smaller(Len(a), Len(b)) => a[n + 1] # b[n + 1]

SuffixOverlapping(a, b) ==
  CHOOSE n \in 0..Smaller(Len(a), Len(b)) :
    /\ \A i \in 0..n - 1 : a[Len(a) - i] = b[Len(b) - i]
    /\ n < Smaller(Len(a), Len(b)) => a[Len(a) - n] # b[Len(b) - n]

Suffix(a, b) ==
  LET most == Smaller(Len(a), Len(b)) - Prefix(a, b)
  IN CHOOSE n \in 0..most :
       /\ \A i \in 0..n - 1 : a[Len(a) - i] = b[Len(b) - i]
       /\ n < most => a[Len(a) - n] # b[Len(b) - n]

DiffLines(a, b) ==
  LET p == Prefix(a, b)
      s == Suffix(a, b)
      aMid == SubSeq(a, p + 1, Len(a) - s)
      bMid == SubSeq(b, p + 1, Len(b) - s)
      mid == IF Len(aMid) * Len(bMid) > MaxProduct
               THEN Marked("removed", aMid) \o Marked("added", bMid)
               ELSE LcsDiff(aMid, bMid)
  IN Marked("same", SubSeq(a, 1, p)) \o mid
       \o Marked("same", SubSeq(a, Len(a) - s + 1, Len(a)))

DiffInit == old = <<>> /\ new = <<>> /\ shownDiff = <<>>

(* Two bodies are compared.                                                *)
Compare == /\ old = <<>> /\ new = <<>>
           /\ old' \in Bodies /\ new' \in Bodies
           /\ shownDiff' = DiffLines(old', new')

DiffNext == Compare

DiffSpec == DiffInit /\ [][DiffNext]_diffVars

-----------------------------------------------------------------------------

Texts(d, kinds) == LET s == SelectSeq(d, LAMBDA e : e.kind \in kinds)
                   IN [i \in 1..Len(s) |-> s[i].text]

(* The reference: the length of the longest sequence of lines found in     *)
(* order in both bodies.                                                   *)
Subsequences(s) ==
  {[i \in 1..Cardinality(I) |->
      s[CHOOSE k \in I : Cardinality({j \in I : j <= k}) = i]] : I \in SUBSET (1..Len(s))}
LongestCommon(a, b) ==
  CHOOSE n \in 0..Len(a) :
    /\ \E c \in Subsequences(a) \cap Subsequences(b) : Len(c) = n
    /\ \A c \in Subsequences(a) \cap Subsequences(b) : Len(c) <= n

(* A difference shown to the user is one: without the added lines it is    *)
(* the old body, without the removed ones the new; and unless the bodies   *)
(* are too large to compare it keeps as many lines as can be kept, also    *)
(* after the common beginning and end were set apart (diff_lines).         *)
DiffTrue ==
  /\ Texts(shownDiff, {"same", "removed"}) = old
  /\ Texts(shownDiff, {"same", "added"}) = new
  /\ Len(old) * Len(new) <= MaxProduct =>
       Len(Texts(shownDiff, {"same"})) = LongestCommon(old, new)
=============================================================================
