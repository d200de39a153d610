------------------------------- MODULE MemoSheet -------------------------------
(***************************************************************************)
(* A shared sheet: one row of cells, edited by everybody without a lock.   *)
(* A write is a batch of cells, each with the revision its editor had on   *)
(* the screen; the store applies, in one transaction, the cells whose      *)
(* revision still is that one and reports the others as conflicts.  Blank  *)
(* cells have no row in the store (revision 0), so a cell that is blanked  *)
(* and filled again starts over at revision 1.  Merging a range blanks all *)
(* its cells but the first.  How a change reaches the members' caches is   *)
(* the business of RowFeed.                                                *)
(*                                                                         *)
(* A value is a number nobody wrote before; life counts how often a cell   *)
(* was filled from blank (a history annotation that no guard reads).       *)
(***************************************************************************)
EXTENDS Naturals, Sequences, FiniteSets

CONSTANTS Editors,   \* the host's interface and the members
          Cols,      \* number of cells
          MaxCells,  \* MAX_SHEET_CELLS: non-blank cells of a sheet
          MaxValue   \* values ever written

Cells == 1 .. Cols
Ranges == {r \in Cells \X Cells : r[1] < r[2]}
Blank == [rev |-> 0, val |-> 0, life |-> 0]

VARIABLES
    there,    \* the sheet exists
    cells,    \* sheet_cells
    merges,   \* sheet_merges: pairs of first and last cell
    shown,    \* shown[e]: the cells on e's screen
    fresh,    \* the next value
    blind     \* history: the worst overwrite so far

sheetVars == <<there, cells, merges, shown, fresh, blind>>

AllBlank == [c \in Cells |-> Blank]
Within(c, r) == r[1] <= c /\ c <= r[2]
Overlaps(r, q) == r[1] <= q[2] /\ q[1] <= r[2]
Filled(f) == {c \in Cells : f[c].rev > 0}

Init ==
    /\ there = FALSE /\ cells = AllBlank /\ merges = {}
    /\ shown = [e \in Editors |-> AllBlank] /\ fresh = 1
    /\ blind = "no"

SheetCreate ==
    /\ ~there /\ fresh = 1 /\ there' = TRUE
    /\ UNCHANGED <<cells, merges, shown, fresh, blind>>

\* Cells, layout and merges go with the sheet; its id is never used again.
SheetDelete ==
    /\ there /\ there' = FALSE
    /\ cells' = AllBlank /\ merges' = {} /\ fresh' = MaxValue + 1
    /\ UNCHANGED <<shown, blind>>

\* SheetOp::Cells: the editor's screen shows the sheet as it is.
Open(e) ==
    /\ there /\ shown' = [shown EXCEPT ![e] = cells]
    /\ UNCHANGED <<there, cells, merges, fresh, blind>>

\* The row of a cell after an accepted write of v (0 blanks it).
Written(c, v) ==
    IF v = 0 THEN [Blank EXCEPT !.life = cells[c].life]
    ELSE [rev |-> cells[c].rev + 1, val |-> v,
          life |-> IF cells[c].rev = 0 THEN cells[c].life + 1 ELSE cells[c].life]

Accepted_NotBefore(e, S) == {c \in S : cells[c].rev >= shown[e][c].rev}

Accepted(e, S) == {c \in S : cells[c].rev = shown[e][c].rev}

\* How well the editor knew what the accepted cells replace.
Overwrite(e, S) ==
    LET unseen == {c \in Accepted(e, S) : cells[c].val # shown[e][c].val}
    IN CASE unseen = {} -> blind
         [] \E c \in unseen : cells[c].life = shown[e][c].life -> "same life"
         [] OTHER -> IF blind = "same life" THEN blind ELSE "other life"

\* One batch; a batch that needs more cells than there may be is refused whole.
Write(e, S, v) ==
    LET after == [c \in Cells |-> IF c \in Accepted(e, S) THEN Written(c, v) ELSE cells[c]]
    IN /\ there /\ S # {} /\ (v # 0 => fresh <= MaxValue)
       /\ Cardinality(Filled(after)) <= MaxCells
       /\ cells' = after
       /\ fresh' = IF v # 0 THEN fresh + 1 ELSE fresh
       /\ shown' = [shown EXCEPT ![e] = [c \in Cells |->
                       IF c \in S THEN after[c] ELSE shown[e][c]]]
       /\ blind' = Overwrite(e, S)
       /\ UNCHANGED <<there, merges>>

\* All but the first cell of the range are blanked.
Merge(r) ==
    LET hidden == {c \in Filled(cells) : Within(c, r) /\ c # r[1]}
        after == [c \in Cells |-> IF c \in hidden THEN Written(c, 0) ELSE cells[c]]
    IN /\ there /\ \A q \in merges : ~Overlaps(r, q)
       /\ merges' = merges \cup {r} /\ cells' = after
       /\ UNCHANGED <<there, shown, fresh, blind>>

Unmerge(c) ==
    /\ there /\ \E r \in merges :
         /\ Within(c, r) /\ merges' = merges \ {r}
    /\ UNCHANGED <<there, cells, shown, fresh, blind>>

Next ==
    \/ SheetCreate \/ SheetDelete
    \/ (\E e \in Editors : Open(e) \/ (\E S \in SUBSET Cells : Write(e, S, fresh) \/ Write(e, S, 0)))
    \/ (\E r \in Ranges : Merge(r))
    \/ (\E c \in Cells : Unmerge(c))

Spec == Init /\ [][Next]_sheetVars

Row == [rev : 0 .. MaxValue, val : 0 .. MaxValue, life : 0 .. MaxValue]
TypeOK ==
    /\ there \in BOOLEAN /\ cells \in [Cells -> Row]
    /\ merges \subseteq Ranges
    /\ shown \in [Editors -> [Cells -> Row]] /\ fresh \in 1 .. MaxValue + 1
    /\ blind \in {"no", "other life", "same life"}

(* Optimistic writing works while a cell lives: an accepted write never    *)
(* replaces a value its editor had not on the screen, however the batches, *)
(* merges and conflicts of the editors interleave.                         *)
KnownWhileAlive == blind # "same life"

(* The decision record's claim for cells (a cell changed in the meantime   *)
(* is a conflict, never overwritten): no accepted write replaces an unseen *)
(* value at all.                                                           *)
NeverBlind == blind = "no"

(* No two merged ranges share a cell, so a cell belongs to at most one     *)
(* range and unmerging by any of its cells is exact, whoever merges.       *)
MergesApart == \A r, q \in merges : r # q => ~Overlaps(r, q)

=================================================================================
