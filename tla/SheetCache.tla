----------------------------- MODULE SheetCache -----------------------------
(***************************************************************************)
(* Shared sheets as one member sees them.  The host announces every change *)
(* of a sheet; the member's cache keeps them for reading, connected or     *)
(* not.  On connecting, the member asks for the list of sheets and then    *)
(* for the content of the first few, one after the other, in a task beside *)
(* the reader of the connection that applies events.  Who looks at which   *)
(* sheet (presence) is kept in memory only, and expires.                   *)
(***************************************************************************)
EXTENDS Naturals, Sequences, FiniteSets, FiniteSetsExt

CONSTANTS MaxSheets,   \* sheets, numbered in the order they are created
          SyncLimit,   \* SHEET_SYNC_LIMIT
          Lookers,     \* members that select cells
          Me,          \* the member whose cache it is
          MaxEdit,     \* changes on the host
          MaxLook,     \* selections
          MaxLate,     \* announcements not sent yet
          MaxJoin      \* connections made

VARIABLES sheet,       \* [meta, cell, look] of each sheet; meta is 0 without one
          copy,        \* the same in the cache
          late,        \* announcements due
          link,        \* [up, wire, sync, slot, todo]
          calm,        \* history: nothing changed since the connection was made
          at,          \* the sheet each looker is at in the host's table, 0 for none
          shown,       \* lookers the member's cache has for each sheet
          count        \* [edit, look, join]

sheetVars == <<sheet, copy, late, link, calm, at, shown, count>>

Sheets == 1..MaxSheets
NoSheet == [meta |-> 0, cell |-> 0, look |-> 0]
Down == [up |-> FALSE, wire |-> << >>, sync |-> "off", slot |-> NoSheet, todo |-> {}]

Contents == [meta : 0..MaxEdit, cell : 0..MaxEdit, look : 0..MaxEdit]
Numbers == 0..MaxSheets

TypeOK == /\ sheet \in [Sheets -> Contents] /\ copy \in [Sheets -> Contents]
          /\ Cardinality(late) <= MaxLate + 1
          /\ link.up \in BOOLEAN /\ link.todo \subseteq Sheets
          /\ link.sync \in {"off", "ask", "asked", "answered", "listed", "cells", "got", "done"}
          /\ calm \in BOOLEAN
          /\ at \in [Lookers -> Numbers] /\ shown \in [Sheets -> SUBSET Lookers]
          /\ count \in [edit : 0..MaxEdit, look : 0..MaxLook, join : 0..MaxJoin]

Init == /\ sheet = [s \in Sheets |-> NoSheet] /\ copy = sheet
        /\ late = {} /\ link = Down /\ calm = FALSE
        /\ at = [p \in Lookers |-> 0] /\ shown = [s \in Sheets |-> {}]
        /\ count = [edit |-> 0, look |-> 0, join |-> 0]

Exists(s) == sheet[s].meta > 0
Existing == {s \in Sheets : Exists(s)}

(***************************************************************************)
(* The host: a change of the store, and an announcement that a later step  *)
(* sends, beside those of other handlers                                   *)
(***************************************************************************)
Edit(s, row, kind) ==
  /\ count.edit < MaxEdit /\ Cardinality(late) < MaxLate
  /\ count' = [count EXCEPT !.edit = @ + 1]
  /\ sheet' = [sheet EXCEPT ![s] = row]
  /\ late' = late \cup {[k |-> kind, s |-> s, n |-> count.edit + 1, row |-> row, who |-> {}]}
  /\ calm' = FALSE
  /\ UNCHANGED <<copy, link, at, shown>>

Stamp == count.edit + 1
SheetCreate(s) == /\ \A t \in Sheets : Exists(t) => t < s
                  /\ ~Exists(s) /\ Edit(s, [NoSheet EXCEPT !.meta = Stamp], "meta")
SheetRename(s) == Exists(s) /\ Edit(s, [sheet[s] EXCEPT !.meta = Stamp], "meta")
\* sheet_set_settings: the grid lines and the frozen rows are part of it too.
SheetSettings(s) == Exists(s) /\ Edit(s, [sheet[s] EXCEPT !.meta = Stamp], "meta")
SheetDelete(s) == Exists(s) /\ Edit(s, NoSheet, "removed")
\* sheet_write: an empty cell with the default format is deleted.
SheetWrite(s, empty) ==
  /\ Exists(s) /\ ~(empty /\ sheet[s].cell = 0)
  /\ Edit(s, [sheet[s] EXCEPT !.cell = IF empty THEN 0 ELSE Stamp], "cells")
\* sheet_set_col_width, sheet_set_row_height, sheet_merge, sheet_unmerge.
SheetLayout(s) == Exists(s) /\ Edit(s, [sheet[s] EXCEPT !.look = Stamp], "look")

(* Presence: one entry per member, whatever sheet it was at before; the    *)
(* list of the new sheet is taken at once and sent later to all but the    *)
(* sender.                                                                 *)
At(s, table) == {p \in Lookers : table[p] = s}
Announce(s, table, n) == [k |-> "presence", s |-> s, n |-> n, row |-> NoSheet,
                          who |-> At(s, table)]
Select(p, s) ==
  /\ count.look < MaxLook /\ Cardinality(late) < MaxLate
  /\ count' = [count EXCEPT !.look = @ + 1]
  /\ at' = [at EXCEPT ![p] = s]
  /\ late' = IF p = Me THEN late ELSE late \cup {Announce(s, at', count'.look)}
  /\ UNCHANGED <<sheet, copy, link, calm, shown>>

(* sweep_sheet_presence: who was silent for ten seconds goes, and its      *)
(* sheet is announced to everyone.                                         *)
Sweep(p) ==
  /\ at[p] # 0 /\ Cardinality(late) < MaxLate
  /\ at' = [at EXCEPT ![p] = 0]
  /\ late' = late \cup {Announce(at[p], at', count.look)}
  /\ UNCHANGED <<sheet, copy, link, calm, shown, count>>

SendLate(e) == /\ e \in late /\ late' = late \ {e}
               /\ link' = IF link.up THEN [link EXCEPT !.wire = Append(@, e)] ELSE link
               /\ UNCHANGED <<sheet, copy, calm, at, shown, count>>

(***************************************************************************)
(* The member                                                              *)
(***************************************************************************)
Connect == /\ ~link.up /\ count.join < MaxJoin
           /\ count' = [count EXCEPT !.join = @ + 1]
           /\ link' = [Down EXCEPT !.up = TRUE, !.sync = "ask"]
           /\ calm' = (late = {})
           /\ UNCHANGED <<sheet, copy, late, at, shown>>

Lose == /\ link.up /\ link' = Down /\ calm' = FALSE
        /\ UNCHANGED <<sheet, copy, late, at, shown, count>>

\* sheet_list is in the order of creation; the first SyncLimit are fetched.
First(S) == {s \in S : Cardinality({t \in S : t < s}) < SyncLimit}
Reply(kind, s) == [k |-> kind, s |-> s, n |-> 0, row |-> sheet[s], who |-> Existing]

(* The host answers the list, or the content of the next sheet.            *)
Answer == /\ link.sync \in {"ask", "cells"}
          /\ IF link.sync = "ask"
             THEN link' = [link EXCEPT !.sync = "asked",
                             !.wire = Append(@, [Reply("list", 1) EXCEPT !.row = NoSheet,
                                                  !.who = {<<s, sheet[s].meta>> : s \in Existing}])]
             ELSE LET s == Min(link.todo) IN
                  link' = [link EXCEPT !.sync = "asked",
                             !.wire = Append(@, IF Exists(s) THEN Reply("content", s)
                                                             ELSE Reply("error", s))]
          /\ UNCHANGED <<sheet, copy, late, calm, at, shown, count>>

(* The reader: apply_event, or the answer to whoever waits for it.         *)
\* sheet_upsert, sheet_remove with the cells and the layout, sheet_cells_apply.
Upserted(s, meta) == [copy EXCEPT ![s].meta = meta]
Removed(s) == [copy EXCEPT ![s] = NoSheet]
CellsApplied(s, cell) == [copy EXCEPT ![s].cell = cell]
\* sheet_layout_replace_all, sheet_merges_replace_all.
LookReplaced(s, look) == [copy EXCEPT ![s].look = look]
Applied(e) == CASE e.k = "meta" -> Upserted(e.s, e.row.meta)
                [] e.k = "removed" -> Removed(e.s)
                [] e.k = "cells" -> CellsApplied(e.s, e.row.cell)
                [] e.k = "look" -> LookReplaced(e.s, e.row.look)
                [] OTHER -> copy
ReadWire == /\ link.wire # << >>
            /\ LET e == Head(link.wire)
                   answer == e.k \in {"list", "content", "error"} IN
               /\ copy' = Applied(e)
               /\ shown' = IF e.k = "presence" THEN [shown EXCEPT ![e.s] = e.who] ELSE shown
               /\ link' = [link EXCEPT !.wire = Tail(@),
                                       !.sync = IF answer THEN "got" ELSE @,
                                       !.slot = IF answer THEN e ELSE @]
            /\ UNCHANGED <<sheet, late, calm, at, count>>

(* memo_sync goes on: sheet_replace_all drops what belongs to no listed    *)
(* sheet; sheet_sync_cells replaces the content of one.                    *)
MetaIn(list, s) == IF \E m \in 1..MaxEdit : <<s, m>> \in list
                   THEN CHOOSE m \in 1..MaxEdit : <<s, m>> \in list ELSE 0
ReplacedAll(list) == [s \in Sheets |-> IF MetaIn(list, s) = 0 THEN NoSheet
                                       ELSE [copy[s] EXCEPT !.meta = MetaIn(list, s)]]
SyncList == /\ link.sync = "got" /\ link.slot.k = "list"
            /\ LET list == link.slot.who
                   todo == First({s \in Sheets : MetaIn(list, s) > 0}) IN
               /\ copy' = ReplacedAll(list)
               /\ link' = [link EXCEPT !.slot = NoSheet, !.todo = todo,
                                       !.sync = IF todo = {} THEN "done" ELSE "cells"]
            /\ UNCHANGED <<sheet, late, calm, at, shown, count>>

ContentReplaced(s, row) == [copy EXCEPT ![s].cell = row.cell, ![s].look = row.look]
SyncCells == /\ link.sync = "got" /\ link.slot.k \in {"content", "error"}
             /\ LET s == link.slot.s
                    rest == link.todo \ {s} IN
                /\ copy' = IF link.slot.k = "error" THEN copy
                           ELSE ContentReplaced(s, link.slot.row)
                /\ link' = [link EXCEPT !.slot = NoSheet, !.todo = rest,
                                        !.sync = IF rest = {} THEN "done" ELSE "cells"]
             /\ UNCHANGED <<sheet, late, calm, at, shown, count>>

Next == \/ \E s \in Sheets : \/ SheetCreate(s) \/ SheetRename(s) \/ SheetSettings(s) \/ SheetDelete(s)
                             \/ SheetLayout(s) \/ \E b \in BOOLEAN : SheetWrite(s, b)
                             \/ \E p \in Lookers : Select(p, s)
        \/ \E p \in Lookers : Sweep(p)
        \/ \E e \in late : SendLate(e)
        \/ Connect \/ Lose \/ Answer \/ ReadWire \/ SyncList \/ SyncCells

Spec == Init /\ [][Next]_sheetVars

(***************************************************************************)
(* Properties                                                              *)
(***************************************************************************)
Settled == link.up /\ link.sync = "done"

(* An undisturbed synchronisation leaves the host's list of sheets, the    *)
(* host's content of those it fetches, and nothing of sheets that are gone *)
(* (memo_sync, sheet_replace_all), whatever late events had left before.   *)
SheetsRepaired == (Settled /\ calm) =>
  /\ \A s \in Sheets : copy[s].meta = sheet[s].meta
  /\ \A s \in First(Existing) : copy[s] = sheet[s]
  /\ \A s \in Sheets \ Existing : copy[s] = NoSheet

(* Refuted: what a member opens while connected is the host's content; the *)
(* cache answers, and what was not among the first sheets is not fetched.  *)
OpenedTrue == (Settled /\ calm) => \A s \in Existing : copy[s] = sheet[s]
(* Refuted: a member's own entry never comes with the list of others.      *)
NotMyself == \A s \in Sheets : Me \notin shown[s]
(* Refuted: without anything under way, who is shown at a sheet is there.  *)
NoGhost == (Settled /\ late = {} /\ link.wire = << >>)
             => \A s \in Sheets : shown[s] \subseteq At(s, at)
=============================================================================
