-------------------------------- MODULE RowFeed --------------------------------
(***************************************************************************)
(* How one row without an edit lock, an event of the shared schedule or a  *)
(* cell of a shared sheet, reaches the cache of one member.  The handler   *)
(* changes the store and keeps what it wrote; the event that carries it is *)
(* sent in a later step, beside those of other handlers, and the cache     *)
(* takes every event without comparing revisions.  On connecting the       *)
(* member replaces all it has by the host's list.                          *)
(*                                                                         *)
(* A content is the number of the change that wrote it, 0 when there is no *)
(* row.                                                                    *)
(***************************************************************************)
EXTENDS Naturals, Sequences, FiniteSets

CONSTANTS Editors,      \* who edits: the owner, an administrator, others
          Others,       \* the editors who neither own the row nor administer
          MaxEdit,      \* changes on the host
          MaxLate       \* events committed and not yet sent

VARIABLES
    content,  \* the row in the store
    revision, \* its revision, 0 when there is none
    base,     \* base[e]: the revision on e's screen
    late,     \* contents committed whose event is not sent
    link,     \* [up, wire, sync, list]: the member's connection and synchronisation
    mirror,   \* the row in the member's cache
    calm,     \* history: nothing changed since the connection was made
    edits     \* changes so far; the number of the newest content

rowVars == <<content, revision, base, late, link, mirror, calm, edits>>

Down == [up |-> FALSE, wire |-> << >>, sync |-> "off", list |-> 0]

Init == /\ content = 0 /\ revision = 0 /\ base = [e \in Editors |-> 0]
        /\ late = {} /\ link = Down /\ mirror = 0 /\ calm = FALSE /\ edits = 0

\* What every accepted change does: a new content, an event due, a reply.
Commit(e, c, r) ==
    /\ edits < MaxEdit /\ Cardinality(late) < MaxLate
    /\ edits' = edits + 1 /\ content' = c /\ revision' = r
    /\ base' = [base EXCEPT ![e] = r]
    /\ late' = late \cup {[n |-> edits + 1, c |-> c]}
    /\ calm' = FALSE
    /\ UNCHANGED <<link, mirror>>

Create(e) == content = 0 /\ edits = 0 /\ Commit(e, edits + 1, 1)
Update(e) == /\ content # 0 /\ e \notin Others /\ base[e] = revision
             /\ Commit(e, edits + 1, revision + 1)
Delete(e) == content # 0 /\ e \notin Others /\ Commit(e, 0, 0)

\* List: the editor's screen is brought up to date.
Look(e) == /\ base' = [base EXCEPT ![e] = revision]
           /\ UNCHANGED <<content, revision, late, link, mirror, calm, edits>>

\* The event is built from what was committed, not from the store.
SendChange(ev) ==
    /\ ev \in late /\ late' = late \ {ev}
    /\ link' = IF link.up THEN [link EXCEPT !.wire = Append(@, [k |-> "event", c |-> ev.c])]
                          ELSE link
    /\ UNCHANGED <<content, revision, base, mirror, calm, edits>>

Connect ==
    /\ ~link.up
    /\ link' = [Down EXCEPT !.up = TRUE, !.sync = "asked"]
    /\ calm' = (late = {})
    /\ UNCHANGED <<content, revision, base, late, mirror, edits>>

Lose == /\ link.up /\ link' = Down /\ calm' = FALSE
        /\ UNCHANGED <<content, revision, base, late, mirror, edits>>

AnswerList ==
    /\ link.sync = "asked"
    /\ link' = [link EXCEPT !.sync = "answered",
                            !.wire = Append(@, [k |-> "list", c |-> content])]
    /\ UNCHANGED <<content, revision, base, late, mirror, calm, edits>>

\* The reader applies events and leaves a list to the synchronising task.
ReceiveRow ==
    /\ link.wire # << >>
    /\ LET m == Head(link.wire) IN
       /\ mirror' = IF m.k = "event" THEN m.c ELSE mirror
       /\ link' = [link EXCEPT !.wire = Tail(@),
                               !.sync = IF m.k = "list" THEN "listed" ELSE @,
                               !.list = IF m.k = "list" THEN m.c ELSE @]
    /\ UNCHANGED <<content, revision, base, late, calm, edits>>

\* schedule_sync_from_list, sheet_sync_cells: everything is replaced.
ReplaceAll ==
    /\ link.sync = "listed" /\ mirror' = link.list
    /\ link' = [link EXCEPT !.sync = "done", !.list = 0]
    /\ UNCHANGED <<content, revision, base, late, calm, edits>>

Progress == \/ (\E ev \in late : SendChange(ev))
            \/ AnswerList \/ ReceiveRow \/ ReplaceAll

Next == \/ (\E e \in Editors : Create(e) \/ Update(e) \/ Delete(e) \/ Look(e))
        \/ Progress \/ Connect \/ Lose

Spec == Init /\ [][Next]_rowVars
Fairness == WF_rowVars(Progress)

TypeOK ==
    /\ content \in 0 .. MaxEdit /\ revision \in 0 .. MaxEdit /\ mirror \in 0 .. MaxEdit
    /\ base \in [Editors -> 0 .. MaxEdit] /\ calm \in BOOLEAN /\ edits \in 0 .. MaxEdit
    /\ late \subseteq [n : 1 .. MaxEdit, c : 0 .. MaxEdit]
    /\ link.up \in BOOLEAN /\ link.list \in 0 .. MaxEdit
    /\ link.sync \in {"off", "asked", "answered", "listed", "done"}
    /\ link.wire \in Seq([k : {"event", "list"}, c : 0 .. MaxEdit])

(* A member that reconnects while nothing changes ends with the host's row *)
(* or without one, although late events of the time before, applied        *)
(* without comparing revisions, may have left an older content, or a row   *)
(* that was deleted, in its cache.                                         *)
ReplaceRepairs == (calm /\ link.up /\ link.sync = "done") => mirror = content

(* ... and it gets there.                                                  *)
ReplaceEnds == (calm /\ link.up) ~> (~calm \/ ~link.up \/ link.sync = "done")

(* The user guide's promise while connected: when nothing is on its way    *)
(* any more, the member sees what the host has.                            *)
RowNewest ==
    (link.up /\ link.sync = "done" /\ link.wire = << >> /\ late = {})
        => mirror = content
================================================================================
