------------------------------- MODULE MemoFeed -------------------------------
(***************************************************************************)
(* How one shared memo reaches the cache of one member.  Every change on   *)
(* the host starts a task that reads host.toml, then the store, then puts  *)
(* a Changed or a Removed event on the member's connection; two such tasks *)
(* run side by side.  When a connection is made the member asks for the    *)
(* list, drops what the list lacks and fetches again what has another      *)
(* revision.  Events are applied by the reader of the connection, list and *)
(* memo replies by the synchronising task, at its own pace.                *)
(*                                                                         *)
(* The cache keeps the revision and the right to edit (can_edit) the host  *)
(* computed for this member; 0 stands for a memo the cache does not have.  *)
(***************************************************************************)
EXTENDS Naturals, Sequences

CONSTANTS MaxChange,   \* changes on the host
          MaxConnect,  \* connections made by the member
          Tasks        \* broadcast tasks that may exist at one time

VARIABLES
    memo,    \* [rev, live, grant, edit]: row and permissions in the store
    group,   \* the member belongs to the group the grant is for (host.toml)
    sig,     \* the group watcher saw this membership last
    task,    \* task[t]: free, start, loaded (host.toml read) or an event to send
    wire,    \* what the connection carries, oldest first
    up,      \* the connection is there
    sync,    \* the member's synchronising task
    store,   \* [rev, edit]: the member's cache (memocache.db)
    quiet,   \* history: nothing changed since the connection was made
    count    \* [change, connect]

feedVars == <<memo, group, sig, task, wire, up, sync, store, quiet, count>>

Free == [at |-> "free", rev |-> 0, edit |-> FALSE]
Absent == [rev |-> 0, edit |-> FALSE]
Msg(k, r, e) == [k |-> k, rev |-> r, edit |-> e]

Sees(g) == memo.live /\ memo.grant /\ g
View(g) == IF Sees(g) THEN [rev |-> memo.rev, edit |-> memo.edit] ELSE Absent

Init ==
    /\ memo = [rev |-> 1, live |-> TRUE, grant |-> TRUE, edit |-> TRUE]
    /\ group = TRUE /\ sig = TRUE
    /\ task = [t \in Tasks |-> Free]
    /\ wire = << >> /\ up = FALSE /\ sync = Msg("off", 0, FALSE)
    /\ store = Absent /\ quiet = FALSE
    /\ count = [change |-> 0, connect |-> 0]

Spawn(x) == \E t \in Tasks : task[t] = Free /\ task' = [task EXCEPT ![t] = x]
Start == [at |-> "start", rev |-> 0, edit |-> FALSE]

Change == /\ count.change < MaxChange
          /\ count' = [count EXCEPT !.change = @ + 1]
          /\ quiet' = FALSE

\* Create, Update and HistoryRestore: a new revision, then broadcast_changed.
Write ==
    /\ Change /\ memo.live /\ Spawn(Start)
    /\ memo' = [memo EXCEPT !.rev = @ + 1]
    /\ UNCHANGED <<group, sig, wire, up, sync, store>>

\* A comment is announced like a change and leaves the revision as it is.
Comment ==
    /\ Change /\ memo.live /\ Spawn(Start)
    /\ UNCHANGED <<memo, group, sig, wire, up, sync, store>>

\* SetPerms leaves the revision as it is.
SetPerms(g, e) ==
    /\ Change /\ <<g, e>> # <<memo.grant, memo.edit>> /\ (e => g) /\ Spawn(Start)
    /\ memo' = [memo EXCEPT !.grant = g, !.edit = e]
    /\ UNCHANGED <<group, sig, wire, up, sync, store>>

\* Trash: broadcast_removed sends without looking at the store again.
Trash ==
    /\ Change /\ memo.live
    /\ Spawn([at |-> "removed", rev |-> 0, edit |-> FALSE])
    /\ memo' = [memo EXCEPT !.live = FALSE]
    /\ UNCHANGED <<group, sig, wire, up, sync, store>>

Restore ==
    /\ Change /\ ~memo.live /\ Spawn(Start)
    /\ memo' = [memo EXCEPT !.live = TRUE]
    /\ UNCHANGED <<group, sig, wire, up, sync, store>>

\* The member joins or leaves the permission group: only host.toml changes ...
EditGroup ==
    /\ Change /\ group' = ~group
    /\ UNCHANGED <<memo, sig, task, wire, up, sync, store>>

\* ... and the next tick (watch_groups) sends the memos with group grants anew.
WatchGroups ==
    /\ sig # group /\ sig' = group /\ Spawn(Start)
    /\ UNCHANGED <<memo, group, wire, up, sync, store, quiet, count>>

\* A broadcast task: the connections and host.toml first ...
TaskLoad(t) ==
    /\ task[t].at = "start"
    /\ task' = [task EXCEPT ![t] = IF up THEN [@ EXCEPT !.at = "loaded", !.edit = group]
                                         ELSE Free]
    /\ UNCHANGED <<memo, group, sig, wire, up, sync, store, quiet, count>>

\* ... then the row for this member ...
TaskRead(t) ==
    /\ task[t].at = "loaded"
    /\ LET v == View(task[t].edit) IN
       task' = [task EXCEPT ![t] =
                  [at |-> IF v.rev = 0 THEN "removed" ELSE "changed",
                   rev |-> v.rev, edit |-> v.edit]]
    /\ UNCHANGED <<memo, group, sig, wire, up, sync, store, quiet, count>>

\* ... then the event, lost when the connection went away.
TaskSend(t) ==
    /\ task[t].at \in {"changed", "removed"}
    /\ wire' = IF up THEN Append(wire, Msg(task[t].at, task[t].rev, task[t].edit))
                     ELSE wire
    /\ task' = [task EXCEPT ![t] = Free]
    /\ UNCHANGED <<memo, group, sig, up, sync, store, quiet, count>>

\* A connection: the list is asked for at once.
Connect ==
    /\ ~up /\ count.connect < MaxConnect
    /\ up' = TRUE /\ wire' = << >> /\ sync' = Msg("ask", 0, FALSE)
    /\ count' = [count EXCEPT !.connect = @ + 1]
    /\ quiet' = (sig = group /\ \A t \in Tasks : task[t] = Free)
    /\ UNCHANGED <<memo, group, sig, task, store>>

\* The connection is lost with all it carries; the synchronising task is aborted.
Lose ==
    /\ up /\ up' = FALSE /\ wire' = << >> /\ sync' = Msg("off", 0, FALSE)
    /\ quiet' = FALSE
    /\ UNCHANGED <<memo, group, sig, task, store, count>>

\* The host answers List and Get from the store, with the groups of host.toml.
Answer ==
    /\ sync.k \in {"ask", "get"}
    /\ sync' = [sync EXCEPT !.k = IF @ = "ask" THEN "asked" ELSE "got"]
    /\ LET v == View(group)
       IN wire' = IF sync.k = "get" /\ v.rev = 0
                  THEN Append(wire, Msg("error", 0, FALSE))
                  ELSE Append(wire, Msg(IF sync.k = "ask" THEN "list" ELSE "memo",
                                        v.rev, v.edit))
    /\ UNCHANGED <<memo, group, sig, task, up, store, quiet, count>>

Applied(m) ==
    CASE m.k = "changed" -> [rev |-> m.rev, edit |-> m.edit]
      [] m.k = "removed" -> Absent
      [] OTHER -> store

\* The reader applies events and hands replies to the synchronising task.
ReadWire ==
    /\ up /\ wire # << >> /\ wire' = Tail(wire)
    /\ store' = Applied(Head(wire))
    /\ sync' = IF Head(wire).k \in {"list", "memo", "error"} THEN Head(wire) ELSE sync
    /\ UNCHANGED <<memo, group, sig, task, up, quiet, count>>

SyncFromList_Keep ==
    /\ sync.k = "list"
    /\ sync' = Msg(IF sync.rev \in {0, store.rev} THEN "done" ELSE "get", 0, FALSE)
    /\ UNCHANGED <<memo, group, sig, task, wire, up, store, quiet, count>>

\* sync_from_list: drop what is not listed, fetch what has another revision.
SyncFromList ==
    /\ sync.k = "list"
    /\ store' = IF sync.rev = 0 THEN Absent ELSE store
    /\ sync' = Msg(IF sync.rev \in {0, store.rev} THEN "done" ELSE "get", 0, FALSE)
    /\ UNCHANGED <<memo, group, sig, task, wire, up, quiet, count>>

SyncMemo ==
    /\ sync.k \in {"memo", "error"}
    /\ store' = IF sync.k = "memo" THEN [rev |-> sync.rev, edit |-> sync.edit] ELSE store
    /\ sync' = Msg("done", 0, FALSE)
    /\ UNCHANGED <<memo, group, sig, task, wire, up, quiet, count>>

\* Twenty seconds without an answer end the synchronisation.
SyncTimeout ==
    /\ sync.k \in {"asked", "got"} /\ sync' = Msg("off", 0, FALSE)
    /\ quiet' = FALSE
    /\ UNCHANGED <<memo, group, sig, task, wire, up, store, count>>

Progress == WatchGroups \/ Answer \/ ReadWire \/ SyncFromList \/ SyncMemo
            \/ (\E t \in Tasks : TaskLoad(t) \/ TaskRead(t) \/ TaskSend(t))

Next == \/ Write \/ Comment \/ Trash \/ Restore \/ EditGroup
        \/ (\E g, e \in BOOLEAN : SetPerms(g, e))
        \/ Progress \/ Connect \/ Lose \/ SyncTimeout

Spec == Init /\ [][Next]_feedVars
Fairness == WF_feedVars(Progress)

Kinds == {"off", "ask", "asked", "get", "got", "list", "memo", "error", "done",
          "changed", "removed"}
TypeOK ==
    /\ memo \in [rev : 1 .. MaxChange + 1, live : BOOLEAN, grant : BOOLEAN, edit : BOOLEAN]
    /\ group \in BOOLEAN /\ sig \in BOOLEAN /\ up \in BOOLEAN /\ quiet \in BOOLEAN
    /\ task \in [Tasks -> [at : {"free", "start", "loaded", "changed", "removed"},
                           rev : 0 .. MaxChange + 1, edit : BOOLEAN]]
    /\ wire \in Seq([k : Kinds, rev : 0 .. MaxChange + 1, edit : BOOLEAN])
    /\ sync \in [k : Kinds, rev : 0 .. MaxChange + 1, edit : BOOLEAN]
    /\ store \in [rev : 0 .. MaxChange + 1, edit : BOOLEAN]
    /\ count \in [change : 0 .. MaxChange, connect : 0 .. MaxConnect]

Want == View(group)

(* A synchronisation that nothing disturbed leaves exactly what the member *)
(* may see: the memo with the host's revision, or no memo when the member  *)
(* was put out while it was away, whatever stale events the earlier        *)
(* connection had left in the cache.                                       *)
SyncRepairs == (quiet /\ up /\ sync.k = "done") => store.rev = Want.rev

(* Such a synchronisation comes to its end.                                *)
SyncEnds == (quiet /\ up) ~> (~quiet \/ ~up \/ sync.k = "done")

(* The user guide's promise for a reconnection: what was missed is made up *)
(* for.  The right to edit is part of what the cache shows and of what the *)
(* host computes, but a change of rights does not change the revision.     *)
RightsRepaired == (quiet /\ up /\ sync.k = "done") => store = Want

(* The user guide's promise for a connected member: the newest text is     *)
(* shown.  Once nothing is under way any more, the cache has the host's    *)
(* revision.                                                               *)
Newest == (up /\ sync.k = "done" /\ wire = << >> /\ sig = group
             /\ \A t \in Tasks : task[t] = Free) => store.rev = Want.rev
===============================================================================
