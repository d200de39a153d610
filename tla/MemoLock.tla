------------------------------- MODULE MemoLock -------------------------------
(***************************************************************************)
(* One shared memo on the host: the row in the store (peercove-memo,       *)
(* SharedStore), the edit lock in memory (MemoService.locks) and the       *)
(* requests of the host's own interface and of the members.  A request     *)
(* that consults the lock and then the store, or the store and then the    *)
(* lock, does so in two steps with the other requests between them: only   *)
(* each step is under a mutex.                                             *)
(*                                                                         *)
(* A text is the number of the revision that first had it.  Expire stands  *)
(* for 120 s without activity.  The cleanup of a lost connection is a task *)
(* that runs some time after the connection was lost.                      *)
(***************************************************************************)
EXTENDS Naturals, Sequences, FiniteSets, Functions

CONSTANTS
    Members, Host,  \* who sends requests; Host is the host's own interface
    Admins,         \* the members with delegated administration
    NoOne,          \* the key of no lock
    NewLevels,      \* the levels a permission change gives
    MaxRev,         \* revisions a memo reaches
    MaxVersions,    \* limits.max_versions: archived versions kept
    MaxTotal,       \* limits.max_total_bytes, in texts
    MaxUpsets,      \* connections lost, permission changes and trashings together
    MaxSnaps        \* closing snapshots due at one time

Actors == Members \cup {Host}
Levels == {"none", "viewer", "editor"}

ASSUME LockAssumption ==
    /\ Host \notin Members /\ NoOne \notin Actors /\ NewLevels \subseteq Levels
    /\ MaxRev \in Nat \ {0} /\ MaxVersions \in Nat /\ MaxTotal \in Nat
    /\ MaxUpsets \in Nat /\ MaxSnaps \in Nat

VARIABLES
    row,      \* [st, rev, text, owner]: the row of the memo
    level,    \* level[m]: the level the permissions give to m
    hist,     \* memo_history, oldest first: revision and text
    lock,     \* [key, rev, fresh]: the lock, its revision_at_acquire, not expired
    op,       \* op[a]: the request of a that is between its two steps
    copy,     \* copy[a]: revision and text a's screen holds
    snaps,    \* revisions at acquire of locks whose closing snapshot is due
    conn,     \* conn[m]: m's control connection is up
    cleanup,  \* cleanup[m]: cleanups of lost connections of m not yet run
    upsets    \* what MaxUpsets counts

lockVars == <<row, level, hist, lock, op, copy, snaps, conn, cleanup, upsets>>

Idle == [k |-> "idle", rev |-> 0, text |-> 0]
NoLock == [key |-> NoOne, rev |-> 0, fresh |-> FALSE]

IsAdmin(a) == a = Host \/ a \in Admins
IsOwner(a) == row.owner = a
Effective(a) == IF a = Host THEN "editor" ELSE level[a]
Exists == row.st \in {"live", "trash"}
Visible(a) == \/ IsAdmin(a) \/ IsOwner(a)
              \/ row.st = "live" /\ Effective(a) # "none"
CanEdit(a) == /\ row.st = "live"
              /\ a = Host \/ IsOwner(a) \/ Effective(a) = "editor"
CanManage(a) == IsAdmin(a) \/ IsOwner(a)

Init ==
    /\ row = [st |-> "none", rev |-> 0, text |-> 0, owner |-> NoOne]
    /\ level = [m \in Members |-> "editor"]
    /\ hist = << >> /\ lock = NoLock /\ snaps = {}
    /\ op = [a \in Actors |-> Idle]
    /\ copy = [a \in Actors |-> Idle]
    /\ conn = [m \in Members |-> TRUE]
    /\ cleanup = [m \in Members |-> 0]
    /\ upsets = 0

(* The archive.  A snapshot appends the row's text and trims the oldest.   *)
Trim_Off(h) == h

Trim(h) == IF Len(h) > MaxVersions THEN Tail(h) ELSE h
Snapshot(h) == Trim(Append(h, [rev |-> row.rev, text |-> row.text]))
Archived == {v.text : v \in Range(hist)}
HasRoom == 1 + Len(hist) + 1 <= MaxTotal

\* Ten minutes since the last version decide between the two; none means due.
AutoSnapshots(h) == {Snapshot(h)} \cup (IF h = << >> THEN {} ELSE {h})

Ask(a) == op[a].k = "idle" /\ (a \in Members => conn[a])
Reply(a, r, t) == copy' = [copy EXCEPT ![a] = [k |-> "idle", rev |-> r, text |-> t]]
Done(a) == op' = [op EXCEPT ![a] = Idle]
Begin(a, k, r, t) == op' = [op EXCEPT ![a] = [k |-> k, rev |-> r, text |-> t]]

\* prune_expired, at the head of every look at the lock table but the releases.
Pruned == IF lock.fresh THEN lock ELSE NoLock

Create(a) ==
    /\ Ask(a) /\ row.st = "none" /\ 1 <= MaxTotal
    /\ row' = [st |-> "live", rev |-> 1, text |-> 1, owner |-> a]
    /\ Reply(a, 1, 1)
    /\ UNCHANGED <<level, hist, lock, op, snaps, conn, cleanup, upsets>>

Get(a) ==
    /\ Ask(a) /\ Exists /\ Visible(a)
    /\ Reply(a, row.rev, row.text)
    /\ lock' = Pruned
    /\ UNCHANGED <<row, level, hist, op, snaps, conn, cleanup, upsets>>

\* AcquireLock reads the memo first ...
AcquireGet(a) ==
    /\ Ask(a) /\ Exists /\ Visible(a) /\ CanEdit(a)
    /\ Begin(a, "acquire", row.rev, row.text)
    /\ UNCHANGED <<row, level, hist, lock, copy, snaps, conn, cleanup, upsets>>

\* ... and enters the lock with the revision it read, unless another has it.
AcquireLock(a) ==
    /\ op[a].k = "acquire" /\ Done(a)
    /\ IF Pruned.key \in {NoOne, a}
       THEN /\ lock' = [key |-> a, rev |-> op[a].rev, fresh |-> TRUE]
            /\ Reply(a, op[a].rev, op[a].text)
       ELSE UNCHANGED <<lock, copy>>
    /\ UNCHANGED <<row, level, hist, snaps, conn, cleanup, upsets>>

\* Update needs the lock, and renews it, before it goes to the store ...
UpdateCheck(a) ==
    /\ Ask(a) /\ copy[a].rev > 0
    /\ lock' = Pruned
    /\ IF Pruned.key = a THEN Begin(a, "update", copy[a].rev, 0)
                         ELSE UNCHANGED op
    /\ UNCHANGED <<row, level, hist, copy, snaps, conn, cleanup, upsets>>

UpdateStore_Unread(a) ==
    /\ op[a].k = "update" /\ Done(a)
    /\ IF CanEdit(a) /\ Visible(a) /\ HasRoom /\ row.rev < MaxRev
       THEN /\ hist' \in AutoSnapshots(hist)
            /\ row' = [row EXCEPT !.rev = @ + 1, !.text = row.rev + 1]
            /\ Reply(a, row.rev + 1, row.rev + 1)
       ELSE UNCHANGED <<row, hist, copy>>
    /\ UNCHANGED <<level, lock, snaps, conn, cleanup, upsets>>

\* ... where the permission and the revision are looked at.
UpdateStore(a) ==
    /\ op[a].k = "update" /\ Done(a)
    /\ IF CanEdit(a) /\ Visible(a) /\ row.rev = op[a].rev /\ HasRoom
          /\ row.rev < MaxRev
       THEN /\ hist' \in AutoSnapshots(hist)
            /\ row' = [row EXCEPT !.rev = @ + 1, !.text = row.rev + 1]
            /\ Reply(a, row.rev + 1, row.rev + 1)
       ELSE UNCHANGED <<row, hist, copy>>
    /\ UNCHANGED <<level, lock, snaps, conn, cleanup, upsets>>

FreeLock == /\ lock' = NoLock /\ Cardinality(snaps) < MaxSnaps
            /\ snaps' = snaps \cup {lock.rev}

ReleaseLock(a) ==
    /\ Ask(a) /\ lock.key = a /\ FreeLock
    /\ UNCHANGED <<row, level, hist, op, copy, conn, cleanup, upsets>>

ForceUnlock(a) ==
    /\ Ask(a) /\ IsAdmin(a) /\ lock.key # NoOne /\ FreeLock
    /\ UNCHANGED <<row, level, hist, op, copy, conn, cleanup, upsets>>

Expire ==
    /\ lock.fresh /\ lock' = [lock EXCEPT !.fresh = FALSE]
    /\ UNCHANGED <<row, level, hist, op, copy, snaps, conn, cleanup, upsets>>

SweepExpiredLocks ==
    /\ lock.key # NoOne /\ ~lock.fresh /\ FreeLock
    /\ UNCHANGED <<row, level, hist, op, copy, conn, cleanup, upsets>>

\* The closing version: only when the text changed since the lock was taken.
CloseSnapshot(r) ==
    /\ r \in snaps /\ snaps' = snaps \ {r}
    /\ hist' = IF Exists /\ row.rev # r THEN Snapshot(hist) ELSE hist
    /\ UNCHANGED <<row, level, lock, op, copy, conn, cleanup, upsets>>

\* Trash writes the row and then forgets the lock.
TrashRow(a) ==
    /\ Ask(a) /\ Exists /\ CanManage(a) /\ upsets < MaxUpsets
    /\ row' = [row EXCEPT !.st = "trash"]
    /\ upsets' = upsets + 1
    /\ Begin(a, "trash", 0, 0)
    /\ UNCHANGED <<level, hist, lock, copy, snaps, conn, cleanup>>

TrashUnlock(a) ==
    /\ op[a].k = "trash" /\ Done(a)
    /\ lock' = NoLock
    /\ UNCHANGED <<row, level, hist, copy, snaps, conn, cleanup, upsets>>

Restore(a) ==
    /\ Ask(a) /\ Exists /\ CanManage(a)
    /\ row' = [row EXCEPT !.st = "live"]
    /\ UNCHANGED <<level, hist, lock, op, copy, snaps, conn, cleanup, upsets>>

Purged == /\ row' = [row EXCEPT !.st = "gone", !.text = 0]
          /\ hist' = << >>

DeleteForever(a) ==
    /\ Ask(a) /\ row.st = "trash" /\ CanManage(a) /\ Purged
    /\ UNCHANGED <<level, lock, op, copy, snaps, conn, cleanup, upsets>>

\* purge_expired: the periodic removal of what was long in the trash.
PurgeExpired ==
    /\ row.st = "trash" /\ Purged
    /\ UNCHANGED <<level, lock, op, copy, snaps, conn, cleanup, upsets>>

SetPerms(a, m, l) ==
    /\ Ask(a) /\ Exists /\ CanManage(a) /\ upsets < MaxUpsets
    /\ level' = [level EXCEPT ![m] = l]
    /\ upsets' = upsets + 1
    /\ UNCHANGED <<row, hist, lock, op, copy, snaps, conn, cleanup>>

\* A version on request, unless the newest one already is this revision.
SaveVersion(a) ==
    /\ Ask(a) /\ Exists /\ CanEdit(a)
    /\ \A i \in DOMAIN hist : i = Len(hist) => hist[i].rev # row.rev
    /\ hist' = Snapshot(hist)
    /\ UNCHANGED <<row, level, lock, op, copy, snaps, conn, cleanup, upsets>>

\* HistoryRestore is refused only while another has the lock ...
HistoryCheck(a, t) ==
    /\ Ask(a) /\ t \in Archived
    /\ lock' = Pruned /\ Pruned.key \in {NoOne, a}
    /\ Begin(a, "restore", 0, t)
    /\ UNCHANGED <<row, level, hist, copy, snaps, conn, cleanup, upsets>>

\* ... and writes without a revision to compare, after archiving the text.
HistoryRestore(a) ==
    /\ op[a].k = "restore" /\ Done(a)
    /\ IF CanEdit(a) /\ Visible(a) /\ op[a].text \in Archived /\ HasRoom
          /\ row.rev < MaxRev
       THEN /\ hist' = Snapshot(hist)
            /\ row' = [row EXCEPT !.rev = @ + 1, !.text = op[a].text]
            /\ Reply(a, row.rev + 1, op[a].text)
       ELSE UNCHANGED <<row, hist, copy>>
    /\ UNCHANGED <<level, lock, snaps, conn, cleanup, upsets>>

Disconnect(m) ==
    /\ conn[m] /\ upsets < MaxUpsets
    /\ conn' = [conn EXCEPT ![m] = FALSE]
    /\ cleanup' = [cleanup EXCEPT ![m] = @ + 1]
    /\ upsets' = upsets + 1
    /\ UNCHANGED <<row, level, hist, lock, op, copy, snaps>>

Reconnect(m) ==
    /\ ~conn[m] /\ conn' = [conn EXCEPT ![m] = TRUE]
    /\ UNCHANGED <<row, level, hist, lock, op, copy, snaps, cleanup, upsets>>

\* release_locks_for_ip: does nothing when host.toml cannot be read.
ReleaseLocksForIp(m) ==
    /\ cleanup[m] > 0 /\ cleanup' = [cleanup EXCEPT ![m] = @ - 1]
    /\ \/ lock.key = m /\ FreeLock
       \/ UNCHANGED <<lock, snaps>>
    /\ UNCHANGED <<row, level, hist, op, copy, conn, upsets>>

Request(a) ==
    \/ Create(a) \/ Get(a) \/ AcquireGet(a) \/ UpdateCheck(a) \/ ReleaseLock(a)
    \/ ForceUnlock(a) \/ TrashRow(a) \/ Restore(a) \/ DeleteForever(a)
    \/ SaveVersion(a) \/ (\E t \in 1 .. MaxRev : HistoryCheck(a, t))
    \/ (\E m \in Members, l \in NewLevels : SetPerms(a, m, l))

Background ==
    \/ (\E a \in Actors : AcquireLock(a) \/ UpdateStore(a) \/ TrashUnlock(a)
                          \/ HistoryRestore(a))
    \/ (\E r \in 0 .. MaxRev : CloseSnapshot(r))
    \/ (\E m \in Members : ReleaseLocksForIp(m))

Next == \/ \E a \in Actors : Request(a)
        \/ Background \/ Expire \/ SweepExpiredLocks \/ PurgeExpired
        \/ \E m \in Members : Disconnect(m) \/ Reconnect(m)

Spec == Init /\ [][Next]_lockVars

(* The supervisor's tick sweeps; requests and tasks under way end; time    *)
(* passes.  Nobody is obliged to send a request.                           *)
Fairness == WF_lockVars(Background) /\ WF_lockVars(Expire \/ SweepExpiredLocks)

TypeOK ==
    /\ row \in [st : {"none", "live", "trash", "gone"}, rev : 0 .. MaxRev,
                text : 0 .. MaxRev, owner : Actors \cup {NoOne}]
    /\ level \in [Members -> Levels]
    /\ hist \in Seq([rev : 1 .. MaxRev, text : 1 .. MaxRev]) /\ Len(hist) <= MaxVersions
    /\ lock \in [key : Actors \cup {NoOne}, rev : 0 .. MaxRev, fresh : BOOLEAN]
    /\ op \in [Actors -> [k : {"idle", "acquire", "update", "trash", "restore"},
                          rev : 0 .. MaxRev, text : 0 .. MaxRev]]
    /\ copy \in [Actors -> [k : {"idle"}, rev : 0 .. MaxRev, text : 0 .. MaxRev]]
    /\ snaps \subseteq 0 .. MaxRev
    /\ conn \in [Members -> BOOLEAN] /\ cleanup \in [Members -> 0 .. MaxUpsets]
    /\ upsets \in 0 .. MaxUpsets

(* The right to edit goes from hand to hand only through nobody, and no    *)
(* text is replaced unread and unarchived, although the lock looked at     *)
(* before a save may be gone, or another's, when the save reaches the      *)
(* store, and a restored version compares no revision at all.              *)
Lease == INSTANCE MemoLease WITH
             Nobody <- NoOne,
             holder <- IF lock.fresh THEN lock.key ELSE NoOne,
             text <- row.text,
             known <- [a \in Actors |-> copy[a].text],
             archive <- Archived
LeaseHeld == Lease!Spec

(* The lock of a member that is gone does not block the others for good:   *)
(* the cleanup of the lost connection or, when a lock request was still    *)
(* under way then, the expiry frees it, unless the member comes back.      *)
FreedAfterLoss ==
    \A m \in Members : (lock.key = m /\ ~conn[m]) ~> (lock.key # m \/ conn[m])
===============================================================================
