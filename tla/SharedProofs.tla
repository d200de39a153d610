---------------------------- MODULE SharedProofs ----------------------------
(***************************************************************************)
(* The edit lock implements the lease; local memos, the reminders of a     *)
(* phone and the groups it shares keep their promises, for any number of   *)
(* memos, folders, reminders and faults, laid out as in MemoProofs; and    *)
(* the theorems of MCShared, in which one of these parts or of those of    *)
(* MemoProofs moves.                                                       *)
(***************************************************************************)
EXTENDS MemoProofs

-----------------------------------------------------------------------------
(***************************************************************************)
(* MemoLock implements MemoLease, for any number of members, revisions,    *)
(* versions and faults.  A save is let through by comparing revisions      *)
(* (UpdateStore), while the lease speaks of texts: what a request under    *)
(* way, and a screen, know of a revision must be its text.  Known says so. *)
(***************************************************************************)

(* The archive.                                                            *)

Versions == [rev : 1 .. MaxRev, text : 1 .. MaxRev]

\* A snapshot keeps the versions typed and few.
LEMMA SnapshotIs ==
    ASSUME NEW h \in Seq(Versions), Len(h) <= MaxVersions, row.rev \in 1 .. MaxRev,
           row.text \in 1 .. MaxRev
    PROVE  /\ Snapshot(h) \in Seq(Versions) /\ Len(Snapshot(h)) <= MaxVersions
           /\ \A i \in DOMAIN Snapshot(h) :
                 \/ Snapshot(h)[i].text = row.text
                 \/ \E j \in DOMAIN h : Snapshot(h)[i] = h[j]
           /\ h # << >> => \E i \in DOMAIN Snapshot(h) : Snapshot(h)[i].text = row.text
<1> DEFINE e == [rev |-> row.rev, text |-> row.text]
           g == Append(h, e)
<1>1. e \in Versions /\ e.text = row.text
  BY DEF Versions
<1>2. Len(h) \in Nat /\ DOMAIN h = 1 .. Len(h) /\ MaxVersions \in Nat
  BY LockAssumption
<1>3. Snapshot(h) = IF Len(g) > MaxVersions THEN Tail(g) ELSE g
  BY DEF Snapshot, Trim
<1> HIDE DEF e
<1>4. /\ g \in Seq(Versions) /\ Len(g) = Len(h) + 1 /\ \A i \in 1 .. Len(h) : g[i] = h[i]
      /\ g[Len(h) + 1] = e
  BY <1>1, AppendProperties
<1> HIDE DEF g
<1>5. DOMAIN g = 1 .. Len(h) + 1
  BY <1>4, LenProperties
<1>6. CASE Len(g) > MaxVersions
  <2> DEFINE t == Tail(g)
  <2>1. /\ t \in Seq(Versions) /\ Len(t) = Len(h) /\ Snapshot(h) = t
        /\ \A i \in 1 .. Len(h) : t[i] = g[i + 1]
    BY <1>2, <1>3, <1>4, <1>6, HeadTailProperties
  <2> HIDE DEF t
  <2>2. DOMAIN t = 1 .. Len(h)
    BY <2>1, LenProperties
  <2>3. ASSUME NEW i \in 1 .. Len(h) PROVE t[i] = e \/ \E j \in DOMAIN h : t[i] = h[j]
    <3>1. CASE i = Len(h)
      BY <1>4, <2>1, <3>1
    <3>2. CASE i # Len(h)
      <4>1. i + 1 \in 1 .. Len(h)
        <5>1. \A n \in Nat : \A k \in 1 .. n : k # n => k + 1 \in 1 .. n
          OBVIOUS
        <5> QED  BY <1>2, <3>2, <5>1
      <4> QED  BY <1>2, <1>4, <2>1, <4>1
    <3> QED  BY <3>1, <3>2
  <2>4. h # << >> => Len(h) \in 1 .. Len(h) /\ t[Len(h)] = e
    <3>1. h # << >> => Len(h) \in 1 .. Len(h)
      BY <1>2, EmptySeq
    <3> QED  BY <1>2, <1>4, <2>1, <3>1
  <2> QED  BY <1>1, <2>1, <2>2, <2>3, <2>4
<1>7. CASE ~(Len(g) > MaxVersions)
  <2>1. Snapshot(h) = g /\ Len(g) <= MaxVersions
    BY <1>2, <1>3, <1>4, <1>7
  <2>2. Len(h) + 1 \in DOMAIN g
    BY <1>2, <1>5
  <2>3. \A i \in DOMAIN g : i = Len(h) + 1 \/ i \in 1 .. Len(h)
    BY <1>2, <1>5
  <2> QED  BY <1>1, <1>2, <1>4, <2>1, <2>2, <2>3
<1> QED  BY <1>6, <1>7

-----------------------------------------------------------------------------
(* Types.                                                                  *)

\* Each cleanup that is due comes from an upset of its own.
Cleanups == \A m \in Members : cleanup[m] <= upsets

\* A memo that exists has a text, and none does that is not there.
RowSound ==
    /\ Exists => row.rev > 0 /\ row.text > 0
    /\ ~Exists => row.text = 0
    /\ row.st = "none" => row.rev = 0

Typed == TypeOK /\ Cleanups /\ RowSound

LEMMA RowIs ==
    ASSUME Typed
    PROVE  /\ row.rev \in 0 .. MaxRev /\ row.text \in 0 .. MaxRev /\ MaxRev \in Nat \ {0}
           /\ Exists => row.rev \in 1 .. MaxRev /\ row.text \in 1 .. MaxRev
BY LockAssumption DEF Typed, TypeOK, RowSound

LEMMA OpIs ==
    ASSUME Typed, NEW a \in Actors
    PROVE  /\ op[a].k \in {"idle", "acquire", "update", "trash", "restore"}
           /\ op[a].rev \in 0 .. MaxRev /\ op[a].text \in 0 .. MaxRev
           /\ copy[a].rev \in 0 .. MaxRev /\ copy[a].text \in 0 .. MaxRev
BY DEF Typed, TypeOK

\* Every text in the archive is one.
LEMMA ArchivedIs ==
    ASSUME Typed, NEW t \in Archived
    PROVE  t \in 1 .. MaxRev /\ hist # << >>
<1>1. PICK i \in DOMAIN hist : t = hist[i].text
  BY DEF Archived, Range
<1>2. hist \in Seq(Versions)
  BY DEF Typed, TypeOK, Versions
<1>3. hist[i] \in Versions /\ hist # << >>
  BY <1>2, LenProperties, EmptySeq
<1> QED  BY <1>1, <1>3 DEF Versions

\* The three ways the archive changes.
LEMMA ArchivesTyped ==
    ASSUME Typed, Exists
    PROVE  /\ Snapshot(hist) \in Seq(Versions) /\ Len(Snapshot(hist)) <= MaxVersions
           /\ \A h \in AutoSnapshots(hist) : h \in Seq(Versions) /\ Len(h) <= MaxVersions
<1>1. hist \in Seq(Versions) /\ Len(hist) <= MaxVersions
  BY DEF Typed, TypeOK, Versions
<1>2. Snapshot(hist) \in Seq(Versions) /\ Len(Snapshot(hist)) <= MaxVersions
  BY <1>1, RowIs, SnapshotIs
<1> QED  BY <1>1, <1>2 DEF AutoSnapshots

LEMMA FreeTyped ==
    ASSUME Typed, FreeLock
    PROVE  /\ lock' \in [key : Actors \cup {NoOne}, rev : 0 .. MaxRev, fresh : BOOLEAN]
           /\ snaps' \subseteq 0 .. MaxRev
<1>1. lock' = NoLock /\ snaps' = snaps \cup {lock.rev} /\ 0 \in 0 .. MaxRev
  BY LockAssumption DEF FreeLock
<1>2. lock.rev \in 0 .. MaxRev /\ snaps \subseteq 0 .. MaxRev
  BY DEF Typed, TypeOK
<1> QED  BY <1>1, <1>2 DEF NoLock

LEMMA PrunedTyped ==
    ASSUME Typed
    PROVE  Pruned \in [key : Actors \cup {NoOne}, rev : 0 .. MaxRev, fresh : BOOLEAN]
BY LockAssumption DEF Pruned, NoLock, Typed, TypeOK

Ops == [k : {"idle", "acquire", "update", "trash", "restore"}, rev : 0 .. MaxRev, text : 0 .. MaxRev]
Screens == [k : {"idle"}, rev : 0 .. MaxRev, text : 0 .. MaxRev]

LEMMA DeskTyped ==
    ASSUME Typed, NEW a \in Actors
    PROVE  /\ Done(a) => op' \in [Actors -> Ops]
           /\ \A k \in {"acquire", "update", "trash", "restore"} : \A r, t \in 0 .. MaxRev :
                 Begin(a, k, r, t) => op' \in [Actors -> Ops]
           /\ \A r, t \in 0 .. MaxRev : Reply(a, r, t) => copy' \in [Actors -> Screens]
<1>1. op \in [Actors -> Ops] /\ copy \in [Actors -> Screens] /\ 0 \in 0 .. MaxRev
  <2>1. op \in [Actors -> Ops]
    BY Zenon DEF Typed, TypeOK, Ops
  <2>2. copy \in [Actors -> Screens]
    BY Zenon DEF Typed, TypeOK, Screens
  <2> QED  BY <2>1, <2>2, LockAssumption
<1>2. Idle \in Ops
  BY <1>1 DEF Idle, Ops
<1>3. Done(a) => op' \in [Actors -> Ops]
  BY <1>1, <1>2 DEF Done
<1>4. ASSUME NEW k \in {"acquire", "update", "trash", "restore"}, NEW r \in 0 .. MaxRev,
             NEW t \in 0 .. MaxRev, Begin(a, k, r, t)
      PROVE  op' \in [Actors -> Ops]
  <2>1. [k |-> k, rev |-> r, text |-> t] \in Ops
    BY DEF Ops
  <2> QED  BY <1>1, <1>4, <2>1 DEF Begin
<1>5. ASSUME NEW r \in 0 .. MaxRev, NEW t \in 0 .. MaxRev, Reply(a, r, t)
      PROVE  copy' \in [Actors -> Screens]
  <2>1. [k |-> "idle", rev |-> r, text |-> t] \in Screens
    BY DEF Screens
  <2> QED  BY <1>1, <1>5, <2>1 DEF Reply
<1> QED  BY <1>3, <1>4, <1>5

\* TypeOK, one part per group of variables.
TypeRow == row \in [st : {"none", "live", "trash", "gone"}, rev : 0 .. MaxRev,
                    text : 0 .. MaxRev, owner : Actors \cup {NoOne}]
TypeHist == hist \in Seq(Versions) /\ Len(hist) <= MaxVersions
TypeLock == lock \in [key : Actors \cup {NoOne}, rev : 0 .. MaxRev, fresh : BOOLEAN]
TypeDesk == op \in [Actors -> Ops] /\ copy \in [Actors -> Screens]
TypeRest ==
    /\ level \in [Members -> Levels] /\ snaps \subseteq 0 .. MaxRev
    /\ conn \in [Members -> BOOLEAN] /\ cleanup \in [Members -> 0 .. MaxUpsets]
    /\ upsets \in 0 .. MaxUpsets /\ Cleanups

LEMMA TypeParts == TypeOK /\ Cleanups <=> TypeRow /\ TypeHist /\ TypeLock /\ TypeDesk /\ TypeRest
BY DEF TypeOK, TypeRow, TypeHist, TypeLock, TypeDesk, TypeRest, Versions, Ops, Screens

\* Which steps change the row, the archive, the lock and the desks.
LEMMA Changes == [Next]_lockVars =>
    /\ \/ UNCHANGED row
       \/ \E a \in Actors : Create(a) \/ UpdateStore(a) \/ TrashRow(a) \/ Restore(a)
                            \/ HistoryRestore(a)
       \/ Purged
    /\ \/ UNCHANGED hist
       \/ \E a \in Actors : UpdateStore(a) \/ SaveVersion(a) \/ HistoryRestore(a)
       \/ Exists /\ hist' = Snapshot(hist)
       \/ Purged
    /\ \/ lock' \in {lock, Pruned, NoLock}
       \/ Expire
       \/ \E a \in Actors : AcquireLock(a)
BY Zenon DEF Next, lockVars, Request, Background, Create, Get, AcquireGet, AcquireLock, UpdateCheck,
   UpdateStore, ReleaseLock, ForceUnlock, FreeLock, Expire, SweepExpiredLocks, CloseSnapshot,
   TrashRow, TrashUnlock, Restore, DeleteForever, PurgeExpired, SetPerms, SaveVersion, HistoryCheck,
   HistoryRestore, Disconnect, Reconnect, ReleaseLocksForIp

LEMMA DeskChanges == [Next]_lockVars =>
    \/ UNCHANGED <<op, copy>>
    \/ UNCHANGED copy /\ \E a \in Actors : UpdateCheck(a) \/ AcquireGet(a) \/ TrashRow(a) \/ TrashUnlock(a)
          \/ \E t \in 1 .. MaxRev : HistoryCheck(a, t)
    \/ UNCHANGED op /\ \E a \in Actors : Create(a) \/ Get(a)
    \/ \E a \in Actors : AcquireLock(a) \/ UpdateStore(a) \/ HistoryRestore(a)
BY Zenon DEF Next, lockVars, Request, Background, Create, Get, AcquireGet, AcquireLock, UpdateCheck,
   UpdateStore, ReleaseLock, ForceUnlock, Expire, SweepExpiredLocks, CloseSnapshot,
   TrashRow, TrashUnlock, Restore, DeleteForever, PurgeExpired, SetPerms, SaveVersion, HistoryCheck,
   HistoryRestore, Disconnect, Reconnect, ReleaseLocksForIp

LEMMA RowKeeps ==
    ASSUME Typed, [Next]_lockVars
    PROVE  (TypeRow /\ RowSound)'
<1>1. row \in [st : {"none", "live", "trash", "gone"}, rev : 0 .. MaxRev, text : 0 .. MaxRev,
               owner : Actors \cup {NoOne}]
  BY DEF Typed, TypeOK
<1>2. MaxRev \in Nat \ {0} /\ 0 \in 0 .. MaxRev /\ 1 \in 0 .. MaxRev
  BY LockAssumption
<1>3. CASE UNCHANGED row
  BY <1>1, <1>3 DEF Typed, TypeRow, RowSound, Exists
<1>4. ASSUME NEW a \in Actors, Create(a) PROVE (TypeRow /\ RowSound)'
  BY <1>2, <1>4 DEF Create, TypeRow, RowSound, Exists
<1>5. ASSUME NEW t \in 1 .. MaxRev, row.rev < MaxRev, row.st = "live",
             row' = [row EXCEPT !.rev = @ + 1, !.text = t]
      PROVE  (TypeRow /\ RowSound)'
  <2>1. row.rev + 1 \in 1 .. MaxRev /\ t \in 0 .. MaxRev /\ t > 0 /\ row.rev + 1 > 0
    BY <1>1, <1>2, <1>5
  <2>2. row' = [st |-> "live", rev |-> row.rev + 1, text |-> t, owner |-> row.owner]
    BY <1>1, <1>5
  <2> QED  BY <1>1, <2>1, <2>2 DEF TypeRow, RowSound, Exists
<1>6. ASSUME NEW a \in Actors, UpdateStore(a) PROVE (TypeRow /\ RowSound)'
  <2>1. CASE UNCHANGED row
    BY <1>3, <2>1
  <2>2. CASE CanEdit(a) /\ row.rev < MaxRev /\ row' = [row EXCEPT !.rev = @ + 1, !.text = row.rev + 1]
    <3>1. row.rev + 1 \in 1 .. MaxRev
      BY <1>1, <1>2, <2>2
    <3> QED  BY <1>5, <2>2, <3>1 DEF CanEdit
  <2> QED  BY <1>6, <2>1, <2>2 DEF UpdateStore
<1>7. ASSUME NEW a \in Actors, HistoryRestore(a) PROVE (TypeRow /\ RowSound)'
  <2>1. CASE UNCHANGED row
    BY <1>3, <2>1
  <2>2. CASE CanEdit(a) /\ row.rev < MaxRev /\ op[a].text \in Archived
             /\ row' = [row EXCEPT !.rev = @ + 1, !.text = op[a].text]
    BY <1>5, <2>2, ArchivedIs DEF CanEdit
  <2> QED  BY <1>7, <2>1, <2>2 DEF HistoryRestore
<1>8. ASSUME NEW st \in {"live", "trash"}, row' = [row EXCEPT !.st = st], Exists
      PROVE  (TypeRow /\ RowSound)'
  <2>1. row' = [st |-> st, rev |-> row.rev, text |-> row.text, owner |-> row.owner]
    BY <1>1, <1>8
  <2> QED  BY <1>1, <1>8, <2>1 DEF Typed, TypeRow, RowSound, Exists
<1>9. ASSUME NEW a \in Actors, TrashRow(a) \/ Restore(a) PROVE (TypeRow /\ RowSound)'
  BY <1>8, <1>9 DEF TrashRow, Restore
<1>10. CASE Purged
  <2>1. row' = [st |-> "gone", rev |-> row.rev, text |-> 0, owner |-> row.owner]
    BY <1>1, <1>10 DEF Purged
  <2> QED  BY <1>1, <1>2, <2>1 DEF TypeRow, RowSound, Exists
<1> QED  BY <1>3, <1>4, <1>6, <1>7, <1>9, <1>10, Changes

LEMMA HistStep ==
    ASSUME Typed, [Next]_lockVars
    PROVE  TypeHist'
<1>1. hist \in Seq(Versions) /\ Len(hist) <= MaxVersions
  BY DEF Typed, TypeOK, Versions
<1>2. CASE UNCHANGED hist
  BY <1>1, <1>2 DEF TypeHist
<1>3. CASE Exists /\ (hist' = Snapshot(hist) \/ hist' \in AutoSnapshots(hist))
  BY <1>3, ArchivesTyped DEF TypeHist
<1>4. CASE Purged
  <2>1. Len(<< >>) = 0 /\ << >> \in Seq(Versions)
    BY EmptySeq
  <2> QED  BY <1>4, <2>1, LockAssumption DEF Purged, TypeHist
<1>5. ASSUME NEW a \in Actors, UpdateStore(a) \/ SaveVersion(a) \/ HistoryRestore(a) PROVE TypeHist'
  BY <1>2, <1>3, <1>5 DEF UpdateStore, SaveVersion, HistoryRestore, CanEdit, Exists
<1> QED  BY <1>2, <1>3, <1>4, <1>5, Changes

LEMMA LockKeeps ==
    ASSUME Typed, [Next]_lockVars
    PROVE  TypeLock'
<1> DEFINE Locks == [key : Actors \cup {NoOne}, rev : 0 .. MaxRev, fresh : BOOLEAN]
<1>1. lock \in Locks /\ Pruned \in Locks /\ NoLock \in Locks
  BY PrunedTyped, LockAssumption DEF NoLock, Typed, TypeOK
<1>2. CASE Expire
  BY <1>1, <1>2 DEF Expire, TypeLock
<1>3. ASSUME NEW a \in Actors, AcquireLock(a) PROVE TypeLock'
  <2>1. op[a].rev \in 0 .. MaxRev /\ a \in Actors \cup {NoOne}
    BY OpIs
  <2>2. lock' = lock \/ lock' = [key |-> a, rev |-> op[a].rev, fresh |-> TRUE]
    BY <1>3 DEF AcquireLock
  <2>3. [key |-> a, rev |-> op[a].rev, fresh |-> TRUE] \in Locks
    BY <2>1
  <2>4. lock' \in Locks
    BY ONLY <1>1, <2>2, <2>3
  <2> QED  BY <2>4 DEF TypeLock
<1> QED  BY <1>1, <1>2, <1>3, Changes DEF TypeLock

LEMMA DeskStep ==
    ASSUME Typed, [Next]_lockVars
    PROVE  TypeDesk'
<1>1. op \in [Actors -> Ops] /\ copy \in [Actors -> Screens] /\ 0 \in 0 .. MaxRev
  <2>1. op \in [Actors -> Ops]
    BY Zenon DEF Typed, TypeOK, Ops
  <2>2. copy \in [Actors -> Screens]
    BY Zenon DEF Typed, TypeOK, Screens
  <2> QED  BY <2>1, <2>2, LockAssumption
<1>2. row.rev \in 0 .. MaxRev /\ row.text \in 0 .. MaxRev /\ 1 \in 0 .. MaxRev
      /\ \A t \in 1 .. MaxRev : t \in 0 .. MaxRev
  BY RowIs, LockAssumption
<1>3. ASSUME NEW a \in Actors, UpdateCheck(a) \/ AcquireGet(a) \/ TrashRow(a) \/ TrashUnlock(a)
                               \/ \E t \in 1 .. MaxRev : HistoryCheck(a, t)
      PROVE  op' \in [Actors -> Ops]
  BY <1>1, <1>2, <1>3, OpIs, DeskTyped DEF UpdateCheck, AcquireGet, TrashRow, TrashUnlock, HistoryCheck
<1>4. ASSUME NEW a \in Actors, Create(a) \/ Get(a) PROVE copy' \in [Actors -> Screens]
  BY <1>2, <1>4, DeskTyped DEF Create, Get
<1>5. ASSUME NEW a \in Actors, AcquireLock(a) \/ UpdateStore(a) \/ HistoryRestore(a) PROVE TypeDesk'
  <2>1. op' \in [Actors -> Ops]
    BY <1>5, DeskTyped DEF AcquireLock, UpdateStore, HistoryRestore
  <2>2. op[a].rev \in 0 .. MaxRev /\ op[a].text \in 0 .. MaxRev
    BY OpIs
  <2>3. row.rev < MaxRev => row.rev + 1 \in 0 .. MaxRev
    BY <1>2, LockAssumption
  <2>4. copy' \in [Actors -> Screens]
    BY <1>1, <1>5, <2>2, <2>3, DeskTyped DEF AcquireLock, UpdateStore, HistoryRestore
  <2> QED  BY <2>1, <2>4 DEF TypeDesk
<1> QED  BY <1>1, <1>3, <1>4, <1>5, DeskChanges DEF TypeDesk

LEMMA RestStep ==
    ASSUME Typed, [Next]_lockVars
    PROVE  TypeRest'
<1>1. /\ level \in [Members -> Levels] /\ snaps \subseteq 0 .. MaxRev
      /\ conn \in [Members -> BOOLEAN] /\ cleanup \in [Members -> 0 .. MaxUpsets]
      /\ upsets \in 0 .. MaxUpsets /\ Cleanups /\ lock.rev \in 0 .. MaxRev
      /\ MaxUpsets \in Nat /\ NewLevels \subseteq Levels
  BY LockAssumption DEF Typed, TypeOK
<1>2. CASE UNCHANGED <<level, snaps, conn, cleanup, upsets>>
  BY <1>1, <1>2 DEF TypeRest, Cleanups
<1>3. CASE UNCHANGED <<level, conn, cleanup, upsets>> /\ (FreeLock \/ snaps' \subseteq snaps)
  BY <1>1, <1>3 DEF TypeRest, Cleanups, FreeLock
<1>4. CASE upsets < MaxUpsets /\ upsets' = upsets + 1 /\ UNCHANGED <<snaps, conn, cleanup>>
           /\ level' \in [Members -> Levels]
  <2>1. upsets' \in 0 .. MaxUpsets
    BY <1>1, <1>4
  <2>2. Cleanups'
    BY <1>1, <1>4 DEF Cleanups
  <2> QED  BY <1>1, <1>4, <2>1, <2>2 DEF TypeRest
<1>5. ASSUME NEW m \in Members, Disconnect(m) PROVE TypeRest'
  <2>1. upsets' \in 0 .. MaxUpsets /\ upsets' = upsets + 1 /\ cleanup[m] + 1 \in 0 .. upsets + 1
    BY <1>1, <1>5 DEF Disconnect, Cleanups
  <2>2. cleanup[m] + 1 \in 0 .. MaxUpsets
    BY <1>1, <2>1
  <2>3. cleanup' \in [Members -> 0 .. MaxUpsets] /\ conn' \in [Members -> BOOLEAN]
    BY <1>1, <1>5, <2>2 DEF Disconnect
  <2>4. Cleanups'
    <3> SUFFICES ASSUME NEW n \in Members PROVE cleanup'[n] <= upsets'
      BY DEF Cleanups
    <3>1. cleanup'[n] = cleanup[n] \/ cleanup'[n] = cleanup[m] + 1
      BY <1>1, <1>5 DEF Disconnect
    <3> QED  BY <1>1, <2>1, <3>1 DEF Cleanups
  <2> QED  BY <1>1, <1>5, <2>1, <2>3, <2>4 DEF TypeRest, Disconnect
<1>6. ASSUME NEW m \in Members, Reconnect(m) PROVE TypeRest'
  BY <1>1, <1>6 DEF TypeRest, Reconnect, Cleanups
<1>7. ASSUME NEW m \in Members, ReleaseLocksForIp(m) PROVE TypeRest'
  <2>1. cleanup[m] - 1 \in 0 .. MaxUpsets /\ cleanup[m] - 1 <= upsets
    BY <1>1, <1>7 DEF ReleaseLocksForIp, Cleanups
  <2>2. cleanup' \in [Members -> 0 .. MaxUpsets] /\ snaps' \subseteq 0 .. MaxRev
    BY <1>1, <1>7, <2>1 DEF ReleaseLocksForIp, FreeLock
  <2>3. Cleanups'
    <3> SUFFICES ASSUME NEW n \in Members PROVE cleanup'[n] <= upsets'
      BY DEF Cleanups
    <3>1. cleanup'[n] = cleanup[n] \/ cleanup'[n] = cleanup[m] - 1
      BY <1>1, <1>7 DEF ReleaseLocksForIp
    <3> QED  BY <1>1, <1>7, <2>1, <3>1 DEF Cleanups, ReleaseLocksForIp
  <2> QED  BY <1>1, <1>7, <2>2, <2>3 DEF TypeRest, ReleaseLocksForIp
<1>8. ASSUME NEW a \in Actors, Request(a) PROVE TypeRest'
  <2>1. CASE TrashRow(a)
    BY <1>1, <1>4, <2>1 DEF TrashRow
  <2>2. ASSUME NEW m \in Members, NEW l \in NewLevels, SetPerms(a, m, l) PROVE TypeRest'
    BY <1>1, <1>4, <2>2 DEF SetPerms
  <2>3. CASE ReleaseLock(a) \/ ForceUnlock(a)
    BY <1>3, <2>3 DEF ReleaseLock, ForceUnlock
  <2>4. CASE Create(a) \/ Get(a) \/ AcquireGet(a) \/ UpdateCheck(a) \/ Restore(a)
             \/ DeleteForever(a) \/ SaveVersion(a) \/ (\E t \in 1 .. MaxRev : HistoryCheck(a, t))
    BY <1>2, <2>4 DEF Create, Get, AcquireGet, UpdateCheck, Restore, DeleteForever, SaveVersion,
                      HistoryCheck
  <2> QED  BY Zenon, <1>8, <2>1, <2>2, <2>3, <2>4 DEF Request
<1>9. CASE Background
  <2>1. ASSUME NEW a \in Actors, AcquireLock(a) \/ UpdateStore(a) \/ TrashUnlock(a) \/ HistoryRestore(a)
        PROVE  TypeRest'
    BY <1>2, <2>1 DEF AcquireLock, UpdateStore, TrashUnlock, HistoryRestore
  <2>2. ASSUME NEW r \in 0 .. MaxRev, CloseSnapshot(r) PROVE TypeRest'
    BY <1>3, <2>2 DEF CloseSnapshot
  <2> QED  BY <1>7, <1>9, <2>1, <2>2 DEF Background
<1>10. CASE Expire \/ SweepExpiredLocks \/ PurgeExpired
  BY <1>2, <1>3, <1>10 DEF Expire, SweepExpiredLocks, PurgeExpired
<1>11. CASE UNCHANGED lockVars
  BY <1>2, <1>11 DEF lockVars
<1> QED  BY Zenon, <1>5, <1>6, <1>8, <1>9, <1>10, <1>11 DEF Next

LEMMA TypedInit == Init => Typed
<1> SUFFICES ASSUME Init PROVE Typed
  OBVIOUS
<1>1. 0 \in 0 .. MaxRev /\ 0 \in 0 .. MaxUpsets
  BY LockAssumption
<1>2. Idle \in Ops /\ Idle \in Screens
  BY <1>1 DEF Idle, Ops, Screens
<1>3. TypeHist
  BY EmptySeq, LockAssumption DEF Init, TypeHist
<1>4. TypeRow /\ RowSound
  BY <1>1 DEF Init, TypeRow, RowSound, Exists
<1>5. TypeLock
  BY <1>1 DEF Init, NoLock, TypeLock
<1>6. TypeDesk
  BY <1>2 DEF Init, TypeDesk
<1>7. TypeRest
  BY <1>1 DEF Init, TypeRest, Cleanups, Levels
<1> QED  BY <1>3, <1>4, <1>5, <1>6, <1>7, TypeParts DEF Typed

LEMMA TypedStep == Typed /\ [Next]_lockVars => Typed'
<1> SUFFICES ASSUME Typed, [Next]_lockVars PROVE Typed'
  OBVIOUS
<1>1. (TypeRow /\ TypeHist /\ TypeLock /\ TypeDesk /\ TypeRest)' => (TypeOK /\ Cleanups)'
  BY DEF TypeOK, TypeRow, TypeHist, TypeLock, TypeDesk, TypeRest, Versions, Ops, Screens
<1> QED  BY <1>1, RowKeeps, HistStep, LockKeeps, DeskStep, RestStep DEF Typed

\* The rows, the locks and the requests under way keep their types, for
\* any number of members, revisions, versions and faults.
THEOREM TypeCorrect == Spec => []TypeOK
<1>1. Typed => TypeOK
  BY DEF Typed
<1> QED  BY TypedInit, TypedStep, <1>1, PTL DEF Spec

-----------------------------------------------------------------------------
(* What is known of a revision is its text.                                *)

Tells(r, t) == r <= row.rev /\ (Exists /\ r = row.rev => t = row.text)
KnownBy(a) ==
    /\ Tells(copy[a].rev, copy[a].text)
    /\ op[a].k = "update" => op[a].rev = copy[a].rev
    /\ op[a].k = "acquire" => Tells(op[a].rev, op[a].text)
Known == \A a \in Actors : KnownBy(a)

KnownInv == Typed /\ Known

\* A desk is changed by its own actor's steps alone.
LEMMA DeskOf ==
    ASSUME Typed, NEW a \in Actors, NEW b \in Actors
    PROVE  /\ Done(b) => op'[a] = IF a = b THEN Idle ELSE op[a]
           /\ \A k, r, t : Begin(b, k, r, t) =>
                 op'[a] = IF a = b THEN [k |-> k, rev |-> r, text |-> t] ELSE op[a]
           /\ \A r, t : Reply(b, r, t) =>
                 copy'[a] = IF a = b THEN [k |-> "idle", rev |-> r, text |-> t] ELSE copy[a]
<1>1. op \in [Actors -> Ops] /\ copy \in [Actors -> Screens]
  BY DEF Typed, TypeOK, Ops, Screens
<1> QED  BY <1>1 DEF Done, Begin, Reply

\* What the row had is still right of the row, or of a revision that is past.
TellsNext(r, t) == r <= row'.rev /\ (Exists' /\ r = row'.rev => t = row'.text)

LEMMA NamesKept ==
    ASSUME Typed, [Next]_lockVars, NEW r \in 0 .. MaxRev, NEW t, Tells(r, t)
    PROVE  TellsNext(r, t)
<1>1. row.rev \in Nat /\ r \in Nat /\ r <= row.rev
  BY RowIs DEF Tells
<1>2. CASE UNCHANGED row
  BY <1>2 DEF Tells, TellsNext, Exists
<1>3. CASE row'.rev = row.rev + 1
  <2>1. r <= row'.rev /\ r # row'.rev
    BY <1>1, <1>3
  <2> QED  BY <2>1 DEF TellsNext
<1>4. CASE row'.rev = row.rev /\ row'.text = row.text /\ Exists
  BY <1>4 DEF Tells, TellsNext
<1>5. row \in [st : {"none", "live", "trash", "gone"}, rev : 0 .. MaxRev, text : 0 .. MaxRev,
               owner : Actors \cup {NoOne}]
  BY DEF Typed, TypeOK
<1>6. ASSUME NEW a \in Actors, Create(a) PROVE TellsNext(r, t)
  <2>1. row'.rev = 1 /\ row.rev = 0
    BY <1>6 DEF Create, Typed, RowSound
  <2> QED  BY <1>3, <2>1
<1>7. ASSUME NEW a \in Actors, UpdateStore(a) \/ HistoryRestore(a) PROVE TellsNext(r, t)
  <2>1. UNCHANGED row \/ row'.rev = row.rev + 1
    BY <1>5, <1>7 DEF UpdateStore, HistoryRestore
  <2> QED  BY <1>2, <1>3, <2>1
<1>8. ASSUME NEW a \in Actors, TrashRow(a) \/ Restore(a) PROVE TellsNext(r, t)
  <2>1. row'.rev = row.rev /\ row'.text = row.text /\ Exists
    BY <1>5, <1>8 DEF TrashRow, Restore
  <2> QED  BY <1>4, <2>1
<1>9. CASE Purged
  <2>1. row'.rev = row.rev /\ ~Exists'
    BY <1>5, <1>9 DEF Purged, Exists
  <2> QED  BY <1>1, <2>1 DEF TellsNext
<1> QED  BY <1>2, <1>6, <1>7, <1>8, <1>9, Changes

\* A revision that is the row's and has the row's text.
LEMMA TellsRow ==
    /\ row'.rev \in Nat => TellsNext(row'.rev, row'.text)
    /\ row.rev \in Nat /\ UNCHANGED row => TellsNext(row.rev, row.text)
BY DEF TellsNext

\* Known, of a desk after the step, said with the primes inside.
LEMMA KnownNext ==
    ASSUME NEW a \in Actors, TellsNext(copy'[a].rev, copy'[a].text),
           op'[a].k = "update" => op'[a].rev = copy'[a].rev,
           op'[a].k = "acquire" => TellsNext(op'[a].rev, op'[a].text)
    PROVE  KnownBy(a)'
BY DEF KnownBy, Tells, TellsNext

LEMMA KnownStep == KnownInv /\ [Next]_lockVars => Known'
<1> SUFFICES ASSUME Typed, Known, [Next]_lockVars, NEW a \in Actors PROVE KnownBy(a)'
  BY DEF KnownInv, Known
<1>1. /\ copy[a].rev \in 0 .. MaxRev /\ op[a].rev \in 0 .. MaxRev /\ row.rev \in Nat
      /\ Tells(copy[a].rev, copy[a].text)
      /\ op[a].k = "update" => op[a].rev = copy[a].rev
      /\ op[a].k = "acquire" => Tells(op[a].rev, op[a].text)
  BY OpIs, RowIs DEF Known, KnownBy
<1>2. row'.rev \in Nat
  BY TypedStep, LockAssumption DEF Typed, TypeOK
<1>3. TellsNext(copy[a].rev, copy[a].text)
  BY <1>1, NamesKept
<1>4. op[a].k = "acquire" => TellsNext(op[a].rev, op[a].text)
  BY <1>1, NamesKept
<1>5. Idle.k = "idle"
  BY DEF Idle
<1>6. CASE op'[a] = op[a] /\ copy'[a] = copy[a]
  BY <1>1, <1>3, <1>4, <1>6, KnownNext
<1>7. CASE op'[a] = Idle /\ copy'[a] = copy[a]
  BY <1>3, <1>5, <1>7, KnownNext
<1>8. ASSUME NEW r, NEW t, TellsNext(r, t), op'[a].k = "idle",
             copy'[a] = [k |-> "idle", rev |-> r, text |-> t]
      PROVE  KnownBy(a)'
  BY <1>8, KnownNext
<1>9. ASSUME NEW k, NEW r, NEW t, op'[a] = [k |-> k, rev |-> r, text |-> t], copy'[a] = copy[a],
             k = "update" => r = copy[a].rev, k = "acquire" => TellsNext(r, t)
      PROVE  KnownBy(a)'
  BY <1>3, <1>9, KnownNext
<1>10. CASE UNCHANGED <<op, copy>>
  BY <1>6, <1>10
<1>11. ASSUME UNCHANGED copy, NEW b \in Actors,
              UpdateCheck(b) \/ AcquireGet(b) \/ TrashRow(b) \/ TrashUnlock(b)
              \/ \E t \in 1 .. MaxRev : HistoryCheck(b, t)
       PROVE  KnownBy(a)'
  <2>1. CASE a # b \/ UNCHANGED op
    <3>1. op'[a] = op[a]
      BY <1>11, <2>1, DeskOf DEF UpdateCheck, AcquireGet, TrashRow, TrashUnlock, HistoryCheck
    <3> QED  BY <1>6, <1>11, <3>1
  <2>2. CASE a = b /\ UpdateCheck(b) /\ Begin(b, "update", copy[b].rev, 0)
    <3>1. op'[a] = [k |-> "update", rev |-> copy[a].rev, text |-> 0]
      BY <2>2, DeskOf
    <3> QED  BY <1>9, <1>11, <3>1
  <2>3. CASE a = b /\ AcquireGet(b)
    <3>1. op'[a] = [k |-> "acquire", rev |-> row.rev, text |-> row.text] /\ UNCHANGED row
      BY <2>3, DeskOf DEF AcquireGet
    <3>2. TellsNext(row.rev, row.text)
      BY <1>1, <3>1, TellsRow
    <3> QED  BY <1>9, <1>11, <3>1, <3>2
  <2>4. CASE a = b /\ TrashRow(b)
    <3>1. op'[a] = [k |-> "trash", rev |-> 0, text |-> 0]
      BY <2>4, DeskOf DEF TrashRow
    <3> QED  BY <1>9, <1>11, <3>1
  <2>5. CASE a = b /\ TrashUnlock(b)
    <3>1. op'[a] = Idle
      BY <2>5, DeskOf DEF TrashUnlock
    <3> QED  BY <1>7, <1>11, <3>1
  <2>6. ASSUME a = b, NEW t \in 1 .. MaxRev, HistoryCheck(b, t) PROVE KnownBy(a)'
    <3>1. op'[a] = [k |-> "restore", rev |-> 0, text |-> t]
      BY <2>6, DeskOf DEF HistoryCheck
    <3> QED  BY <1>9, <1>11, <3>1
  <2>7. UpdateCheck(b) => UNCHANGED op \/ Begin(b, "update", copy[b].rev, 0)
    BY DEF UpdateCheck
  <2> QED  BY Zenon, <1>11, <2>1, <2>2, <2>3, <2>4, <2>5, <2>6, <2>7
<1>12. ASSUME UNCHANGED op, NEW b \in Actors, Create(b) \/ Get(b) PROVE KnownBy(a)'
  <2>1. CASE a # b
    <3>1. copy'[a] = copy[a]
      BY <1>12, <2>1, DeskOf DEF Create, Get
    <3> QED  BY <1>6, <1>12, <3>1
  <2>2. CASE a = b
    <3>1. op'[a].k = "idle"
      BY <1>12, <2>2 DEF Create, Get, Ask
    <3>2. copy'[a] = [k |-> "idle", rev |-> row'.rev, text |-> row'.text]
      BY <1>12, <2>2, DeskOf DEF Create, Get
    <3> QED  BY <1>2, <1>8, <3>1, <3>2, TellsRow
  <2> QED  BY <2>1, <2>2
<1>13. ASSUME NEW b \in Actors, AcquireLock(b) \/ UpdateStore(b) \/ HistoryRestore(b) PROVE KnownBy(a)'
  <2>1. CASE a # b
    <3>1. op'[a] = op[a] /\ copy'[a] = copy[a]
      BY <1>13, <2>1, DeskOf DEF AcquireLock, UpdateStore, HistoryRestore
    <3> QED  BY <1>6, <3>1
  <2>2. CASE a = b
    <3>1. op'[a] = Idle
      BY <1>13, <2>2, DeskOf DEF AcquireLock, UpdateStore, HistoryRestore
    <3>2. CASE UNCHANGED copy
      BY <1>7, <3>1, <3>2
    <3>3. CASE op[a].k = "acquire" /\ Reply(a, op[a].rev, op[a].text)
      <4>1. copy'[a] = [k |-> "idle", rev |-> op[a].rev, text |-> op[a].text]
        BY <3>3, DeskOf
      <4> QED  BY <1>4, <1>5, <1>8, <3>1, <3>3, <4>1
    <3>4. CASE Reply(a, row'.rev, row'.text)
      <4>1. copy'[a] = [k |-> "idle", rev |-> row'.rev, text |-> row'.text]
        BY <3>4, DeskOf
      <4> QED  BY <1>2, <1>5, <1>8, <3>1, <4>1, TellsRow
    <3>5. row \in [st : {"none", "live", "trash", "gone"}, rev : 0 .. MaxRev,
                   text : 0 .. MaxRev, owner : Actors \cup {NoOne}]
      BY DEF Typed, TypeOK
    <3>6. AcquireLock(a) => UNCHANGED copy \/ (op[a].k = "acquire" /\ Reply(a, op[a].rev, op[a].text))
      BY DEF AcquireLock
    <3>7. UpdateStore(a) \/ HistoryRestore(a) => UNCHANGED copy \/ Reply(a, row'.rev, row'.text)
      BY <3>5 DEF UpdateStore, HistoryRestore, Reply
    <3> QED  BY Zenon, <1>13, <2>2, <3>2, <3>3, <3>4, <3>6, <3>7
  <2> QED  BY <2>1, <2>2
<1> QED  BY Zenon, <1>10, <1>11, <1>12, <1>13, DeskChanges

LEMMA KnownHolds == Spec => []KnownInv
<1>1. Init => Known
  <2> SUFFICES ASSUME Init, NEW a \in Actors PROVE KnownBy(a)
    BY DEF Known
  <2>1. op[a] = Idle /\ copy[a] = Idle /\ row.rev = 0 /\ ~Exists
    BY DEF Init, Exists
  <2> QED  BY <2>1 DEF KnownBy, Tells, Idle
<1>2. KnownInv /\ [Next]_lockVars => KnownInv'
  BY TypedStep, KnownStep DEF KnownInv
<1>3. Init => KnownInv
  BY <1>1, TypedInit DEF KnownInv
<1> QED  BY <1>2, <1>3, PTL DEF Spec

-----------------------------------------------------------------------------
(* The refinement.                                                         *)

Holding == IF lock.fresh THEN lock.key ELSE NoOne
Read == [a \in Actors |-> copy[a].text]

\* The lock as the lease sees it: pruning it changes nothing.
LEMMA Prunes ==
    /\ lock' = Pruned => Holding' = Holding
    /\ lock' = lock => Holding' = Holding
    /\ lock' = NoLock => Holding' = NoOne
    /\ Holding = IF lock.fresh THEN Pruned.key ELSE NoOne
    /\ Pruned.key = NoOne => Holding = NoOne
    /\ \A a : Pruned.key = a => Holding \in {NoOne, a}
BY DEF Holding, Pruned, NoLock

\* The archive as the lease sees it.
LEMMA Archives ==
    ASSUME Typed, Exists
    PROVE  /\ hist' = Snapshot(hist) => Archived' \subseteq Archived \cup {row.text}
           /\ hist' = Snapshot(hist) /\ hist # << >> => row.text \in Archived'
           /\ hist' \in AutoSnapshots(hist) => Archived' \subseteq Archived \cup {row.text}
<1>1. hist \in Seq(Versions) /\ Len(hist) <= MaxVersions /\ row.rev \in 1 .. MaxRev
      /\ row.text \in 1 .. MaxRev
  BY RowIs DEF Typed, TypeOK, Versions
<1>2. /\ \A i \in DOMAIN Snapshot(hist) :
            \/ Snapshot(hist)[i].text = row.text
            \/ \E j \in DOMAIN hist : Snapshot(hist)[i] = hist[j]
      /\ hist # << >> => \E i \in DOMAIN Snapshot(hist) : Snapshot(hist)[i].text = row.text
  BY <1>1, SnapshotIs
<1>3. ASSUME hist' = Snapshot(hist) PROVE Archived' \subseteq Archived \cup {row.text}
  <2> SUFFICES ASSUME NEW i \in DOMAIN hist' PROVE hist'[i].text \in Archived \cup {row.text}
    BY DEF Archived, Range
  <2> QED  BY <1>2, <1>3 DEF Archived, Range
<1>4. hist' = Snapshot(hist) /\ hist # << >> => row.text \in Archived'
  BY <1>2 DEF Archived, Range
<1>5. hist' = hist => Archived' = Archived
  BY DEF Archived
<1> QED  BY <1>3, <1>4, <1>5 DEF AutoSnapshots

\* What a reply lets its actor know.
LEMMA Replies ==
    ASSUME Typed, NEW a \in Actors, NEW r, NEW t, Reply(a, r, t)
    PROVE  Read' = [Read EXCEPT ![a] = t]
<1>1. copy \in [Actors -> Screens]
  BY DEF Typed, TypeOK, Screens
<1>2. \A b \in Actors : copy'[b].text = IF b = a THEN t ELSE copy[b].text
  BY <1>1 DEF Reply
<1> QED  BY <1>2 DEF Read

\* A step of the lease, in the words of the memo.
LEMMA Leases ==
    ASSUME \/ /\ row.text = 0 /\ row'.text # 0
              /\ \E a \in Actors : Read' = [Read EXCEPT ![a] = row'.text]
              /\ UNCHANGED <<Holding, Archived>>
           \/ /\ \E a \in Actors : /\ Holding \in {NoOne, a} /\ Holding' = a
                                   /\ \A b \in Actors \ {a} : Read'[b] = Read[b]
              /\ UNCHANGED <<row.text, Archived>>
           \/ /\ \E a \in Actors : Read' = [Read EXCEPT ![a] = row.text]
              /\ UNCHANGED <<Holding, row.text, Archived>>
           \/ /\ row.text # 0 /\ row'.text # 0
              /\ \E a \in Actors : /\ Read[a] = row.text \/ row.text \in Archived'
                                   /\ Read' = [Read EXCEPT ![a] = row'.text]
              /\ Archived' \subseteq Archived \cup {row.text}
              /\ UNCHANGED Holding
           \/ Holding' = NoOne /\ UNCHANGED <<row.text, Read, Archived>>
           \/ Archived' \subseteq Archived \cup {row.text} /\ UNCHANGED <<Holding, row.text, Read>>
           \/ row'.text = 0 /\ Archived' = {} /\ UNCHANGED <<Holding, Read>>
           \/ UNCHANGED <<Holding, row.text, Read, Archived>>
    PROVE  [Lease!Next]_(Lease!leaseVars)
BY Zenon DEF Holding, Read, Lease!Next, Lease!leaseVars, Lease!Create, Lease!Take, Lease!Read, Lease!Replace,
   Lease!Drop, Lease!Archive, Lease!Erase

LEMMA Stills ==
    /\ UNCHANGED hist => UNCHANGED Archived
    /\ UNCHANGED copy => UNCHANGED Read
    /\ UNCHANGED lock => UNCHANGED Holding
    /\ UNCHANGED row => UNCHANGED row.text
BY DEF Archived, Read, Holding

LEMMA LeaseStep == KnownInv /\ [Next]_lockVars => [Lease!Next]_(Lease!leaseVars)
<1> SUFFICES ASSUME Typed, Known, [Next]_lockVars PROVE [Lease!Next]_(Lease!leaseVars)
  BY DEF KnownInv
<1>1. row \in [st : {"none", "live", "trash", "gone"}, rev : 0 .. MaxRev, text : 0 .. MaxRev,
               owner : Actors \cup {NoOne}]
  BY DEF Typed, TypeOK
<1>2. Exists => row.text # 0 /\ row.rev \in Nat
  BY RowIs
<1>3. CASE UNCHANGED <<row, hist, copy>> /\ lock' \in {lock, Pruned}
  BY <1>3, Stills, Prunes, Leases
<1>4. CASE UNCHANGED <<row, hist, copy>> /\ lock' = NoLock
  BY <1>4, Stills, Prunes, Leases
<1>5. CASE UNCHANGED <<row, copy, lock>> /\ Exists /\ hist' = Snapshot(hist)
  BY <1>5, Stills, Archives, Leases
<1>6. CASE UNCHANGED <<hist, copy, lock>> /\ \E st \in {"live", "trash"} : row' = [row EXCEPT !.st = st]
  <2>1. row'.text = row.text
    BY <1>1, <1>6
  <2> QED  BY <1>6, <2>1, Stills, Leases
<1>7. CASE UNCHANGED <<copy, lock>> /\ Purged
  <2>1. row'.text = 0 /\ Archived' = {}
    BY <1>1, <1>7 DEF Purged, Archived, Range
  <2> QED  BY <1>7, <2>1, Stills, Leases
<1>8. ASSUME NEW a \in Actors, Create(a) PROVE [Lease!Next]_(Lease!leaseVars)
  <2>1. row.text = 0 /\ row'.text = 1
    BY <1>8 DEF Create, Typed, RowSound, Exists
  <2>2. Read' = [Read EXCEPT ![a] = row'.text]
    BY <1>8, <2>1, Replies DEF Create
  <2> QED  BY <1>8, <2>1, <2>2, Stills, Leases DEF Create
<1>9. ASSUME NEW a \in Actors, Get(a) PROVE [Lease!Next]_(Lease!leaseVars)
  <2>1. Read' = [Read EXCEPT ![a] = row.text]
    BY <1>9, Replies DEF Get
  <2> QED  BY <1>9, <2>1, Stills, Prunes, Leases DEF Get
<1>10. ASSUME NEW a \in Actors, AcquireLock(a) PROVE [Lease!Next]_(Lease!leaseVars)
  <2>1. CASE UNCHANGED <<lock, copy>>
    BY <1>3, <1>10, <2>1 DEF AcquireLock
  <2>2. CASE /\ Pruned.key \in {NoOne, a} /\ lock' = [key |-> a, rev |-> op[a].rev, fresh |-> TRUE]
             /\ Reply(a, op[a].rev, op[a].text)
    <3>1. Holding \in {NoOne, a} /\ Holding' = a
      BY <2>2, Prunes DEF Holding
    <3>2. \A b \in Actors \ {a} : Read'[b] = Read[b]
      <4>1. Read' = [Read EXCEPT ![a] = op[a].text]
        BY <2>2, Replies
      <4> QED  BY <4>1 DEF Read
    <3> QED  BY <1>10, <3>1, <3>2, Stills, Leases DEF AcquireLock
  <2> QED  BY <1>10, <2>1, <2>2 DEF AcquireLock
<1>11. ASSUME NEW a \in Actors, UpdateStore(a) PROVE [Lease!Next]_(Lease!leaseVars)
  <2>1. CASE UNCHANGED <<row, hist, copy>>
    BY <1>3, <1>11, <2>1 DEF UpdateStore
  <2>2. CASE /\ CanEdit(a) /\ row.rev = op[a].rev /\ hist' \in AutoSnapshots(hist)
             /\ row' = [row EXCEPT !.rev = @ + 1, !.text = row.rev + 1]
             /\ Reply(a, row.rev + 1, row.rev + 1)
    <3>1. Exists
      BY <2>2 DEF CanEdit, Exists
    <3>2. copy[a].text = row.text
      BY <1>11, <2>2, <3>1 DEF Known, KnownBy, Tells, UpdateStore
    <3>3. row'.text = row.rev + 1 /\ row'.text # 0
      BY <1>1, <1>2, <2>2, <3>1
    <3>4. Read[a] = row.text /\ Read' = [Read EXCEPT ![a] = row'.text]
      BY <2>2, <3>2, <3>3, Replies DEF Read
    <3> QED  BY <1>2, <1>11, <2>2, <3>1, <3>3, <3>4, Stills, Archives, Leases DEF UpdateStore
  <2> QED  BY <1>11, <2>1, <2>2 DEF UpdateStore
<1>12. ASSUME NEW a \in Actors, HistoryRestore(a) PROVE [Lease!Next]_(Lease!leaseVars)
  <2>1. CASE UNCHANGED <<row, hist, copy>>
    BY <1>3, <1>12, <2>1 DEF HistoryRestore
  <2>2. CASE /\ CanEdit(a) /\ op[a].text \in Archived /\ hist' = Snapshot(hist)
             /\ row' = [row EXCEPT !.rev = @ + 1, !.text = op[a].text]
             /\ Reply(a, row.rev + 1, op[a].text)
    <3>1. Exists
      BY <2>2 DEF CanEdit, Exists
    <3>2. hist # << >> /\ op[a].text # 0
      BY <2>2, ArchivedIs
    <3>3. row'.text = op[a].text /\ Read' = [Read EXCEPT ![a] = row'.text]
      BY <1>1, <2>2, Replies
    <3> QED  BY <1>2, <1>12, <2>2, <3>1, <3>2, <3>3, Stills, Archives, Leases DEF HistoryRestore
  <2> QED  BY <1>12, <2>1, <2>2 DEF HistoryRestore
<1>13. CASE Expire
  <2>1. Holding' = NoOne
    BY <1>13 DEF Expire, Holding, Typed, TypeOK
  <2> QED  BY <1>13, <2>1, Stills, Leases DEF Expire
<1>14. ASSUME NEW a \in Actors, Request(a) PROVE [Lease!Next]_(Lease!leaseVars)
  <2>1. CASE AcquireGet(a) \/ UpdateCheck(a) \/ (\E t \in 1 .. MaxRev : HistoryCheck(a, t))
             \/ (\E m \in Members, l \in NewLevels : SetPerms(a, m, l))
    BY <1>3, <2>1 DEF AcquireGet, UpdateCheck, HistoryCheck, SetPerms
  <2>2. CASE ReleaseLock(a) \/ ForceUnlock(a)
    BY <1>4, <2>2 DEF ReleaseLock, ForceUnlock, FreeLock
  <2>3. CASE TrashRow(a) \/ Restore(a)
    BY <1>6, <2>3 DEF TrashRow, Restore
  <2>4. CASE DeleteForever(a)
    BY <1>7, <2>4 DEF DeleteForever
  <2>5. CASE SaveVersion(a)
    BY <1>5, <2>5 DEF SaveVersion
  <2> QED  BY Zenon, <1>8, <1>9, <1>14, <2>1, <2>2, <2>3, <2>4, <2>5 DEF Request
<1>15. CASE Background
  <2>1. ASSUME NEW a \in Actors, TrashUnlock(a) PROVE [Lease!Next]_(Lease!leaseVars)
    BY <1>4, <2>1 DEF TrashUnlock
  <2>2. ASSUME NEW r \in 0 .. MaxRev, CloseSnapshot(r) PROVE [Lease!Next]_(Lease!leaseVars)
    BY <1>3, <1>5, <2>2 DEF CloseSnapshot
  <2>3. ASSUME NEW m \in Members, ReleaseLocksForIp(m) PROVE [Lease!Next]_(Lease!leaseVars)
    BY <1>3, <1>4, <2>3 DEF ReleaseLocksForIp, FreeLock
  <2> QED  BY Zenon, <1>10, <1>11, <1>12, <1>15, <2>1, <2>2, <2>3 DEF Background
<1>16. CASE SweepExpiredLocks
  BY <1>4, <1>16 DEF SweepExpiredLocks, FreeLock
<1>17. CASE PurgeExpired
  BY <1>7, <1>17 DEF PurgeExpired
<1>18. ASSUME NEW m \in Members, Disconnect(m) \/ Reconnect(m) PROVE [Lease!Next]_(Lease!leaseVars)
  BY <1>3, <1>18 DEF Disconnect, Reconnect
<1>19. CASE UNCHANGED lockVars
  BY <1>3, <1>19 DEF lockVars
<1> QED  BY Zenon, <1>13, <1>14, <1>15, <1>16, <1>17, <1>18, <1>19 DEF Next

\* The edit lock implements the lease: the right to edit passes only through
\* nobody, and no text is replaced unread and unarchived, although each
\* request looks at the lock and at the store in steps of their own.
THEOREM LockImplementsLease == Spec => LeaseHeld
<1>1. Init => Lease!Init
  <2> SUFFICES ASSUME Init PROVE Lease!Init
    OBVIOUS
  <2>1. Holding = NoOne
    BY DEF Init, NoLock, Holding
  <2>2. row.text = 0 /\ Archived = {}
    BY DEF Init, Archived, Range
  <2>3. Read = [a \in Actors |-> 0]
    BY DEF Init, Idle, Read
  <2> QED  BY <2>1, <2>2, <2>3 DEF Lease!Init, Holding, Read
<1> QED  BY <1>1, LeaseStep, KnownHolds, PTL DEF Spec, LeaseHeld, Lease!Spec

-----------------------------------------------------------------------------
(* The memos of one device: s1 is the memos, s2 the folders, s3 the        *)
(* reminders, s4 the time, s5 what each request has still to do, s6 the    *)
(* count, s7 how often a reminder was handed out, s8 the memos whose       *)
(* reminders were left behind.                                             *)

LocalRows == [life : {"absent", "live", "trash", "expired", "gone"},
              title : L!Titles, link : L!Titles, folder : Folders \cup {"none"}]
LocalWorks == {L!Idle} \cup [kind : {"delete"}, memo : Memos]
              \cup [kind : {"folder"}, name : Names]
              \cup [kind : {"remind"}, memo : Memos, at : L!Times]
              \cup [kind : {"take"}, due : SUBSET (Memos \X L!Times), stale : BOOLEAN]

LocalTyped ==
    /\ s1 \in [Memos -> LocalRows] /\ s2 \in [Folders -> Names \cup {"none"}]
    /\ s3 \in [Memos \X L!Times -> {"none", "set", "fired"}]
    /\ s4 \in 0 .. MaxTime /\ s5 \in [Requests -> LocalWorks] /\ s6 \in 0 .. MaxOps
    /\ s7 \in [Memos \X L!Times -> Nat] /\ s8 \subseteq Memos

\* A memo that is not gone is in a folder that exists, if in any.
LocalFiled == \A x \in Memos : s1[x].life \in {"live", "trash"} => L!FolderThere(s1[x].folder)

\* What a taker has read is still so until somebody writes: otherwise a taker
\* would hand out what another handed out before.
LocalWatched == \A p \in Requests : s5[p].kind = "take" /\ ~s5[p].stale
                  => \A r \in s5[p].due : s3[r] = "set" /\ r[2] <= s4

LocalDeletes(x) == \E p \in Requests : s5[p].kind = "delete" /\ s5[p].memo = x
LocalLeft == \A x \in Memos : s1[x].life = "gone" /\ L!HasReminder(x)
                                => x \in s8 \/ LocalDeletes(x)

LocalInv == LocalTyped /\ LocalFiled /\ LocalWatched /\ L!FiredOnce /\ LocalLeft

LEMMA LocalNat == MaxTime \in Nat /\ MaxOps \in Nat /\ "none" \notin Names
BY SharedAssumption DEF L!LocalAssumption, L!NoFolder

LEMMA LocalTaker ==
    ASSUME NEW Y, NEW w \in [kind : {"take"}, due : Y, stale : BOOLEAN]
    PROVE  /\ [w EXCEPT !.stale = TRUE] \in [kind : {"take"}, due : Y, stale : BOOLEAN]
           /\ [w EXCEPT !.stale = TRUE].stale = TRUE
OBVIOUS

LEMMA LocalWork ==
    ASSUME NEW w \in LocalWorks
    PROVE  /\ w.kind \in {"idle", "delete", "folder", "remind", "take"}
           /\ w.kind = "idle" <=> w = L!Idle
           /\ w.kind = "delete" => w.memo \in Memos /\ w = [kind |-> "delete", memo |-> w.memo]
           /\ w.kind = "folder" => w.name \in Names
           /\ w.kind = "remind" => w.memo \in Memos /\ w.at \in L!Times
           /\ w.kind = "take" => /\ w.due \subseteq Memos \X L!Times /\ w.stale \in BOOLEAN
                                 /\ [w EXCEPT !.stale = TRUE] \in LocalWorks
                                 /\ [w EXCEPT !.stale = TRUE].kind = "take"
                                 /\ [w EXCEPT !.stale = TRUE].stale = TRUE
<1> DEFINE Goal == /\ w.kind \in {"idle", "delete", "folder", "remind", "take"}
                   /\ w.kind = "idle" <=> w = L!Idle
                   /\ w.kind = "delete" =>
                        w.memo \in Memos /\ w = [kind |-> "delete", memo |-> w.memo]
                   /\ w.kind = "folder" => w.name \in Names
                   /\ w.kind = "remind" => w.memo \in Memos /\ w.at \in L!Times
                   /\ w.kind = "take" =>
                        /\ w.due \subseteq Memos \X L!Times /\ w.stale \in BOOLEAN
                        /\ [w EXCEPT !.stale = TRUE] \in LocalWorks
                        /\ [w EXCEPT !.stale = TRUE].kind = "take"
                        /\ [w EXCEPT !.stale = TRUE].stale = TRUE
<1>1. w = L!Idle => Goal
  BY DEF L!Idle
<1>2. w \in [kind : {"delete"}, memo : Memos] => Goal
  BY DEF L!Idle
<1>3. w \in [kind : {"folder"}, name : Names] => Goal
  BY DEF L!Idle
<1>4. w \in [kind : {"remind"}, memo : Memos, at : L!Times] => Goal
  BY DEF L!Idle
<1>5. w \in [kind : {"take"}, due : SUBSET (Memos \X L!Times), stale : BOOLEAN] => Goal
  <2> SUFFICES ASSUME w \in [kind : {"take"}, due : SUBSET (Memos \X L!Times), stale : BOOLEAN]
               PROVE  Goal
    OBVIOUS
  <2>1. w.kind = "take" /\ w # L!Idle /\ w.stale \in BOOLEAN /\ w.due \subseteq Memos \X L!Times
    BY DEF L!Idle
  <2>2. /\ [w EXCEPT !.stale = TRUE] \in [kind : {"take"}, due : SUBSET (Memos \X L!Times),
                                          stale : BOOLEAN]
        /\ [w EXCEPT !.stale = TRUE].stale = TRUE
    BY LocalTaker
  <2>3. [w EXCEPT !.stale = TRUE] \in LocalWorks /\ [w EXCEPT !.stale = TRUE].kind = "take"
    BY <2>2 DEF LocalWorks
  <2> QED  BY <2>1, <2>2, <2>3
<1>6. \/ w = L!Idle \/ w \in [kind : {"delete"}, memo : Memos]
      \/ w \in [kind : {"folder"}, name : Names]
      \/ w \in [kind : {"remind"}, memo : Memos, at : L!Times]
      \/ w \in [kind : {"take"}, due : SUBSET (Memos \X L!Times), stale : BOOLEAN]
  BY DEF LocalWorks
<1>7. Goal
  <2> HIDE DEF Goal
  <2> QED  BY <1>1, <1>2, <1>3, <1>4, <1>5, <1>6
<1> QED  BY <1>7

LEMMA LocalStale ==
    ASSUME LocalTyped
    PROVE  /\ L!Stale(s5) \in [Requests -> LocalWorks]
           /\ \A q \in Requests : /\ L!Stale(s5)[q].kind = s5[q].kind
                                  /\ s5[q].kind # "take" => L!Stale(s5)[q] = s5[q]
                                  /\ s5[q].kind = "take" => L!Stale(s5)[q].stale
<1>1. \A q \in Requests : s5[q] \in LocalWorks
  BY DEF LocalTyped
<1>2. \A q \in Requests : L!Stale(s5)[q] = IF s5[q].kind = "take"
                                          THEN [s5[q] EXCEPT !.stale = TRUE] ELSE s5[q]
  BY DEF L!Stale
<1> DEFINE st == L!Stale(s5)
<1>3. ASSUME NEW q \in Requests
      PROVE  /\ st[q] \in LocalWorks /\ st[q].kind = s5[q].kind
             /\ s5[q].kind # "take" => st[q] = s5[q]
             /\ s5[q].kind = "take" => st[q].stale
  <2> DEFINE w == s5[q]
  <2>1. w \in LocalWorks /\ st[q] = IF w.kind = "take" THEN [w EXCEPT !.stale = TRUE] ELSE w
    BY <1>1, <1>2
  <2> HIDE DEF w, st
  <2>2. CASE w.kind = "take"
    BY <2>1, <2>2, LocalWork DEF w
  <2>3. CASE w.kind # "take"
    BY <2>1, <2>3 DEF w
  <2> QED  BY <2>2, <2>3
<1>4. st = [q \in Requests |-> st[q]]
  BY DEF L!Stale
<1> HIDE DEF st
<1>5. st \in [Requests -> LocalWorks]
  BY <1>3, <1>4
<1> QED  BY <1>3, <1>5 DEF st

LEMMA LocalPurged ==
    ASSUME LocalTyped
    PROVE  /\ L!Purged \in [Memos -> LocalRows]
           /\ \A x \in Memos :
                /\ L!Purged[x].folder = s1[x].folder /\ L!Purged[x].title = s1[x].title
                /\ L!Purged[x].link = s1[x].link
                /\ L!Purged[x].life = IF s1[x].life = "expired" THEN "gone" ELSE s1[x].life
<1>1. \A x \in Memos : s1[x] \in LocalRows
  BY DEF LocalTyped
<1>2. \A x \in Memos : L!Purged[x] = IF s1[x].life = "expired"
                                    THEN [s1[x] EXCEPT !.life = "gone"] ELSE s1[x]
  BY DEF L!Purged
<1>3. ASSUME NEW x \in Memos
      PROVE  /\ L!Purged[x] \in LocalRows
             /\ L!Purged[x].folder = s1[x].folder /\ L!Purged[x].title = s1[x].title
             /\ L!Purged[x].link = s1[x].link
             /\ L!Purged[x].life = IF s1[x].life = "expired" THEN "gone" ELSE s1[x].life
  BY <1>1, <1>2 DEF LocalRows
<1> QED  BY <1>3 DEF L!Purged

-----------------------------------------------------------------------------
(* What the requests have in common.                                       *)

\* Requests that write rows of memos and folders only.
LocalRowsMove ==
    /\ s1' \in [Memos -> LocalRows] /\ s2' \in [Folders -> Names \cup {"none"}]
    /\ \A x \in Memos : s1'[x].life = "gone" => s1[x].life \in {"gone", "expired"}
    /\ s8' = s8 \cup L!LeftByPurge /\ s6' \in 0 .. MaxOps
    /\ UNCHANGED <<s3, s4, s7>>

LEMMA LocalRequest == LocalTyped /\ L!Request => s6' \in 0 .. MaxOps /\ s4' = s4
BY LocalNat DEF LocalTyped, L!Request

\* Their writes leave the reminders accounted for.
LEMMA LocalMoves ==
    ASSUME LocalInv, LocalRowsMove, s5' \in [Requests -> LocalWorks],
           \A q \in Requests : s5[q].kind = "delete" => s5'[q] = s5[q],
           \A q \in Requests : s5'[q].kind = "take" /\ ~s5'[q].stale =>
              s5'[q] = s5[q] \/ s5'[q].due = L!Due
    PROVE  LocalTyped' /\ LocalWatched' /\ L!FiredOnce' /\ LocalLeft'
<1>1. LocalTyped'
  BY DEF LocalInv, LocalTyped, LocalRowsMove, L!LeftByPurge
<1>2. LocalWatched'
  <2>1. \A r \in L!Due : s3[r] = "set" /\ r[2] <= s4
    BY DEF L!Due
  <2>2. s3' = s3 /\ s4' = s4
    BY DEF LocalRowsMove
  <2> QED  BY <2>1, <2>2 DEF LocalInv, LocalWatched
<1>3. L!FiredOnce'
  BY DEF LocalInv, L!FiredOnce, LocalRowsMove
<1>4. LocalLeft'
  <2> SUFFICES ASSUME NEW x \in Memos, s1'[x].life = "gone", L!HasReminder(x)'
               PROVE  x \in s8' \/ LocalDeletes(x)'
    BY DEF LocalLeft
  <2>1. L!HasReminder(x)
    BY DEF L!HasReminder, LocalRowsMove
  <2>2. CASE s1[x].life = "expired"
    BY <2>1, <2>2 DEF LocalRowsMove, L!LeftByPurge
  <2>3. CASE s1[x].life = "gone"
    BY <2>1, <2>3 DEF LocalRowsMove, LocalInv, LocalLeft, LocalDeletes
  <2> QED  BY <2>2, <2>3 DEF LocalRowsMove
<1> QED  BY <1>1, <1>2, <1>3, <1>4

LEMMA LocalWrote ==
    ASSUME LocalInv, LocalRowsMove, L!Wrote
    PROVE  LocalTyped' /\ LocalWatched' /\ L!FiredOnce' /\ LocalLeft'
<1>1. s5' = L!Stale(s5) /\ LocalTyped
  BY DEF L!Wrote, LocalInv
<1>2. s5' \in [Requests -> LocalWorks]
  BY <1>1, LocalStale
<1>3. \A q \in Requests : s5[q].kind = "delete" => s5'[q] = s5[q]
  BY <1>1, LocalStale
<1>4. \A q \in Requests : ~(s5'[q].kind = "take" /\ ~s5'[q].stale)
  BY <1>1, LocalStale
<1> QED  BY <1>2, <1>3, <1>4, LocalMoves

-----------------------------------------------------------------------------
(* The requests, one by one.                                               *)

\* Opening the store does all that a request does which changes no row itself.
LEMMA LocalOpens ==
    ASSUME LocalInv, s1' = L!Purged, s2' = s2, s6' \in 0 .. MaxOps, UNCHANGED <<s3, s4, s7>>,
           s8' = s8 \cup L!LeftByPurge
    PROVE  LocalRowsMove /\ LocalFiled'
<1>1. LocalTyped
  BY DEF LocalInv
<1>2. LocalRowsMove
  BY <1>1, LocalPurged DEF LocalRowsMove, LocalTyped
<1>3. LocalFiled'
  BY <1>1, LocalPurged DEF LocalInv, LocalFiled, L!FolderThere
<1> QED  BY <1>2, <1>3

LEMMA LocalKeepsInsert ==
    ASSUME LocalInv, L!Request, NEW x \in Memos, NEW t \in L!Titles, NEW k \in L!Titles,
           NEW f \in Folders \cup {"none"}, L!Insert(x, t, k, f)
    PROVE  LocalRowsMove /\ LocalFiled'
<1> DEFINE r == [life |-> "live", title |-> t, link |-> k, folder |-> f]
<1>1. LocalTyped
  BY DEF LocalInv
<1>2. /\ s1[x].life = "absent" /\ L!FolderThere(f) /\ s1' = [L!Purged EXCEPT ![x] = r]
      /\ s8' = s8 \cup L!LeftByPurge /\ UNCHANGED <<s2, s3, s7>>
  BY Zenon DEF L!Insert
<1>3. r \in LocalRows /\ r.life = "live" /\ r.folder = f
  BY DEF LocalRows
<1> HIDE DEF r
<1>4. /\ s1' \in [Memos -> LocalRows]
      /\ \A y \in Memos : s1'[y] = IF y = x THEN r ELSE L!Purged[y]
  BY <1>1, <1>2, <1>3, LocalPurged
<1>5. \A y \in Memos : s1'[y].life = "gone" => s1[y].life \in {"gone", "expired"}
  BY <1>1, <1>3, <1>4, LocalPurged
<1>6. LocalRowsMove
  BY <1>1, <1>2, <1>4, <1>5, LocalRequest DEF LocalRowsMove, LocalTyped
<1>7. LocalFiled'
  BY <1>1, <1>2, <1>3, <1>4, LocalPurged DEF LocalInv, LocalFiled, L!FolderThere
<1> QED  BY <1>6, <1>7

LEMMA LocalKeepsCreate ==
    ASSUME LocalInv, NEW x \in Memos, L!Create(x) \/ \E y \in Memos : L!Duplicate(x, y)
    PROVE  LocalInv'
<1>1. LocalTyped
  BY DEF LocalInv
<1>2. CASE L!Create(x)
  <2>1. PICK t \in L!Titles, k \in L!Titles, f \in Folders \cup {"none"} : L!Insert(x, t, k, f)
    BY <1>2, Zenon DEF L!Create, L!NoFolder
  <2>2. L!Request /\ L!Wrote
    BY <1>2, Zenon DEF L!Create
  <2> QED  BY <2>1, <2>2, LocalKeepsInsert, LocalWrote DEF LocalInv
<1>3. ASSUME NEW y \in Memos, L!Duplicate(x, y) PROVE LocalInv'
  <2>1. L!Request /\ L!Wrote /\ L!Insert(y, L!CopyTitle(s1[x].title), s1[x].link, s1[x].folder)
    BY <1>3, Zenon DEF L!Duplicate
  <2>2. s1[x] \in LocalRows
    BY <1>1 DEF LocalTyped
  <2>3. /\ L!CopyTitle(s1[x].title) \in L!Titles /\ s1[x].link \in L!Titles
        /\ s1[x].folder \in Folders \cup {"none"}
    BY <2>2 DEF LocalRows, L!CopyTitle, L!Titles
  <2> QED  BY <2>1, <2>3, LocalKeepsInsert, LocalWrote DEF LocalInv
<1> QED  BY <1>2, <1>3

LEMMA LocalKeepsUpdate ==
    ASSUME LocalInv, NEW x \in Memos, L!Update(x)
    PROVE  LocalInv'
<1>1. LocalTyped
  BY DEF LocalInv
<1>2. /\ L!Request /\ L!Wrote /\ s8' = s8 \cup L!LeftByPurge /\ UNCHANGED <<s2, s3, s7>>
      /\ \/ \E t, k \in L!Titles : s1' = [L!Purged EXCEPT ![x].title = t, ![x].link = k]
         \/ \E f \in Folders \cup {"none"} :
              L!FolderThere(f) /\ s1' = [L!Purged EXCEPT ![x].folder = f]
  BY Zenon DEF L!Update, L!NoFolder
<1>3. L!Purged[x] \in LocalRows
  BY <1>1, LocalPurged
<1>4. PICK r \in LocalRows :
        /\ s1' = [L!Purged EXCEPT ![x] = r] /\ r.life = L!Purged[x].life
        /\ r.folder = L!Purged[x].folder \/ L!FolderThere(r.folder)
  <2>1. ASSUME NEW t \in L!Titles, NEW k \in L!Titles
        PROVE  /\ [[L!Purged[x] EXCEPT !.title = t] EXCEPT !.link = k] \in LocalRows
               /\ [[L!Purged[x] EXCEPT !.title = t] EXCEPT !.link = k].life = L!Purged[x].life
               /\ [[L!Purged[x] EXCEPT !.title = t] EXCEPT !.link = k].folder = L!Purged[x].folder
    BY <1>3 DEF LocalRows
  <2>2. ASSUME NEW f \in Folders \cup {"none"}
        PROVE  /\ [L!Purged[x] EXCEPT !.folder = f] \in LocalRows
               /\ [L!Purged[x] EXCEPT !.folder = f].life = L!Purged[x].life
               /\ [L!Purged[x] EXCEPT !.folder = f].folder = f
    BY <1>3 DEF LocalRows
  <2>3. ASSUME NEW t \in L!Titles, NEW k \in L!Titles
        PROVE  [L!Purged EXCEPT ![x].title = t, ![x].link = k]
                 = [L!Purged EXCEPT ![x] = [[L!Purged[x] EXCEPT !.title = t] EXCEPT !.link = k]]
    BY <1>1, LocalPurged
  <2>4. ASSUME NEW f
        PROVE  [L!Purged EXCEPT ![x].folder = f]
                 = [L!Purged EXCEPT ![x] = [L!Purged[x] EXCEPT !.folder = f]]
    BY <1>1, LocalPurged
  <2>5. ASSUME NEW t \in L!Titles, NEW k \in L!Titles,
               s1' = [L!Purged EXCEPT ![x].title = t, ![x].link = k]
        PROVE  \E r \in LocalRows :
                 /\ s1' = [L!Purged EXCEPT ![x] = r] /\ r.life = L!Purged[x].life
                 /\ r.folder = L!Purged[x].folder \/ L!FolderThere(r.folder)
    <3> DEFINE r == [[L!Purged[x] EXCEPT !.title = t] EXCEPT !.link = k]
    <3>1. /\ r \in LocalRows /\ r.life = L!Purged[x].life /\ r.folder = L!Purged[x].folder
          /\ s1' = [L!Purged EXCEPT ![x] = r]
      BY <2>1, <2>3, <2>5
    <3> HIDE DEF r
    <3> QED  BY <3>1
  <2>6. ASSUME NEW f \in Folders \cup {"none"}, L!FolderThere(f),
               s1' = [L!Purged EXCEPT ![x].folder = f]
        PROVE  \E r \in LocalRows :
                 /\ s1' = [L!Purged EXCEPT ![x] = r] /\ r.life = L!Purged[x].life
                 /\ r.folder = L!Purged[x].folder \/ L!FolderThere(r.folder)
    <3> DEFINE r == [L!Purged[x] EXCEPT !.folder = f]
    <3>1. /\ r \in LocalRows /\ r.life = L!Purged[x].life /\ r.folder = f
          /\ s1' = [L!Purged EXCEPT ![x] = r]
      BY <2>2, <2>4, <2>6
    <3> HIDE DEF r
    <3> QED  BY <2>6, <3>1
  <2> QED  BY <1>2, <2>5, <2>6
<1>5. /\ s1' \in [Memos -> LocalRows]
      /\ \A y \in Memos : s1'[y] = IF y = x THEN r ELSE L!Purged[y]
  BY <1>1, <1>4, LocalPurged
<1>6. \A y \in Memos : s1'[y].life = "gone" => s1[y].life \in {"gone", "expired"}
  BY <1>1, <1>4, <1>5, LocalPurged
<1>7. LocalRowsMove
  BY <1>1, <1>2, <1>5, <1>6, LocalRequest DEF LocalRowsMove, LocalTyped
<1>8. ASSUME NEW y \in Memos, s1'[y].life \in {"live", "trash"}
      PROVE  L!FolderThere(s1'[y].folder)
  <2>1. L!Purged[y].folder = s1[y].folder /\ (L!Purged[y].life \in {"live", "trash"} => s1[y].life \in {"live", "trash"})
    BY <1>1, LocalPurged
  <2>2. s1[y].life \in {"live", "trash"} => L!FolderThere(s1[y].folder)
    BY DEF LocalInv, LocalFiled
  <2>3. CASE y = x
    BY <1>2, <1>4, <1>5, <1>8, <2>1, <2>2, <2>3
  <2>4. CASE y # x
    BY <1>5, <1>8, <2>1, <2>2, <2>4
  <2> QED  BY <2>3, <2>4
<1>9. LocalFiled'
  BY <1>2, <1>8 DEF LocalFiled, L!FolderThere
<1> QED  BY <1>2, <1>7, <1>9, LocalWrote DEF LocalInv

LEMMA LocalKeepsMove ==
    ASSUME LocalInv, NEW x \in Memos, L!Trash(x) \/ L!Restore(x)
    PROVE  LocalInv'
<1>1. LocalTyped
  BY DEF LocalInv
<1>2. PICK to \in {"live", "trash"} : /\ L!Request /\ L!Wrote /\ s8' = s8 \cup L!LeftByPurge
                                     /\ UNCHANGED <<s2, s3, s7>>
                                     /\ L!Purged[x].life \in {"live", "trash"}
                                     /\ s1' = [L!Purged EXCEPT ![x].life = to]
  <2>1. \/ L!Move(x, "live", "trash") \/ L!Move(x, "trash", "live")
    BY DEF L!Trash, L!Restore
  <2> QED  BY <2>1 DEF L!Move
<1>3. L!Purged[x] \in LocalRows
  BY <1>1, LocalPurged
<1> DEFINE r == [L!Purged[x] EXCEPT !.life = to]
<1>4. /\ r \in LocalRows /\ r.life = to /\ r.folder = L!Purged[x].folder
      /\ s1' = [L!Purged EXCEPT ![x] = r]
  BY <1>2, <1>3 DEF LocalRows
<1> HIDE DEF r
<1>5. /\ s1' \in [Memos -> LocalRows]
      /\ \A y \in Memos : s1'[y] = IF y = x THEN r ELSE L!Purged[y]
  BY <1>1, <1>4, LocalPurged
<1>6. \A y \in Memos : s1'[y].life = "gone" => s1[y].life \in {"gone", "expired"}
  BY <1>1, <1>2, <1>4, <1>5, LocalPurged
<1>7. LocalRowsMove
  BY <1>1, <1>2, <1>5, <1>6, LocalRequest DEF LocalRowsMove, LocalTyped
<1>8. ASSUME NEW y \in Memos, s1'[y].life \in {"live", "trash"}
      PROVE  L!FolderThere(s1'[y].folder)
  <2>1. L!Purged[y].folder = s1[y].folder /\ (L!Purged[y].life \in {"live", "trash"} => s1[y].life \in {"live", "trash"})
    BY <1>1, LocalPurged
  <2>2. s1[y].life \in {"live", "trash"} => L!FolderThere(s1[y].folder)
    BY DEF LocalInv, LocalFiled
  <2>3. CASE y = x
    BY <1>2, <1>4, <1>5, <1>8, <2>1, <2>2, <2>3
  <2>4. CASE y # x
    BY <1>5, <1>8, <2>1, <2>2, <2>4
  <2> QED  BY <2>3, <2>4
<1>9. LocalFiled'
  BY <1>2, <1>8 DEF LocalFiled, L!FolderThere
<1> QED  BY <1>2, <1>7, <1>9, LocalWrote DEF LocalInv

LEMMA LocalKeepsFolder ==
    ASSUME LocalInv, NEW f \in Folders, L!FolderDelete(f) \/ \E n \in Names : L!FolderRename(f, n)
    PROVE  LocalInv'
<1>1. LocalTyped
  BY DEF LocalInv
<1>2. CASE L!FolderDelete(f)
  <2>1. /\ L!Request /\ L!Wrote /\ s2' = [s2 EXCEPT ![f] = "none"]
        /\ s1' = [x \in Memos |-> IF s1[x].folder = f
                                     THEN [L!Purged[x] EXCEPT !.folder = "none"]
                                     ELSE L!Purged[x]]
        /\ s8' = s8 \cup L!LeftByPurge /\ UNCHANGED <<s3, s7>>
    BY <1>2, Zenon DEF L!FolderDelete, L!NoFolder
  <2>2. \A r \in LocalRows : /\ [r EXCEPT !.folder = "none"] \in LocalRows
                             /\ [r EXCEPT !.folder = "none"].life = r.life
                             /\ [r EXCEPT !.folder = "none"].folder = "none"
    BY DEF LocalRows
  <2>3. \A x \in Memos :
          /\ s1'[x] \in LocalRows /\ s1'[x].life = L!Purged[x].life
          /\ s1'[x].folder = IF s1[x].folder = f THEN "none" ELSE s1[x].folder
    BY <1>1, <2>1, <2>2, LocalPurged
  <2>4. s1' \in [Memos -> LocalRows]
    BY <2>1, <2>3
  <2>5. \A y \in Memos : s1'[y].life = "gone" => s1[y].life \in {"gone", "expired"}
    BY <1>1, <2>3, LocalPurged
  <2>6. s2' \in [Folders -> Names \cup {"none"}] /\ \A g \in Folders : g # f => s2'[g] = s2[g]
    BY <1>1, <2>1 DEF LocalTyped
  <2>7. LocalRowsMove
    BY <1>1, <2>1, <2>4, <2>5, <2>6, LocalRequest DEF LocalRowsMove
  <2>8. LocalFiled'
    BY <1>1, <2>3, <2>6, LocalPurged DEF LocalInv, LocalFiled, L!FolderThere, L!NoFolder
  <2> QED  BY <2>1, <2>7, <2>8, LocalWrote DEF LocalInv
<1>3. ASSUME NEW n \in Names, L!FolderRename(f, n) PROVE LocalInv'
  <2>1. /\ L!Request /\ L!Wrote /\ s2' = [s2 EXCEPT ![f] = n] /\ s1' = L!Purged
        /\ s8' = s8 \cup L!LeftByPurge /\ UNCHANGED <<s3, s7>>
    BY <1>3, Zenon DEF L!FolderRename
  <2>2. /\ s2' \in [Folders -> Names \cup {"none"}]
        /\ \A g \in Folders : s2[g] # "none" => s2'[g] # "none"
    BY <1>1, <2>1, LocalNat DEF LocalTyped
  <2>3. LocalRowsMove
    BY <1>1, <2>1, <2>2, LocalPurged, LocalRequest DEF LocalRowsMove
  <2>4. LocalFiled'
    BY <1>1, <2>1, <2>2, LocalPurged DEF LocalInv, LocalFiled, L!FolderThere, L!NoFolder
  <2> QED  BY <2>1, <2>3, <2>4, LocalWrote DEF LocalInv
<1> QED  BY <1>2, <1>3

LEMMA LocalKeepsOpen == LocalInv /\ L!OpenOnly => LocalInv'
<1> SUFFICES ASSUME LocalInv, L!OpenOnly PROVE LocalInv'
  OBVIOUS
<1>1. /\ L!Request /\ L!Wrote /\ s1' = L!Purged /\ s8' = s8 \cup L!LeftByPurge
      /\ UNCHANGED <<s2, s3, s7>> /\ LocalTyped
  BY DEF L!OpenOnly, LocalInv
<1> QED  BY <1>1, LocalOpens, LocalRequest, LocalWrote DEF LocalInv

\* A request that has looked, and is still to write.
LEMMA LocalKeepsLook ==
    ASSUME LocalInv, L!Request, NEW p \in Requests, NEW w \in LocalWorks, s5[p] = L!Idle,
           s5' = [s5 EXCEPT ![p] = w], s1' = L!Purged, s8' = s8 \cup L!LeftByPurge,
           UNCHANGED <<s2, s3, s7>>,
           w.kind = "take" => w.due = L!Due
    PROVE  LocalInv'
<1>1. LocalTyped
  BY DEF LocalInv
<1>2. LocalRowsMove /\ LocalFiled'
  BY <1>1, LocalOpens, LocalRequest
<1>3. /\ s5' \in [Requests -> LocalWorks]
      /\ \A q \in Requests : s5'[q] = IF q = p THEN w ELSE s5[q]
  BY <1>1 DEF LocalTyped
<1>4. s5[p].kind # "delete"
  BY DEF L!Idle
<1> QED  BY <1>2, <1>3, <1>4, LocalMoves DEF LocalInv

LEMMA LocalKeepsLooks ==
    ASSUME LocalInv, NEW p \in Requests,
           \/ \E n \in Names : L!FolderLook(p, n)
           \/ \E x \in Memos, t \in L!Times : L!ReminderCount(p, x, t)
           \/ L!TakeRead(p)
    PROVE  LocalInv'
<1>1. ASSUME NEW n \in Names, L!FolderLook(p, n) PROVE LocalInv'
  <2>1. /\ L!Request /\ s5[p] = L!Idle /\ s5' = [s5 EXCEPT ![p] = [kind |-> "folder", name |-> n]]
        /\ s1' = L!Purged /\ s8' = s8 \cup L!LeftByPurge /\ UNCHANGED <<s2, s3, s7>>
    BY <1>1, Zenon DEF L!FolderLook
  <2>2. [kind |-> "folder", name |-> n] \in LocalWorks
    BY DEF LocalWorks
  <2> QED  BY <2>1, <2>2, LocalKeepsLook
<1>2. ASSUME NEW x \in Memos, NEW t \in L!Times, L!ReminderCount(p, x, t) PROVE LocalInv'
  <2>1. /\ L!Request /\ s5[p] = L!Idle
        /\ s5' = [s5 EXCEPT ![p] = [kind |-> "remind", memo |-> x, at |-> t]]
        /\ s1' = L!Purged /\ s8' = s8 \cup L!LeftByPurge /\ UNCHANGED <<s2, s3, s7>>
    BY <1>2, Zenon DEF L!ReminderCount
  <2>2. [kind |-> "remind", memo |-> x, at |-> t] \in LocalWorks
    BY DEF LocalWorks
  <2> QED  BY <2>1, <2>2, LocalKeepsLook
<1>3. CASE L!TakeRead(p)
  <2>1. /\ L!Request /\ s5[p] = L!Idle
        /\ s5' = [s5 EXCEPT ![p] = [kind |-> "take", due |-> L!Due, stale |-> FALSE]]
        /\ s1' = L!Purged /\ s8' = s8 \cup L!LeftByPurge /\ UNCHANGED <<s2, s3, s7>>
    BY <1>3, Zenon DEF L!TakeRead
  <2>2. L!Due \in SUBSET (Memos \X L!Times)
    BY DEF L!Due
  <2>3. [kind |-> "take", due |-> L!Due, stale |-> FALSE] \in LocalWorks
    BY <2>2 DEF LocalWorks
  <2> QED  BY <2>1, <2>3, LocalKeepsLook
<1> QED  BY <1>1, <1>2, <1>3

\* A request is done with what it had to do, or does something else; the others
\* have read what is stale now.
LEMMA LocalDone ==
    ASSUME LocalTyped, NEW p \in Requests, NEW w \in LocalWorks, w.kind # "take",
           s5' = [L!Stale(s5) EXCEPT ![p] = w]
    PROVE  /\ s5' \in [Requests -> LocalWorks] /\ LocalWatched' /\ s5'[p] = w
           /\ \A q \in Requests : q # p /\ s5[q].kind = "delete" => s5'[q] = s5[q]
<1>1. /\ s5' \in [Requests -> LocalWorks] /\ s5'[p] = w
      /\ \A q \in Requests : q # p => s5'[q] = L!Stale(s5)[q]
  BY LocalStale
<1>2. \A q \in Requests : q # p /\ s5[q].kind = "delete" => s5'[q] = s5[q]
  BY <1>1, LocalStale
<1>3. \A q \in Requests : ~(s5'[q].kind = "take" /\ ~s5'[q].stale)
  BY <1>1, LocalStale
<1> QED  BY <1>1, <1>2, <1>3 DEF LocalWatched

LEMMA LocalIdle == L!Idle \in LocalWorks /\ L!Idle.kind = "idle"
BY DEF LocalWorks, L!Idle

LEMMA LocalKeepsDelete ==
    ASSUME LocalInv, NEW p \in Requests, NEW x \in Memos, L!DeleteForever(p, x)
    PROVE  LocalInv'
<1> DEFINE w == [kind |-> "delete", memo |-> x]
           r == [L!Purged[x] EXCEPT !.life = "gone"]
<1>1. LocalTyped
  BY DEF LocalInv
<1>2. /\ s5[p] = L!Idle /\ L!Request /\ L!Purged[x].life = "trash"
      /\ s1' = [L!Purged EXCEPT ![x].life = "gone"]
      /\ s5' = [L!Stale(s5) EXCEPT ![p] = w]
      /\ s8' = s8 \cup L!LeftByPurge /\ UNCHANGED <<s2, s3, s7>>
  BY Zenon DEF L!DeleteForever
<1>3. w \in LocalWorks /\ w.kind = "delete" /\ w.memo = x
  BY DEF LocalWorks
<1>4. /\ L!Purged[x] \in LocalRows
  BY <1>1, LocalPurged
<1>5. r \in LocalRows /\ r.life = "gone" /\ s1' = [L!Purged EXCEPT ![x] = r]
  BY <1>2, <1>4 DEF LocalRows
<1> HIDE DEF w, r
<1>6. /\ s5' \in [Requests -> LocalWorks] /\ LocalWatched' /\ s5'[p] = w
      /\ \A q \in Requests : s5[q].kind = "delete" => s5'[q] = s5[q]
  BY <1>1, <1>2, <1>3, LocalDone, LocalIdle
<1>7. /\ s1' \in [Memos -> LocalRows]
      /\ \A y \in Memos : s1'[y] = IF y = x THEN r ELSE L!Purged[y]
  BY <1>1, <1>5, LocalPurged
<1>8. s6' \in 0 .. MaxOps /\ s4' = s4
  BY <1>1, <1>2, LocalRequest
<1>9. LocalTyped'
  BY <1>1, <1>2, <1>6, <1>7, <1>8 DEF LocalTyped, L!LeftByPurge
<1>10. LocalFiled'
  BY <1>1, <1>2, <1>5, <1>7, LocalPurged DEF LocalInv, LocalFiled, L!FolderThere
<1>11. L!FiredOnce'
  BY <1>2, <1>8 DEF LocalInv, L!FiredOnce
<1>12. LocalLeft'
  <2> SUFFICES ASSUME NEW y \in Memos, s1'[y].life = "gone", L!HasReminder(y)'
               PROVE  y \in s8' \/ LocalDeletes(y)'
    BY DEF LocalLeft
  <2>1. L!HasReminder(y)
    BY <1>2 DEF L!HasReminder
  <2>2. CASE y = x
    BY <1>3, <1>6, <2>2 DEF LocalDeletes
  <2>3. CASE y # x /\ s1[y].life = "expired"
    BY <1>2, <2>1, <2>3 DEF L!LeftByPurge
  <2>4. CASE y # x /\ s1[y].life = "gone"
    BY <1>2, <1>6, <2>1, <2>4 DEF LocalInv, LocalLeft, LocalDeletes
  <2> QED  BY <1>1, <1>7, <2>2, <2>3, <2>4, LocalPurged
<1> QED  BY <1>6, <1>9, <1>10, <1>11, <1>12 DEF LocalInv

LEMMA LocalWithout ==
    ASSUME LocalTyped, NEW X
    PROVE  /\ L!Without(X) \in [Memos \X L!Times -> {"none", "set", "fired"}]
           /\ \A r \in Memos \X L!Times : L!Without(X)[r] = IF r[1] \in X THEN "none" ELSE s3[r]
<1>1. \A r \in Memos \X L!Times : s3[r] \in {"none", "set", "fired"}
  BY DEF LocalTyped
<1>2. \A r \in Memos \X L!Times : L!Without(X)[r] = IF r[1] \in X THEN "none" ELSE s3[r]
  BY DEF L!Without
<1>3. L!Without(X) = [r \in Memos \X L!Times |-> L!Without(X)[r]]
  BY DEF L!Without
<1> QED  BY <1>1, <1>2, <1>3

LEMMA LocalKeepsReminders ==
    ASSUME LocalInv, NEW p \in Requests, L!DeleteReminders(p)
    PROVE  LocalInv'
<1> DEFINE x == s5[p].memo
<1>1. LocalTyped
  BY DEF LocalInv
<1>2. /\ s5[p].kind = "delete" /\ s3' = L!Without({x}) /\ s5' = [L!Stale(s5) EXCEPT ![p] = L!Idle]
      /\ UNCHANGED <<s1, s2, s4, s6, s7, s8>>
  BY Zenon DEF L!DeleteReminders
<1> HIDE DEF x
<1>3. /\ s5' \in [Requests -> LocalWorks] /\ LocalWatched'
      /\ \A q \in Requests : q # p /\ s5[q].kind = "delete" => s5'[q] = s5[q]
  BY <1>1, <1>2, LocalDone, LocalIdle
<1>4. /\ s3' \in [Memos \X L!Times -> {"none", "set", "fired"}]
      /\ \A r \in Memos \X L!Times : s3'[r] = IF r[1] \in {x} THEN "none" ELSE s3[r]
  <2>1. s3' = [r \in Memos \X L!Times |-> IF r[1] \in {x} THEN "none" ELSE s3[r]]
    BY <1>2, Zenon DEF L!Without
  <2>2. \A r \in Memos \X L!Times : s3[r] \in {"none", "set", "fired"}
    BY <1>1 DEF LocalTyped
  <2> QED  BY <2>1, <2>2
<1>5. LocalTyped'
  BY <1>1, <1>2, <1>3, <1>4 DEF LocalTyped
<1>6. LocalFiled'
  BY <1>2 DEF LocalInv, LocalFiled, L!FolderThere
<1>7. L!FiredOnce'
  BY <1>2, <1>4 DEF LocalInv, L!FiredOnce
<1>8. LocalLeft'
  <2> SUFFICES ASSUME NEW y \in Memos, s1'[y].life = "gone", L!HasReminder(y)'
               PROVE  y \in s8' \/ LocalDeletes(y)'
    BY DEF LocalLeft
  <2>1. PICK t \in L!Times : s3'[<<y, t>>] # "none"
    BY DEF L!HasReminder
  <2>2. y # x /\ s3[<<y, t>>] # "none"
    BY <1>4, <2>1
  <2>3. y \in s8 \/ LocalDeletes(y)
    BY <1>2, <2>2 DEF LocalInv, LocalLeft, L!HasReminder
  <2> QED  BY <1>2, <1>3, <2>2, <2>3 DEF LocalDeletes, x
<1> QED  BY <1>3, <1>5, <1>6, <1>7, <1>8 DEF LocalInv

LEMMA LocalKeepsEmpty == LocalInv /\ L!EmptyTrash => LocalInv'
<1> SUFFICES ASSUME LocalInv, L!EmptyTrash PROVE LocalInv'
  OBVIOUS
<1> DEFINE X == L!InTrash(L!Purged)
<1>1. LocalTyped
  BY DEF LocalInv
<1>2. /\ L!Request /\ L!Wrote /\ s3' = L!Without(X)
      /\ s1' = [x \in Memos |-> IF x \in X THEN [s1[x] EXCEPT !.life = "gone"] ELSE L!Purged[x]]
      /\ s8' = s8 \cup L!LeftByPurge /\ UNCHANGED <<s2, s7>>
  BY Zenon DEF L!EmptyTrash
<1>3. \A x \in Memos : x \in X <=> L!Purged[x].life = "trash"
  BY DEF L!InTrash
<1> HIDE DEF X
<1>4. \A r \in LocalRows : [r EXCEPT !.life = "gone"] \in LocalRows /\ [r EXCEPT !.life = "gone"].life = "gone"
  BY DEF LocalRows
<1>5. \A x \in Memos : s1[x] \in LocalRows
  BY <1>1 DEF LocalTyped
<1>6. \A x \in Memos :
        /\ s1'[x] \in LocalRows
        /\ x \in X => s1'[x].life = "gone"
        /\ x \notin X => s1'[x] = L!Purged[x]
  BY <1>1, <1>2, <1>4, <1>5, LocalPurged
<1>7. s1' \in [Memos -> LocalRows]
  BY <1>2, <1>6
<1>8. s6' \in 0 .. MaxOps /\ s4' = s4
  BY <1>1, <1>2, LocalRequest
<1>9. /\ s3' \in [Memos \X L!Times -> {"none", "set", "fired"}]
      /\ \A r \in Memos \X L!Times : s3'[r] = IF r[1] \in X THEN "none" ELSE s3[r]
  <2>1. /\ L!Without(X) \in [Memos \X L!Times -> {"none", "set", "fired"}]
        /\ \A r \in Memos \X L!Times : L!Without(X)[r] = IF r[1] \in X THEN "none" ELSE s3[r]
    BY <1>1, LocalWithout, Zenon
  <2>2. s3' = L!Without(X)
    BY <1>2
  <2> QED  BY <2>1, <2>2, Zenon
<1>10. /\ s5' \in [Requests -> LocalWorks]
       /\ \A q \in Requests : s5[q].kind = "delete" => s5'[q] = s5[q]
       /\ \A q \in Requests : ~(s5'[q].kind = "take" /\ ~s5'[q].stale)
  BY <1>1, <1>2, LocalStale DEF L!Wrote
<1>11. LocalTyped'
  BY <1>1, <1>2, <1>7, <1>8, <1>9, <1>10 DEF LocalTyped, L!LeftByPurge
<1>12. LocalFiled'
  BY <1>1, <1>2, <1>6, LocalPurged DEF LocalInv, LocalFiled, L!FolderThere
<1>13. L!FiredOnce'
  BY <1>2, <1>8, <1>9 DEF LocalInv, L!FiredOnce
<1>14. LocalLeft'
  <2> SUFFICES ASSUME NEW y \in Memos, s1'[y].life = "gone", L!HasReminder(y)'
               PROVE  y \in s8' \/ LocalDeletes(y)'
    BY DEF LocalLeft
  <2>1. PICK t \in L!Times : s3'[<<y, t>>] # "none"
    BY DEF L!HasReminder
  <2>2. y \notin X /\ L!HasReminder(y)
    BY <1>9, <2>1 DEF L!HasReminder
  <2>3. L!Purged[y].life = "gone"
    BY <1>6, <2>2
  <2>4. CASE s1[y].life = "expired"
    BY <1>2, <2>2, <2>4 DEF L!LeftByPurge
  <2>5. CASE s1[y].life = "gone"
    BY <1>2, <1>10, <2>2, <2>5 DEF LocalInv, LocalLeft, LocalDeletes
  <2> QED  BY <1>1, <2>3, <2>4, <2>5, LocalPurged
<1> QED  BY <1>10, <1>11, <1>12, <1>13, <1>14 DEF LocalInv, LocalWatched

LEMMA LocalKeepsClear ==
    ASSUME LocalInv, NEW x \in Memos, L!ReminderClear(x)
    PROVE  LocalInv'
<1>1. LocalTyped
  BY DEF LocalInv
<1>2. PICK T : s3' = [r \in Memos \X L!Times |-> IF r[1] = x /\ r[2] \in T THEN "none" ELSE s3[r]]
  BY Zenon DEF L!ReminderClear
<1>3. /\ L!Request /\ L!Wrote /\ s1' = L!Purged /\ s8' = s8 \cup L!LeftByPurge
      /\ UNCHANGED <<s2, s7>>
  BY Zenon DEF L!ReminderClear
<1>4. /\ s3' \in [Memos \X L!Times -> {"none", "set", "fired"}]
      /\ \A r \in Memos \X L!Times : s3'[r] \in {"none", s3[r]}
  <2>1. \A r \in Memos \X L!Times : s3'[r] \in {"none", s3[r]}
    BY <1>2
  <2> QED  BY <1>1, <1>2, <2>1 DEF LocalTyped
<1>5. s6' \in 0 .. MaxOps /\ s4' = s4
  BY <1>1, <1>3, LocalRequest
<1>6. /\ s5' \in [Requests -> LocalWorks]
      /\ \A q \in Requests : s5[q].kind = "delete" => s5'[q] = s5[q]
      /\ \A q \in Requests : ~(s5'[q].kind = "take" /\ ~s5'[q].stale)
  BY <1>1, <1>3, LocalStale DEF L!Wrote
<1>7. LocalTyped'
  BY <1>1, <1>3, <1>4, <1>5, <1>6, LocalPurged DEF LocalTyped, L!LeftByPurge
<1>8. LocalFiled'
  BY <1>1, <1>3, LocalPurged DEF LocalInv, LocalFiled, L!FolderThere
<1>9. L!FiredOnce'
  BY <1>3, <1>4, <1>5 DEF LocalInv, L!FiredOnce
<1>10. LocalLeft'
  <2> SUFFICES ASSUME NEW y \in Memos, s1'[y].life = "gone", L!HasReminder(y)'
               PROVE  y \in s8' \/ LocalDeletes(y)'
    BY DEF LocalLeft
  <2>1. L!HasReminder(y)
    BY <1>4 DEF L!HasReminder
  <2>2. CASE s1[y].life = "expired"
    BY <1>3, <2>1, <2>2 DEF L!LeftByPurge
  <2>3. CASE s1[y].life = "gone"
    BY <1>3, <1>6, <2>1, <2>3 DEF LocalInv, LocalLeft, LocalDeletes
  <2> QED  BY <1>1, <1>3, <2>2, <2>3, LocalPurged
<1> QED  BY <1>6, <1>7, <1>8, <1>9, <1>10 DEF LocalInv, LocalWatched

LEMMA LocalKeepsInserts ==
    ASSUME LocalInv, NEW p \in Requests, L!ReminderInsert(p) \/ \E f \in Folders : L!FolderInsert(p, f)
    PROVE  LocalInv'
<1>1. LocalTyped
  BY DEF LocalInv
<1>2. s5[p] \in LocalWorks
  BY <1>1 DEF LocalTyped
<1>3. CASE L!ReminderInsert(p)
  <2> DEFINE r == <<s5[p].memo, s5[p].at>>
  <2>1. /\ s5[p].kind = "remind" /\ s3' = [s3 EXCEPT ![r] = "set"] /\ s7' = [s7 EXCEPT ![r] = 0]
        /\ s8' = s8 \cup {x \in {r[1]} : L!Gone(x)}
        /\ s5' = [L!Stale(s5) EXCEPT ![p] = L!Idle] /\ UNCHANGED <<s1, s2, s4, s6>>
    BY <1>3, Zenon DEF L!ReminderInsert
  <2>2. s5[p].memo \in Memos /\ s5[p].at \in L!Times
    BY <1>2, <2>1, LocalWork
  <2>3. r \in Memos \X L!Times /\ r[1] \in Memos
    BY <2>2
  <2> HIDE DEF r
  <2>4. /\ s5' \in [Requests -> LocalWorks] /\ LocalWatched'
        /\ \A q \in Requests : s5[q].kind = "delete" => s5'[q] = s5[q]
    BY <1>1, <2>1, LocalDone, LocalIdle
  <2>5. /\ s3' \in [Memos \X L!Times -> {"none", "set", "fired"}]
        /\ s7' \in [Memos \X L!Times -> Nat]
        /\ \A z \in Memos \X L!Times : /\ s3'[z] = (IF z = r THEN "set" ELSE s3[z])
                                         /\ s7'[z] = (IF z = r THEN 0 ELSE s7[z])
    BY <1>1, <2>1, <2>3 DEF LocalTyped
  <2>6. LocalTyped'
    BY <1>1, <2>1, <2>3, <2>4, <2>5 DEF LocalTyped
  <2>7. LocalFiled'
    BY <2>1 DEF LocalInv, LocalFiled, L!FolderThere
  <2>8. L!FiredOnce'
    BY <2>1, <2>5 DEF LocalInv, L!FiredOnce
  <2>9. LocalLeft'
    <3> SUFFICES ASSUME NEW y \in Memos, s1'[y].life = "gone", L!HasReminder(y)'
                 PROVE  y \in s8' \/ LocalDeletes(y)'
      BY DEF LocalLeft
    <3>1. CASE y = r[1]
      BY <2>1, <3>1 DEF L!Gone
    <3>2. CASE y # r[1]
      <4>1. PICK t \in L!Times : s3'[<<y, t>>] # "none"
        BY DEF L!HasReminder
      <4>2. <<y, t>> # r /\ <<y, t>> \in Memos \X L!Times
        BY <3>2
      <4>3. s3[<<y, t>>] # "none"
        BY <2>5, <4>1, <4>2
      <4>4. L!HasReminder(y)
        BY <4>3 DEF L!HasReminder
      <4> QED  BY <2>1, <2>4, <4>4 DEF LocalInv, LocalLeft, LocalDeletes
    <3> QED  BY <3>1, <3>2
  <2> QED  BY <2>4, <2>6, <2>7, <2>8, <2>9 DEF LocalInv
<1>4. ASSUME NEW f \in Folders, L!FolderInsert(p, f) PROVE LocalInv'
  <2>1. /\ s5[p].kind = "folder" /\ s2' = [s2 EXCEPT ![f] = s5[p].name] /\ s2[f] = "none"
        /\ s5' = [L!Stale(s5) EXCEPT ![p] = L!Idle] /\ UNCHANGED <<s1, s3, s4, s6, s7, s8>>
    BY <1>4, Zenon DEF L!FolderInsert, L!NoFolder
  <2>2. s5[p].name \in Names
    BY <1>2, <2>1, LocalWork
  <2>3. /\ s5' \in [Requests -> LocalWorks] /\ LocalWatched'
        /\ \A q \in Requests : s5[q].kind = "delete" => s5'[q] = s5[q]
    BY <1>1, <2>1, LocalDone, LocalIdle
  <2>4. s2' \in [Folders -> Names \cup {"none"}] /\ \A g \in Folders : s2[g] # "none" => s2'[g] = s2[g]
    BY <1>1, <2>1, <2>2 DEF LocalTyped
  <2>5. LocalTyped'
    BY <1>1, <2>1, <2>3, <2>4 DEF LocalTyped
  <2>6. LocalFiled'
    BY <2>1, <2>4 DEF LocalInv, LocalFiled, L!FolderThere, L!NoFolder
  <2>7. L!FiredOnce'
    BY <2>1 DEF LocalInv, L!FiredOnce
  <2>8. \A y \in Memos : LocalDeletes(y) => LocalDeletes(y)'
    BY <2>3 DEF LocalDeletes
  <2>9. LocalLeft'
    BY <2>1, <2>8 DEF LocalInv, LocalLeft, L!HasReminder
  <2> QED  BY <2>3, <2>5, <2>6, <2>7, <2>9 DEF LocalInv
<1> QED  BY <1>3, <1>4

LEMMA LocalKeepsMark ==
    ASSUME LocalInv, NEW p \in Requests, L!TakeMark(p)
    PROVE  LocalInv'
<1> DEFINE Y == s5[p].due
<1>1. LocalTyped
  BY DEF LocalInv
<1>2. /\ s5[p].kind = "take" /\ ~s5[p].stale
      /\ s3' = [r \in Memos \X L!Times |-> IF r \in Y THEN "fired" ELSE s3[r]]
      /\ s7' = [r \in Memos \X L!Times |-> IF r \in Y THEN s7[r] + 1 ELSE s7[r]]
      /\ s5' = [L!Stale(s5) EXCEPT ![p] = L!Idle] /\ UNCHANGED <<s1, s2, s4, s6, s8>>
  BY Zenon DEF L!TakeMark
<1>3. \A r \in Y : s3[r] = "set" /\ r[2] <= s4
  BY <1>2 DEF LocalInv, LocalWatched
<1> HIDE DEF Y
<1>4. /\ s5' \in [Requests -> LocalWorks] /\ LocalWatched'
      /\ \A q \in Requests : s5[q].kind = "delete" => s5'[q] = s5[q]
  BY <1>1, <1>2, LocalDone, LocalIdle
<1>5. ASSUME NEW r \in Memos \X L!Times
      PROVE  /\ s3[r] \in {"none", "set", "fired"} /\ s7[r] \in Nat
             /\ s3'[r] = IF r \in Y THEN "fired" ELSE s3[r]
             /\ s7'[r] = IF r \in Y THEN s7[r] + 1 ELSE s7[r]
  BY <1>1, <1>2 DEF LocalTyped
<1>6. s3' \in [Memos \X L!Times -> {"none", "set", "fired"}]
  BY <1>2, <1>5
<1>7. s7' \in [Memos \X L!Times -> Nat]
  BY <1>2, <1>5
<1>8. LocalTyped'
  BY <1>1, <1>2, <1>4, <1>6, <1>7 DEF LocalTyped
<1>9. LocalFiled'
  BY <1>2 DEF LocalInv, LocalFiled, L!FolderThere
<1>10. L!FiredOnce'
  <2> SUFFICES ASSUME NEW r \in Memos \X L!Times
               PROVE  /\ s7'[r] <= 1 /\ (s7'[r] > 0 => r[2] <= s4')
                      /\ s3'[r] = "set" => s7'[r] = 0
    BY DEF L!FiredOnce
  <2>1. s7[r] <= 1 /\ (s7[r] > 0 => r[2] <= s4) /\ (s3[r] = "set" => s7[r] = 0)
    BY DEF LocalInv, L!FiredOnce
  <2> QED  BY <1>2, <1>3, <1>5, <2>1
<1>11. LocalLeft'
  <2> SUFFICES ASSUME NEW y \in Memos, s1'[y].life = "gone", L!HasReminder(y)'
               PROVE  y \in s8' \/ LocalDeletes(y)'
    BY DEF LocalLeft
  <2>1. PICK t \in L!Times : s3'[<<y, t>>] # "none"
    BY DEF L!HasReminder
  <2>2. s3[<<y, t>>] # "none"
    BY <1>3, <1>5, <2>1
  <2>3. L!HasReminder(y) /\ s1[y].life = "gone"
    BY <1>2, <2>2 DEF L!HasReminder
  <2>4. y \in s8 \/ LocalDeletes(y)
    BY <2>3 DEF LocalInv, LocalLeft
  <2>5. LocalDeletes(y) => LocalDeletes(y)'
    BY <1>4 DEF LocalDeletes
  <2> QED  BY <1>2, <2>4, <2>5
<1> QED  BY <1>4, <1>8, <1>9, <1>10, <1>11 DEF LocalInv

LEMMA LocalKeepsEnd ==
    ASSUME LocalInv, NEW p \in Requests, L!TakeFails(p) \/ L!Die(p)
    PROVE  LocalInv'
<1>1. LocalTyped /\ s5[p] \in LocalWorks
  BY DEF LocalInv, LocalTyped
<1>2. /\ s5' = [s5 EXCEPT ![p] = L!Idle] /\ UNCHANGED <<s1, s2, s3, s4, s6, s7>>
      /\ s8 \subseteq s8' /\ s8' \subseteq Memos
      /\ s5[p].kind = "delete" => s5[p].memo \in s8'
  <2>1. CASE L!TakeFails(p)
    BY <1>1, <2>1 DEF L!TakeFails, LocalTyped
  <2>2. CASE L!Die(p)
    <3>1. /\ s5' = [s5 EXCEPT ![p] = L!Idle] /\ UNCHANGED <<s1, s2, s3, s4, s6, s7>>
          /\ s8' = s8 \cup (IF s5[p].kind = "delete" THEN {s5[p].memo} ELSE {})
      BY <2>2, Zenon DEF L!Die
    <3>2. s5[p].kind = "delete" => s5[p].memo \in Memos
      BY <1>1, LocalWork
    <3> QED  BY <1>1, <3>1, <3>2 DEF LocalTyped
  <2> QED  BY <2>1, <2>2
<1>3. /\ s5' \in [Requests -> LocalWorks] /\ s5'[p] = L!Idle
      /\ \A q \in Requests : q # p => s5'[q] = s5[q]
  BY <1>1, <1>2, LocalIdle DEF LocalTyped
<1>4. LocalTyped'
  BY <1>1, <1>2, <1>3 DEF LocalTyped
<1>5. LocalFiled' /\ L!FiredOnce'
  BY <1>2 DEF LocalInv, LocalFiled, L!FolderThere, L!FiredOnce
<1>6. LocalWatched'
  <2> SUFFICES ASSUME NEW q \in Requests, s5'[q].kind = "take", ~s5'[q].stale,
                      NEW r \in s5'[q].due
               PROVE  s3'[r] = "set" /\ r[2] <= s4'
    BY DEF LocalWatched
  <2>1. q # p
    BY <1>3, LocalIdle
  <2> QED  BY <1>2, <1>3, <2>1 DEF LocalInv, LocalWatched
<1>7. LocalLeft'
  <2> SUFFICES ASSUME NEW y \in Memos, s1[y].life = "gone", L!HasReminder(y), y \notin s8'
               PROVE  LocalDeletes(y)'
    BY <1>2 DEF LocalLeft, L!HasReminder
  <2>1. PICK q \in Requests : s5[q].kind = "delete" /\ s5[q].memo = y
    BY <1>2 DEF LocalInv, LocalLeft, LocalDeletes
  <2>2. q # p
    BY <1>2, <2>1
  <2> QED  BY <1>3, <2>1, <2>2 DEF LocalDeletes
<1> QED  BY <1>4, <1>5, <1>6, <1>7 DEF LocalInv

LEMMA LocalKeepsTime == LocalInv /\ (L!Tick \/ \E x \in Memos : L!Expire(x)) => LocalInv'
<1> SUFFICES ASSUME LocalInv, L!Tick \/ \E x \in Memos : L!Expire(x) PROVE LocalInv'
  OBVIOUS
<1>1. LocalTyped
  BY DEF LocalInv
<1>2. CASE L!Tick
  <2>1. s4 < MaxTime /\ s4' = s4 + 1 /\ UNCHANGED <<s1, s2, s3, s5, s6, s7, s8>>
    BY <1>2 DEF L!Tick
  <2>2. LocalTyped' /\ s4 \in Nat
    BY <1>1, <2>1, LocalNat DEF LocalTyped
  <2>3. LocalFiled' /\ LocalLeft'
    BY <2>1 DEF LocalInv, LocalFiled, L!FolderThere, LocalLeft, LocalDeletes, L!HasReminder
  <2>4. LocalWatched'
    <3> SUFFICES ASSUME NEW q \in Requests, s5[q].kind = "take", ~s5[q].stale, NEW r \in s5[q].due
                 PROVE  s3[r] = "set" /\ r[2] <= s4'
      BY <2>1 DEF LocalWatched
    <3>1. s5[q] \in LocalWorks
      BY <1>1 DEF LocalTyped
    <3>2. r \in Memos \X L!Times
      BY <3>1, LocalWork
    <3>3. r[2] \in Nat
      BY <3>2, LocalNat DEF L!Times
    <3>4. s3[r] = "set" /\ r[2] <= s4
      BY DEF LocalInv, LocalWatched
    <3> QED  BY <2>1, <2>2, <3>3, <3>4
  <2>5. L!FiredOnce'
    <3> SUFFICES ASSUME NEW r \in Memos \X L!Times
                 PROVE  s7[r] <= 1 /\ (s7[r] > 0 => r[2] <= s4') /\ (s3[r] = "set" => s7[r] = 0)
      BY <2>1 DEF L!FiredOnce
    <3>1. r[2] \in Nat
      BY LocalNat DEF L!Times
    <3>2. s7[r] <= 1 /\ (s7[r] > 0 => r[2] <= s4) /\ (s3[r] = "set" => s7[r] = 0)
      BY DEF LocalInv, L!FiredOnce
    <3> QED  BY <2>1, <2>2, <3>1, <3>2
  <2> QED  BY <2>2, <2>3, <2>4, <2>5 DEF LocalInv
<1>3. ASSUME NEW x \in Memos, L!Expire(x) PROVE LocalInv'
  <2> DEFINE r == [s1[x] EXCEPT !.life = "expired"]
  <2>1. s1' = [s1 EXCEPT ![x] = r] /\ UNCHANGED <<s2, s3, s4, s5, s6, s7, s8>>
    BY <1>3 DEF L!Expire
  <2>2. s1[x] \in LocalRows
    BY <1>1 DEF LocalTyped
  <2>3. r \in LocalRows /\ r.life = "expired"
    BY <2>2 DEF LocalRows
  <2> HIDE DEF r
  <2>4. s1' \in [Memos -> LocalRows] /\ \A y \in Memos : s1'[y] = IF y = x THEN r ELSE s1[y]
    BY <1>1, <2>1, <2>3 DEF LocalTyped
  <2>5. LocalTyped'
    BY <1>1, <2>1, <2>4 DEF LocalTyped
  <2>6. LocalFiled'
    BY <2>1, <2>3, <2>4 DEF LocalInv, LocalFiled, L!FolderThere
  <2>7. LocalLeft'
    BY <2>1, <2>3, <2>4 DEF LocalInv, LocalLeft, LocalDeletes, L!HasReminder
  <2>8. LocalWatched' /\ L!FiredOnce'
    BY <2>1 DEF LocalInv, LocalWatched, L!FiredOnce
  <2> QED  BY <2>5, <2>6, <2>7, <2>8 DEF LocalInv
<1> QED  BY <1>2, <1>3

LEMMA LocalKeeps == LocalInv /\ L!LocalNext => LocalInv'
<1> SUFFICES ASSUME LocalInv, L!LocalNext PROVE LocalInv'
  OBVIOUS
<1>1. ASSUME NEW x \in Memos,
             \/ L!Create(x) \/ L!Update(x) \/ L!Trash(x) \/ L!Restore(x) \/ L!Expire(x)
             \/ L!ReminderClear(x) \/ \E y \in Memos : L!Duplicate(x, y)
      PROVE  LocalInv'
  BY <1>1, LocalKeepsCreate, LocalKeepsUpdate, LocalKeepsMove, LocalKeepsTime, LocalKeepsClear
<1>2. ASSUME NEW f \in Folders, L!FolderDelete(f) \/ \E n \in Names : L!FolderRename(f, n)
      PROVE  LocalInv'
  BY <1>2, LocalKeepsFolder
<1>3. ASSUME NEW p \in Requests,
             \/ L!DeleteReminders(p) \/ L!ReminderInsert(p) \/ L!TakeRead(p) \/ L!TakeMark(p)
             \/ L!TakeFails(p) \/ L!Die(p) \/ \E f \in Folders : L!FolderInsert(p, f)
             \/ \E n \in Names : L!FolderLook(p, n)
             \/ \E x \in Memos : \/ L!DeleteForever(p, x)
                                \/ \E t \in L!Times : L!ReminderCount(p, x, t)
      PROVE  LocalInv'
  BY <1>3, LocalKeepsReminders, LocalKeepsInserts, LocalKeepsLooks, LocalKeepsMark, LocalKeepsEnd,
     LocalKeepsDelete
<1>4. CASE L!EmptyTrash \/ L!OpenOnly \/ L!Tick
  BY <1>4, LocalKeepsEmpty, LocalKeepsOpen, LocalKeepsTime
<1> QED  BY <1>1, <1>2, <1>3, <1>4, Zenon DEF L!LocalNext

LEMMA LocalStarts == L!LocalInit => LocalInv
<1> SUFFICES ASSUME L!LocalInit PROVE LocalInv
  OBVIOUS
<1>1. /\ s1 = [x \in Memos |-> [life |-> "absent", title |-> "", link |-> "", folder |-> "none"]]
      /\ s2 = [f \in Folders |-> "none"] /\ s3 = [r \in Memos \X L!Times |-> "none"]
      /\ s4 = 0 /\ s6 = 0 /\ s5 = [p \in Requests |-> L!Idle]
      /\ s7 = [r \in Memos \X L!Times |-> 0] /\ s8 = {}
  BY DEF L!LocalInit, L!NoFolder
<1>2. [life |-> "absent", title |-> "", link |-> "", folder |-> "none"] \in LocalRows
  BY DEF LocalRows, L!Titles
<1>3. s5 \in [Requests -> LocalWorks] /\ \A p \in Requests : s5[p].kind = "idle"
  BY <1>1, LocalIdle
<1>4. s1 \in [Memos -> LocalRows] /\ \A x \in Memos : s1[x].life = "absent"
  BY <1>1, <1>2
<1>5. /\ s2 \in [Folders -> Names \cup {"none"}] /\ s4 \in 0 .. MaxTime /\ s6 \in 0 .. MaxOps
      /\ s3 \in [Memos \X L!Times -> {"none", "set", "fired"}]
      /\ s7 \in [Memos \X L!Times -> Nat] /\ \A r \in Memos \X L!Times : s7[r] = 0
  <2>1. s2 \in [Folders -> Names \cup {"none"}]
    BY <1>1
  <2>4. s4 \in 0 .. MaxTime /\ s6 \in 0 .. MaxOps
    <3>1. 0 \in 0 .. MaxTime /\ 0 \in 0 .. MaxOps
      BY LocalNat
    <3>2. s4 = 0 /\ s6 = 0
      BY <1>1
    <3> QED  BY <3>1, <3>2
  <2> DEFINE W == Memos \X L!Times
  <2>2. s3 = [r \in W |-> "none"] /\ s7 = [r \in W |-> 0]
    BY <1>1
  <2> HIDE DEF W
  <2>3. s3 \in [W -> {"none", "set", "fired"}] /\ s7 \in [W -> Nat] /\ \A r \in W : s7[r] = 0
    BY <2>2
  <2> QED  BY <2>1, <2>3, <2>4 DEF W
<1>6. L!FiredOnce
  BY <1>5 DEF L!FiredOnce
<1>7. LocalTyped
  BY <1>1, <1>3, <1>4, <1>5 DEF LocalTyped
<1> QED  BY <1>3, <1>4, <1>6, <1>7 DEF LocalInv, LocalFiled, LocalWatched, LocalLeft

LEMMA LocalGives == LocalInv => L!LocalTypeOK /\ L!LocalSound
<1> SUFFICES ASSUME LocalInv PROVE L!LocalTypeOK /\ L!LocalSound
  OBVIOUS
<1>1. LocalTyped
  BY DEF LocalInv
<1>2. L!LocalTypeOK
  BY <1>1 DEF LocalTyped, LocalRows, L!LocalTypeOK, L!NoFolder
<1>3. L!FoldersKept
  <2>1. \A x \in Memos : L!InUse(x) => s1[x].life \in {"live", "trash"}
    BY <1>1, LocalPurged DEF L!InUse
  <2> QED  BY <2>1 DEF LocalInv, LocalFiled, L!FoldersKept
<1>4. L!RemindersGone
  <2> SUFFICES ASSUME NEW x \in Memos, L!Gone(x), L!HasReminder(x), x \notin s8
               PROVE  \E p \in Requests : s5[p] = [kind |-> "delete", memo |-> x]
    BY DEF L!RemindersGone
  <2>1. PICK p \in Requests : s5[p].kind = "delete" /\ s5[p].memo = x
    BY DEF LocalInv, LocalLeft, LocalDeletes, L!Gone
  <2>2. s5[p] \in LocalWorks
    BY <1>1 DEF LocalTyped
  <2> QED  BY <2>1, <2>2, LocalWork
<1> QED  BY <1>2, <1>3, <1>4 DEF LocalInv, L!LocalSound

-----------------------------------------------------------------------------
(* The reminders of a phone: s1 is the time, s2 the rows, s3 the alarms,   *)
(* s4 the jobs, s5 whether the device has just started, s6 the targets     *)
(* that are gone, s7 how often each was shown, s8 those cut off, s9 those  *)
(* lost, s10, s11 and s12 the counts.                                      *)

ReminderJobs == [does : {"nothing", "arm", "disarm", "show", "rearm"}, rest : SUBSET A!Reminders]
Workers == A!Screens \cup A!Receivers

ReminderCounts == s10 \in 0 .. MaxSets /\ s11 \in 0 .. MaxClears /\ s12 \in 0 .. MaxCuts

ReminderTyped ==
    /\ s1 \in 0 .. MaxTime /\ s2 \in [A!Reminders -> {"none", "set", "fired"}]
    /\ s3 \subseteq {[key |-> r, time |-> r[2]] : r \in A!Reminders}
    /\ s4 \in [Workers -> ReminderJobs]
    /\ s5 \in BOOLEAN /\ s6 \subseteq Targets /\ s7 \in [A!Reminders -> 0 .. 1]
    /\ s8 \subseteq A!Reminders /\ s9 \subseteq A!Reminders
    /\ ReminderCounts

\* A job that arms has one alarm to register, and the alarms' receiver does
\* nothing but show.
ReminderWork == /\ \A j \in Workers : /\ s4[j].does = "arm" => \E r : s4[j].rest = {r}
                                      /\ s4[j].does = "nothing" => s4[j].rest = {}
                /\ s4["alarm"].does \in {"nothing", "show"}

ToArm(r) == \E j \in Workers : s4[j].does \in {"arm", "rearm"} /\ r \in s4[j].rest
HasAlarm(r) == [key |-> r, time |-> r[2]] \in s3

ReminderArmed(r) == s2[r] = "set" => HasAlarm(r) \/ s5 \/ r \in s8 \/ ToArm(r)

ReminderShown(r) ==
    /\ s2[r] = "set" => s7[r] = 0
    /\ r \in s4["alarm"].rest => r[2] <= s1 /\ s2[r] # "set" /\ s7[r] = 0
    /\ s2[r] = "fired" /\ s7[r] = 0 => r \in s9 \cup s4["alarm"].rest \/ r[1] \in s6

ReminderInv == /\ ReminderTyped /\ ReminderWork
               /\ \A r \in A!Reminders : ReminderArmed(r) /\ ReminderShown(r)

LEMMA ReminderNat == /\ MaxTime \in Nat /\ MaxSets \in Nat /\ MaxClears \in Nat /\ MaxCuts \in Nat
BY SharedAssumption DEF L!LocalAssumption

LEMMA ReminderIs ==
    ASSUME NEW r \in A!Reminders
    PROVE  r[1] \in Targets /\ r[2] \in 1 .. MaxTime
BY DEF A!Reminders, A!Times

LEMMA WorkersAre == /\ Workers = {"screen1", "screen2", "alarm", "boot"}
                    /\ A!Screens \subseteq Workers \ {"alarm", "boot"}
BY DEF Workers, A!Screens, A!Receivers

LEMMA ReminderIdle == A!Idle \in ReminderJobs /\ A!Idle.does = "nothing" /\ A!Idle.rest = {}
<1>1. {} \in SUBSET A!Reminders
  OBVIOUS
<1> QED  BY <1>1 DEF A!Idle, ReminderJobs

LEMMA ReminderUnarmed ==
    ASSUME ReminderTyped, NEW r
    PROVE  r \in A!Unarmed <=> ToArm(r)
<1>1. DOMAIN s4 = Workers
  BY DEF ReminderTyped
<1> QED  BY <1>1 DEF A!Unarmed, ToArm

\* The alarms are those of reminders, each under its own key.
LEMMA ReminderAlarms ==
    ASSUME ReminderTyped, NEW r \in A!Reminders
    PROVE  /\ A!Registered(r) \subseteq {[key |-> q, time |-> q[2]] : q \in A!Reminders}
           /\ A!Unregistered(r) \subseteq s3
           /\ [key |-> r, time |-> r[2]] \in A!Registered(r)
           /\ \A q \in A!Reminders : q # r /\ HasAlarm(q) =>
                [key |-> q, time |-> q[2]] \in A!Registered(r) \cap A!Unregistered(r)
           /\ (\A a \in s3 : a.key # A!AlarmKey(r)) <=> ~HasAlarm(r)
<1>1. \A q : [key |-> q, time |-> q[2]].key = q
  OBVIOUS
<1>2. A!AlarmKey(r) = r
  BY DEF A!AlarmKey
<1>3. \A a \in s3 : \E q \in A!Reminders : a = [key |-> q, time |-> q[2]]
  BY DEF ReminderTyped
<1>4. A!Registered(r) = {a \in s3 : a.key # r} \cup {[key |-> r, time |-> r[2]]}
      /\ A!Unregistered(r) = {a \in s3 : a.key # r}
  BY <1>2 DEF A!Registered, A!Unregistered
<1>5. \A q \in A!Reminders : q # r /\ HasAlarm(q) =>
                [key |-> q, time |-> q[2]] \in A!Registered(r) \cap A!Unregistered(r)
  BY <1>1, <1>4 DEF HasAlarm
<1>6. (\A a \in s3 : a.key # r) <=> ~HasAlarm(r)
  BY <1>1, <1>3 DEF HasAlarm
<1>7. A!Registered(r) \subseteq {[key |-> q, time |-> q[2]] : q \in A!Reminders}
  BY <1>3, <1>4
<1> QED  BY <1>2, <1>4, <1>5, <1>6, <1>7

-----------------------------------------------------------------------------
(* What one worker does next.                                              *)

LEMMA ReminderJob ==
    ASSUME ReminderTyped, ReminderWork, NEW j \in Workers, NEW d \in ReminderJobs,
           s4' = [s4 EXCEPT ![j] = d],
           d.does = "arm" => \E r : d.rest = {r},
           d.does = "nothing" => d.rest = {},
           j = "alarm" => d.does \in {"nothing", "show"}
    PROVE  /\ s4' \in [Workers -> ReminderJobs] /\ ReminderWork'
           /\ s4'[j] = d /\ \A i \in Workers : i # j => s4'[i] = s4[i]
<1>1. s4 \in [Workers -> ReminderJobs] /\ "alarm" \in Workers
  BY WorkersAre DEF ReminderTyped
<1>2. s4' \in [Workers -> ReminderJobs] /\ s4'[j] = d /\ \A i \in Workers : i # j => s4'[i] = s4[i]
  BY <1>1
<1> QED  BY <1>1, <1>2 DEF ReminderWork

\* After one of a set was dealt with.
LEMMA ReminderRest ==
    ASSUME ReminderTyped, ReminderWork, NEW j \in Workers, NEW r \in s4[j].rest,
           s4[j].does \in {"disarm", "show", "rearm"},
           IF s4[j].rest = {r} THEN A!Ends(j) ELSE A!Does(j, s4[j].does, s4[j].rest \ {r})
    PROVE  /\ s4' \in [Workers -> ReminderJobs] /\ ReminderWork'
           /\ s4'[j].rest = s4[j].rest \ {r}
           /\ s4[j].rest # {r} => s4'[j].does = s4[j].does
           /\ \A i \in Workers : i # j => s4'[i] = s4[i]
<1>1. s4[j] \in ReminderJobs
  BY DEF ReminderTyped
<1>2. CASE s4[j].rest = {r}
  <2>1. s4' = [s4 EXCEPT ![j] = A!Idle]
    BY <1>2 DEF A!Ends
  <2> QED  BY <1>2, <2>1, ReminderIdle, ReminderJob
<1>3. CASE s4[j].rest # {r}
  <2> DEFINE d == [does |-> s4[j].does, rest |-> s4[j].rest \ {r}]
  <2>1. d \in ReminderJobs /\ d.does = s4[j].does /\ d.rest = s4[j].rest \ {r}
    BY <1>1 DEF ReminderJobs
  <2>2. s4' = [s4 EXCEPT ![j] = d]
    BY <1>3 DEF A!Does
  <2> HIDE DEF d
  <2>3. j = "alarm" => s4[j].does \in {"nothing", "show"}
    BY DEF ReminderWork
  <2> QED  BY <1>3, <2>1, <2>2, <2>3, ReminderJob
<1> QED  BY <1>2, <1>3

LEMMA ReminderKeepsSet ==
    ASSUME ReminderInv, NEW j \in A!Screens, NEW r \in A!Reminders, A!SetReminder(j, r)
    PROVE  ReminderInv'
<1>1. ReminderTyped /\ ReminderWork /\ j \in Workers /\ j # "alarm" /\ "alarm" \in Workers
  BY WorkersAre DEF ReminderInv
<1>2. /\ s4[j] = A!Idle /\ r[2] > s1 /\ s2' = [s2 EXCEPT ![r] = "set"] /\ s7' = [s7 EXCEPT ![r] = 0]
      /\ s9' = s9 \ {r} /\ UNCHANGED <<s1, s3, s5, s6, s8, s11, s12>>
  BY DEF A!SetReminder
<1> DEFINE d == [does |-> "arm", rest |-> {r}]
<1>3. s4' = [s4 EXCEPT ![j] = d]
  BY DEF A!SetReminder, A!Does
<1>4. d \in ReminderJobs /\ d.does = "arm" /\ d.rest = {r}
  BY DEF ReminderJobs
<1> HIDE DEF d
<1>5. /\ s4' \in [Workers -> ReminderJobs] /\ ReminderWork'
      /\ s4'[j] = d /\ \A i \in Workers : i # j => s4'[i] = s4[i]
  BY <1>1, <1>3, <1>4, ReminderJob
<1>6. ReminderCounts'
  <2>1. s10 < MaxSets /\ s10' = s10 + 1
    BY DEF A!SetReminder
  <2> QED  BY <1>1, <1>2, <2>1, ReminderNat DEF ReminderTyped, ReminderCounts
<1>7. s2' \in [A!Reminders -> {"none", "set", "fired"}] /\ s7' \in [A!Reminders -> 0 .. 1]
      /\ s9' \subseteq A!Reminders
  BY <1>1, <1>2 DEF ReminderTyped
<1>8. ReminderTyped'
  BY <1>1, <1>2, <1>5, <1>6, <1>7 DEF ReminderTyped
<1>9. ASSUME NEW q \in A!Reminders PROVE (ReminderArmed(q) /\ ReminderShown(q))'
  <2>1. ToArm(q) => ToArm(q)'
    <3>1. s4[j].does = "nothing"
      BY <1>2, ReminderIdle
    <3> QED  BY <1>5, <3>1 DEF ToArm
  <2>2. s4'["alarm"] = s4["alarm"]
    BY <1>1, <1>5
  <2>3. CASE q = r
    <3>1. ToArm(q)'
      BY <1>1, <1>4, <1>5, <2>3 DEF ToArm
    <3>2. s2'[q] = "set" /\ s7'[q] = 0
      BY <1>1, <1>2, <2>3 DEF ReminderTyped
    <3>3. q \notin s4["alarm"].rest
      <4>1. r[2] \in Nat /\ s1 \in Nat
        BY <1>1, ReminderIs, ReminderNat DEF ReminderTyped
      <4>2. q \in s4["alarm"].rest => q[2] <= s1
        BY DEF ReminderInv, ReminderShown
      <4> QED  BY <1>2, <2>3, <4>1, <4>2
    <3> QED  BY <2>2, <3>1, <3>2, <3>3 DEF ReminderArmed, ReminderShown
  <2>4. CASE q # r
    <3>1. s2'[q] = s2[q] /\ s7'[q] = s7[q] /\ (q \in s9 => q \in s9')
      BY <1>1, <1>2, <2>4 DEF ReminderTyped
    <3>2. ReminderArmed(q) /\ ReminderShown(q)
      BY DEF ReminderInv
    <3> QED  BY <1>2, <2>1, <2>2, <3>1, <3>2 DEF ReminderArmed, ReminderShown, HasAlarm
  <2> QED  BY <2>3, <2>4
<1> QED  BY <1>5, <1>8, <1>9 DEF ReminderInv

LEMMA ReminderKeepsClear ==
    ASSUME ReminderInv, NEW j \in A!Screens, NEW r \in A!Reminders, A!ClearOne(j, r)
    PROVE  ReminderInv'
<1>1. ReminderTyped /\ ReminderWork /\ j \in Workers /\ j # "alarm" /\ "alarm" \in Workers
  BY WorkersAre DEF ReminderInv
<1>2. /\ s4[j] = A!Idle /\ s2' = [s2 EXCEPT ![r] = "none"]
      /\ UNCHANGED <<s1, s3, s5, s6, s7, s8, s9, s10, s12>>
  BY DEF A!ClearOne
<1> DEFINE d == [does |-> "disarm", rest |-> {r}]
<1>3. s4' = [s4 EXCEPT ![j] = d]
  BY DEF A!ClearOne, A!Does
<1>4. d \in ReminderJobs /\ d.does = "disarm" /\ d.rest = {r}
  BY DEF ReminderJobs
<1> HIDE DEF d
<1>5. /\ s4' \in [Workers -> ReminderJobs] /\ ReminderWork'
      /\ s4'[j] = d /\ \A i \in Workers : i # j => s4'[i] = s4[i]
  BY <1>1, <1>3, <1>4, ReminderJob
<1>6. ReminderCounts'
  <2>1. s11 < MaxClears /\ s11' = s11 + 1
    BY DEF A!ClearOne
  <2> QED  BY <1>1, <1>2, <2>1, ReminderNat DEF ReminderTyped, ReminderCounts
<1>7. s2' \in [A!Reminders -> {"none", "set", "fired"}]
  BY <1>1, <1>2 DEF ReminderTyped
<1>8. ReminderTyped'
  BY <1>1, <1>2, <1>5, <1>6, <1>7 DEF ReminderTyped
<1>9. ASSUME NEW q \in A!Reminders PROVE (ReminderArmed(q) /\ ReminderShown(q))'
  <2>1. ToArm(q) => ToArm(q)'
    <3>1. s4[j].does = "nothing"
      BY <1>2, ReminderIdle
    <3> QED  BY <1>5, <3>1 DEF ToArm
  <2>2. s4'["alarm"] = s4["alarm"]
    BY <1>1, <1>5
  <2>3. ReminderArmed(q) /\ ReminderShown(q)
    BY DEF ReminderInv
  <2>4. s2'[q] = IF q = r THEN "none" ELSE s2[q]
    BY <1>1, <1>2 DEF ReminderTyped
  <2> QED  BY <1>2, <2>1, <2>2, <2>3, <2>4 DEF ReminderArmed, ReminderShown, HasAlarm
<1> QED  BY <1>5, <1>8, <1>9 DEF ReminderInv

\* A worker registers one alarm and is left with the others.
LEMMA ReminderKeepsArming ==
    ASSUME ReminderInv, NEW j \in Workers, NEW r \in A!Reminders,
           s3' = A!Registered(r), s8' = s8 \ {r},
           UNCHANGED <<s1, s2, s5, s6, s7, s9, s10, s11, s12>>,
           s4' \in [Workers -> ReminderJobs], ReminderWork', j # "alarm",
           \A q \in s4[j].rest : q # r /\ s4[j].does \in {"arm", "rearm"} =>
               q \in s4'[j].rest /\ s4'[j].does = s4[j].does,
           \A i \in Workers : i # j => s4'[i] = s4[i]
    PROVE  ReminderInv'
<1>1. ReminderTyped /\ ReminderWork /\ "alarm" \in Workers
  BY WorkersAre DEF ReminderInv
<1>2. ReminderTyped'
  <2>1. s3' \subseteq {[key |-> q, time |-> q[2]] : q \in A!Reminders}
    BY <1>1, ReminderAlarms
  <2> QED  BY <1>1, <2>1 DEF ReminderTyped, ReminderCounts
<1>3. ASSUME NEW q \in A!Reminders PROVE (ReminderArmed(q) /\ ReminderShown(q))'
  <2>1. ReminderArmed(q) /\ ReminderShown(q)
    BY DEF ReminderInv
  <2>2. ReminderShown(q)'
    BY <1>1, <2>1 DEF ReminderShown
  <2>3. CASE q = r
    <3>1. HasAlarm(q)'
      BY <1>1, <2>3, ReminderAlarms DEF HasAlarm
    <3> QED  BY <2>2, <3>1 DEF ReminderArmed
  <2>4. CASE q # r
    <3>1. HasAlarm(q) => HasAlarm(q)'
      BY <1>1, <2>4, ReminderAlarms DEF HasAlarm
    <3>2. ToArm(q) => ToArm(q)'
      BY <2>4 DEF ToArm
    <3> QED  BY <2>1, <2>2, <2>4, <3>1, <3>2 DEF ReminderArmed
  <2> QED  BY <2>3, <2>4
<1> QED  BY <1>2, <1>3 DEF ReminderInv

LEMMA ReminderKeepsArm ==
    ASSUME ReminderInv, NEW j \in A!Screens, A!ArmAlarm(j)
    PROVE  ReminderInv'
<1>1. ReminderTyped /\ ReminderWork /\ j \in Workers /\ j # "alarm"
  BY WorkersAre DEF ReminderInv
<1>2. PICK r \in s4[j].rest : s3' = A!Registered(r) /\ s8' = s8 \ {r}
  BY DEF A!ArmAlarm
<1>3. /\ s4[j].does = "arm" /\ s4' = [s4 EXCEPT ![j] = A!Idle]
      /\ UNCHANGED <<s1, s2, s5, s6, s7, s9, s10, s11, s12>>
  BY DEF A!ArmAlarm, A!Ends
<1>4. s4[j].rest = {r} /\ r \in A!Reminders
  BY <1>1, <1>2, <1>3 DEF ReminderWork, ReminderTyped, ReminderJobs
<1>5. /\ s4' \in [Workers -> ReminderJobs] /\ ReminderWork'
      /\ \A i \in Workers : i # j => s4'[i] = s4[i]
  BY <1>1, <1>3, ReminderIdle, ReminderJob
<1>6. \A q \in s4[j].rest : q # r /\ s4[j].does \in {"arm", "rearm"} =>
               q \in s4'[j].rest /\ s4'[j].does = s4[j].does
  BY <1>4
<1> QED  BY <1>1, <1>2, <1>3, <1>4, <1>5, <1>6, ReminderKeepsArming

LEMMA ReminderKeepsBootArms == ReminderInv /\ A!BootArms => ReminderInv'
<1> SUFFICES ASSUME ReminderInv, A!BootArms PROVE ReminderInv'
  OBVIOUS
<1>1. ReminderTyped /\ ReminderWork /\ "boot" \in Workers /\ "boot" # "alarm"
  BY WorkersAre DEF ReminderInv
<1>2. s4["boot"].does = "rearm" /\ UNCHANGED <<s1, s2, s5, s6, s7, s9, s10, s11, s12>>
  BY DEF A!BootArms
<1>3. PICK r \in s4["boot"].rest :
        /\ s3' = A!Registered(r) /\ s8' = s8 \ {r}
        /\ IF s4["boot"].rest = {r} THEN A!Ends("boot")
                                    ELSE A!Does("boot", s4["boot"].does, s4["boot"].rest \ {r})
  BY <1>2, Zenon DEF A!BootArms
<1>4. /\ s4' \in [Workers -> ReminderJobs] /\ ReminderWork'
      /\ s4'["boot"].rest = s4["boot"].rest \ {r}
      /\ s4["boot"].rest # {r} => s4'["boot"].does = s4["boot"].does
      /\ \A i \in Workers : i # "boot" => s4'[i] = s4[i]
  BY <1>1, <1>2, <1>3, ReminderRest
<1>5. r \in A!Reminders
  BY <1>1, <1>3 DEF ReminderTyped, ReminderJobs
<1>6. \A q \in s4["boot"].rest : q # r /\ s4["boot"].does \in {"arm", "rearm"} =>
               q \in s4'["boot"].rest /\ s4'["boot"].does = s4["boot"].does
  BY <1>4
<1> QED  BY <1>1, <1>2, <1>3, <1>4, <1>5, <1>6, ReminderKeepsArming

LEMMA ReminderKeepsDisarm ==
    ASSUME ReminderInv, NEW j \in A!Screens, A!DisarmAlarm(j)
    PROVE  ReminderInv'
<1>1. ReminderTyped /\ ReminderWork /\ j \in Workers /\ j # "alarm" /\ "alarm" \in Workers
  BY WorkersAre DEF ReminderInv
<1>2. s4[j].does = "disarm" /\ UNCHANGED <<s1, s2, s5, s6, s7, s9, s10, s11, s12>>
  BY DEF A!DisarmAlarm
<1>3. PICK r \in s4[j].rest :
        /\ s3' = A!Unregistered(r)
        /\ s8' = IF s2[r] = "set" THEN s8 \cup {r} ELSE s8
        /\ IF s4[j].rest = {r} THEN A!Ends(j) ELSE A!Does(j, s4[j].does, s4[j].rest \ {r})
  BY <1>2, Zenon DEF A!DisarmAlarm
<1>4. /\ s4' \in [Workers -> ReminderJobs] /\ ReminderWork'
      /\ \A i \in Workers : i # j => s4'[i] = s4[i]
  BY <1>1, <1>2, <1>3, ReminderRest
<1>5. r \in A!Reminders
  BY <1>1, <1>3 DEF ReminderTyped, ReminderJobs
<1>6. ReminderTyped'
  <2>1. s3' \subseteq {[key |-> q, time |-> q[2]] : q \in A!Reminders}
    BY <1>1, <1>3, <1>5, ReminderAlarms DEF ReminderTyped
  <2> QED  BY <1>1, <1>2, <1>3, <1>4, <1>5, <2>1 DEF ReminderTyped, ReminderCounts
<1>7. ASSUME NEW q \in A!Reminders PROVE (ReminderArmed(q) /\ ReminderShown(q))'
  <2>1. ReminderArmed(q) /\ ReminderShown(q)
    BY DEF ReminderInv
  <2>2. ReminderShown(q)'
    BY <1>1, <1>2, <1>4, <2>1 DEF ReminderShown
  <2>3. CASE q = r
    BY <1>2, <1>3, <2>2, <2>3 DEF ReminderArmed
  <2>4. CASE q # r
    <3>1. HasAlarm(q) => HasAlarm(q)'
      BY <1>1, <1>3, <1>5, <2>4, ReminderAlarms DEF HasAlarm
    <3>2. ToArm(q) => ToArm(q)'
      BY <1>2, <1>4 DEF ToArm
    <3> QED  BY <1>2, <1>3, <2>1, <2>2, <3>1, <3>2 DEF ReminderArmed
  <2> QED  BY <2>3, <2>4
<1> QED  BY <1>4, <1>6, <1>7 DEF ReminderInv

LEMMA ReminderKeepsFires == ReminderInv /\ A!AlarmFires => ReminderInv'
<1> SUFFICES ASSUME ReminderInv, A!AlarmFires PROVE ReminderInv'
  OBVIOUS
<1>1. ReminderTyped /\ ReminderWork /\ "alarm" \in Workers
  BY WorkersAre DEF ReminderInv
<1>2. /\ s4["alarm"] = A!Idle /\ s2' = A!TakenRows /\ s8' = s8 \ A!Due
      /\ UNCHANGED <<s1, s5, s6, s7, s9, s10, s11, s12>>
  BY DEF A!AlarmFires
<1>3. PICK a \in s3 : a.time <= s1 /\ s3' = s3 \ {a}
  BY DEF A!AlarmFires
<1>4. A!Due \subseteq A!Reminders /\ \A q \in A!Reminders : q \in A!Due <=> s2[q] = "set" /\ q[2] <= s1
  BY DEF A!Due, A!Unfired
<1>5. s4' \in [Workers -> ReminderJobs] /\ ReminderWork' /\ s4'["alarm"].rest = A!Due
      /\ \A i \in Workers : i # "alarm" => s4'[i] = s4[i]
  <2>1. CASE A!Due = {}
    <3>1. s4' = s4
      BY <2>1 DEF A!AlarmFires
    <3> QED  BY <1>1, <1>2, <2>1, <3>1, ReminderIdle DEF ReminderTyped, ReminderWork
  <2>2. CASE A!Due # {}
    <3> DEFINE d == [does |-> "show", rest |-> A!Due]
    <3>1. s4' = [s4 EXCEPT !["alarm"] = d]
      BY <2>2 DEF A!AlarmFires, A!Does
    <3>2. d \in ReminderJobs /\ d.does = "show" /\ d.rest = A!Due
      BY <1>4 DEF ReminderJobs
    <3> HIDE DEF d
    <3> QED  BY <1>1, <3>1, <3>2, ReminderJob
  <2> QED  BY <2>1, <2>2
<1>6. s2' \in [A!Reminders -> {"none", "set", "fired"}]
      /\ \A q \in A!Reminders : s2'[q] = IF q \in A!Due THEN "fired" ELSE s2[q]
  BY <1>1, <1>2 DEF A!TakenRows, ReminderTyped
<1>7. ReminderTyped'
  BY <1>1, <1>2, <1>3, <1>5, <1>6 DEF ReminderTyped, ReminderCounts
<1>8. ASSUME NEW q \in A!Reminders PROVE (ReminderArmed(q) /\ ReminderShown(q))'
  <2>1. ReminderArmed(q) /\ ReminderShown(q)
    BY DEF ReminderInv
  <2>2. ToArm(q) => ToArm(q)'
    <3>1. s4["alarm"].does = "nothing"
      BY <1>2, ReminderIdle
    <3> QED  BY <1>5, <3>1 DEF ToArm
  <2>3. CASE q \in A!Due
    BY <1>2, <1>4, <1>5, <1>6, <2>1, <2>3 DEF ReminderArmed, ReminderShown
  <2>4. CASE q \notin A!Due
    <3>1. s2'[q] = s2[q] /\ q \notin s4["alarm"].rest
      BY <1>2, <1>6, <2>4, ReminderIdle
    <3>2. s2[q] = "set" => (HasAlarm(q) => HasAlarm(q)')
      <4>1. a = [key |-> q, time |-> q[2]] => q[2] <= s1
        BY <1>3
      <4> QED  BY <1>3, <1>4, <2>4, <4>1 DEF HasAlarm
    <3>3. ReminderArmed(q)'
      BY <1>2, <2>1, <2>2, <2>4, <3>1, <3>2 DEF ReminderArmed
    <3>4. ReminderShown(q)'
      BY <1>2, <1>5, <2>1, <2>4, <3>1 DEF ReminderShown
    <3> QED  BY <3>3, <3>4
  <2> QED  BY <2>3, <2>4
<1> QED  BY <1>5, <1>7, <1>8 DEF ReminderInv

LEMMA ReminderKeepsShow == ReminderInv /\ A!ShowReminder => ReminderInv'
<1> SUFFICES ASSUME ReminderInv, A!ShowReminder PROVE ReminderInv'
  OBVIOUS
<1>1. ReminderTyped /\ ReminderWork /\ "alarm" \in Workers
  BY WorkersAre DEF ReminderInv
<1>2. s4["alarm"].does = "show" /\ UNCHANGED <<s1, s2, s3, s5, s6, s8, s9, s10, s11, s12>>
  BY DEF A!ShowReminder
<1>3. PICK r \in s4["alarm"].rest :
        /\ s7' = IF r[1] \in s6 THEN s7 ELSE [s7 EXCEPT ![r] = s7[r] + 1]
        /\ IF s4["alarm"].rest = {r} THEN A!Ends("alarm")
                                     ELSE A!Does("alarm", s4["alarm"].does, s4["alarm"].rest \ {r})
  BY <1>2, Zenon DEF A!ShowReminder
<1>4. /\ s4' \in [Workers -> ReminderJobs] /\ ReminderWork'
      /\ s4'["alarm"].rest = s4["alarm"].rest \ {r}
      /\ \A i \in Workers : i # "alarm" => s4'[i] = s4[i]
  BY <1>1, <1>2, <1>3, ReminderRest
<1>5. r \in A!Reminders /\ s7[r] = 0 /\ s2[r] # "set"
  <2>1. r \in A!Reminders
    BY <1>1, <1>3 DEF ReminderTyped, ReminderJobs
  <2> QED  BY <1>3, <2>1 DEF ReminderInv, ReminderShown
<1>6. /\ s7' \in [A!Reminders -> 0 .. 1]
      /\ \A q \in A!Reminders : s7'[q] = IF q = r /\ r[1] \notin s6 THEN 1 ELSE s7[q]
  BY <1>1, <1>3, <1>5 DEF ReminderTyped
<1>7. ReminderTyped'
  BY <1>1, <1>2, <1>4, <1>6 DEF ReminderTyped, ReminderCounts
<1>8. ASSUME NEW q \in A!Reminders PROVE (ReminderArmed(q) /\ ReminderShown(q))'
  <2>1. ReminderArmed(q) /\ ReminderShown(q)
    BY DEF ReminderInv
  <2>2. ToArm(q) => ToArm(q)'
    BY <1>2, <1>4 DEF ToArm
  <2>3. ReminderArmed(q)'
    BY <1>2, <2>1, <2>2 DEF ReminderArmed, HasAlarm
  <2>4. ReminderShown(q)'
    BY <1>2, <1>4, <1>5, <1>6, <2>1 DEF ReminderShown
  <2> QED  BY <2>3, <2>4
<1> QED  BY <1>4, <1>7, <1>8 DEF ReminderInv

\* What a failed call or a screen that was left takes away is accounted for.
LEMMA ReminderKeepsLeft ==
    ASSUME ReminderInv, NEW j \in A!Screens, A!ScreenLeft(j)
    PROVE  ReminderInv'
<1>1. ReminderTyped /\ ReminderWork /\ j \in Workers /\ j # "alarm" /\ "alarm" \in Workers
  BY WorkersAre DEF ReminderInv
<1>2. /\ s4[j].does \in {"arm", "disarm"} /\ s4' = [s4 EXCEPT ![j] = A!Idle]
      /\ s12 < MaxCuts /\ s12' = s12 + 1 /\ UNCHANGED <<s1, s2, s3, s5, s6, s7, s9, s10, s11>>
      /\ s8' = IF s4[j].does = "disarm" THEN s8
               ELSE s8 \cup {r \in s4[j].rest \cap A!Unfired : \A a \in s3 : a.key # A!AlarmKey(r)}
  BY DEF A!ScreenLeft, A!Ends
<1>3. /\ s4' \in [Workers -> ReminderJobs] /\ ReminderWork'
      /\ \A i \in Workers : i # j => s4'[i] = s4[i]
  BY <1>1, <1>2, ReminderIdle, ReminderJob
<1>4. ReminderCounts'
  BY <1>1, <1>2, ReminderNat DEF ReminderTyped, ReminderCounts
<1>5. s8' \subseteq A!Reminders /\ s8 \subseteq s8'
  BY <1>1, <1>2 DEF ReminderTyped, A!Unfired
<1>6. ReminderTyped'
  BY <1>1, <1>2, <1>3, <1>4, <1>5 DEF ReminderTyped
<1>7. ASSUME NEW q \in A!Reminders PROVE (ReminderArmed(q) /\ ReminderShown(q))'
  <2>1. ReminderArmed(q) /\ ReminderShown(q)
    BY DEF ReminderInv
  <2>2. ReminderShown(q)'
    BY <1>1, <1>2, <1>3, <2>1 DEF ReminderShown
  <2>3. s2[q] = "set" /\ ToArm(q) => ToArm(q)' \/ HasAlarm(q) \/ q \in s8'
    <3> SUFFICES ASSUME s2[q] = "set", ToArm(q), ~ToArm(q)', ~HasAlarm(q) PROVE q \in s8'
      OBVIOUS
    <3>1. q \in s4[j].rest /\ s4[j].does = "arm"
      BY <1>2, <1>3 DEF ToArm
    <3>2. \A a \in s3 : a.key # A!AlarmKey(q)
      BY <1>1, ReminderAlarms
    <3>3. q \in A!Unfired
      BY DEF A!Unfired
    <3>4. s8' = s8 \cup {r \in s4[j].rest \cap A!Unfired : \A a \in s3 : a.key # A!AlarmKey(r)}
      BY <1>2, <3>1
    <3> QED  BY <3>1, <3>2, <3>3, <3>4
  <2> QED  BY <1>2, <1>5, <2>1, <2>2, <2>3 DEF ReminderArmed, HasAlarm
<1> QED  BY <1>3, <1>6, <1>7 DEF ReminderInv

LEMMA ReminderKeepsUnused == ReminderInv /\ A!AlarmFails => ReminderInv'
<1> SUFFICES ASSUME ReminderInv, A!AlarmFails PROVE ReminderInv'
  OBVIOUS
<1>1. ReminderTyped /\ ReminderWork
  BY DEF ReminderInv
<1>2. PICK a \in s3 : /\ s3' = s3 \ {a}
                      /\ s8' = s8 \cup {r \in A!Unfired : A!AlarmKey(r) = a.key}
  BY DEF A!AlarmFails
<1>3. /\ s12 < MaxCuts /\ s12' = s12 + 1
      /\ UNCHANGED <<s1, s2, s4, s5, s6, s7, s9, s10, s11>>
  BY DEF A!AlarmFails
<1>4. ReminderCounts'
  BY <1>1, <1>3, ReminderNat DEF ReminderTyped, ReminderCounts
<1>5. s8' \subseteq A!Reminders /\ s8 \subseteq s8'
  BY <1>1, <1>2 DEF ReminderTyped, A!Unfired
<1>6. ReminderTyped' /\ ReminderWork'
  BY <1>1, <1>2, <1>3, <1>4, <1>5 DEF ReminderTyped, ReminderWork
<1>7. ASSUME NEW q \in A!Reminders PROVE (ReminderArmed(q) /\ ReminderShown(q))'
  <2>1. ReminderArmed(q) /\ ReminderShown(q)
    BY DEF ReminderInv
  <2>2. ReminderShown(q)' /\ (ToArm(q) => ToArm(q)')
    BY <1>3, <2>1 DEF ReminderShown, ToArm
  <2>3. s2[q] = "set" /\ HasAlarm(q) => HasAlarm(q)' \/ q \in s8'
    <3> SUFFICES ASSUME s2[q] = "set", HasAlarm(q), ~HasAlarm(q)' PROVE q \in s8'
      OBVIOUS
    <3>1. a = [key |-> q, time |-> q[2]]
      BY <1>2 DEF HasAlarm
    <3>2. A!AlarmKey(q) = a.key /\ q \in A!Unfired
      BY <3>1 DEF A!AlarmKey, A!Unfired
    <3> QED  BY <1>2, <3>2
  <2> QED  BY <1>3, <1>5, <2>1, <2>2, <2>3 DEF ReminderArmed
<1> QED  BY <1>6, <1>7 DEF ReminderInv

LEMMA ReminderKeepsUntitled == ReminderInv /\ A!TitleFails => ReminderInv'
<1> SUFFICES ASSUME ReminderInv, A!TitleFails PROVE ReminderInv'
  OBVIOUS
<1>1. ReminderTyped /\ ReminderWork /\ "alarm" \in Workers
  BY WorkersAre DEF ReminderInv
<1>2. /\ s4["alarm"].does = "show" /\ s12 < MaxCuts /\ s12' = s12 + 1
      /\ UNCHANGED <<s1, s2, s3, s5, s6, s7, s8, s10, s11>>
  BY DEF A!TitleFails
<1>3. PICK r \in s4["alarm"].rest :
        /\ s9' = s9 \cup {r}
        /\ IF s4["alarm"].rest = {r} THEN A!Ends("alarm")
                                     ELSE A!Does("alarm", s4["alarm"].does, s4["alarm"].rest \ {r})
  BY <1>2, Zenon DEF A!TitleFails
<1>4. /\ s4' \in [Workers -> ReminderJobs] /\ ReminderWork'
      /\ s4'["alarm"].rest = s4["alarm"].rest \ {r}
      /\ \A i \in Workers : i # "alarm" => s4'[i] = s4[i]
  BY <1>1, <1>2, <1>3, ReminderRest
<1>5. r \in A!Reminders
  BY <1>1, <1>3 DEF ReminderTyped, ReminderJobs
<1>6. ReminderCounts'
  BY <1>1, <1>2, ReminderNat DEF ReminderTyped, ReminderCounts
<1>7. ReminderTyped'
  BY <1>1, <1>2, <1>3, <1>4, <1>5, <1>6 DEF ReminderTyped
<1>8. ASSUME NEW q \in A!Reminders PROVE (ReminderArmed(q) /\ ReminderShown(q))'
  <2>1. ReminderArmed(q) /\ ReminderShown(q)
    BY DEF ReminderInv
  <2>2. ToArm(q) => ToArm(q)'
    BY <1>2, <1>4 DEF ToArm
  <2>3. ReminderArmed(q)'
    BY <1>2, <2>1, <2>2 DEF ReminderArmed, HasAlarm
  <2>4. ReminderShown(q)'
    BY <1>2, <1>3, <1>4, <2>1 DEF ReminderShown
  <2> QED  BY <2>3, <2>4
<1> QED  BY <1>4, <1>7, <1>8 DEF ReminderInv

LEMMA ReminderKeepsBootList == ReminderInv /\ (A!BootList \/ A!BootListFails) => ReminderInv'
<1> SUFFICES ASSUME ReminderInv, A!BootList \/ A!BootListFails PROVE ReminderInv'
  OBVIOUS
<1>1. ReminderTyped /\ ReminderWork /\ "alarm" \in Workers /\ "boot" \in Workers
  BY WorkersAre DEF ReminderInv
<1>2. A!Unfired \subseteq A!Reminders /\ \A q \in A!Reminders : q \in A!Unfired <=> s2[q] = "set"
  BY DEF A!Unfired
<1>3. s5' = FALSE /\ UNCHANGED <<s1, s2, s3, s6, s7, s9, s10, s11>>
  BY DEF A!BootList, A!BootListFails
<1>4. CASE A!BootList
  <2>1. UNCHANGED <<s8, s12>>
    BY <1>4 DEF A!BootList
  <2>2. /\ s4' \in [Workers -> ReminderJobs] /\ ReminderWork'
        /\ \A q \in A!Reminders : s2[q] = "set" => ToArm(q)'
        /\ s4'["alarm"] = s4["alarm"]
    <3>1. CASE A!Unfired = {}
      <4>1. s4' = s4
        BY <1>4, <3>1 DEF A!BootList
      <4> QED  BY <1>1, <1>2, <3>1, <4>1 DEF ReminderTyped, ReminderWork
    <3>2. CASE A!Unfired # {}
      <4> DEFINE d == [does |-> "rearm", rest |-> A!Unfired]
      <4>1. s4' = [s4 EXCEPT !["boot"] = d]
        BY <1>4, <3>2 DEF A!BootList, A!Does
      <4>2. d \in ReminderJobs /\ d.does = "rearm" /\ d.rest = A!Unfired
        BY <1>2 DEF ReminderJobs
      <4> HIDE DEF d
      <4>3. s4' \in [Workers -> ReminderJobs] /\ ReminderWork' /\ s4'["boot"] = d
            /\ \A i \in Workers : i # "boot" => s4'[i] = s4[i]
        BY <1>1, <4>1, <4>2, ReminderJob
      <4> QED  BY <1>1, <1>2, <4>2, <4>3 DEF ToArm
    <3> QED  BY <3>1, <3>2
  <2>3. ReminderTyped'
    BY <1>1, <1>3, <2>1, <2>2 DEF ReminderTyped, ReminderCounts
  <2>4. \A q \in A!Reminders : ReminderArmed(q)'
    BY <1>3, <2>2 DEF ReminderArmed
  <2>5. \A q \in A!Reminders : ReminderShown(q)'
    BY <1>3, <2>2 DEF ReminderInv, ReminderShown
  <2> QED  BY <2>2, <2>3, <2>4, <2>5 DEF ReminderInv
<1>5. CASE A!BootListFails
  <2>1. /\ UNCHANGED s4 /\ s12 < MaxCuts /\ s12' = s12 + 1
        /\ s8' = s8 \cup {r \in A!Unfired : \A a \in s3 : a.key # A!AlarmKey(r)}
    BY <1>5 DEF A!BootListFails
  <2>2. ReminderCounts'
    BY <1>1, <1>3, <2>1, ReminderNat DEF ReminderTyped, ReminderCounts
  <2>3. s8' \subseteq A!Reminders /\ s8 \subseteq s8'
    BY <1>1, <1>2, <2>1 DEF ReminderTyped
  <2>4. ReminderTyped'
    BY <1>1, <1>3, <2>1, <2>2, <2>3 DEF ReminderTyped
  <2>5. ASSUME NEW q \in A!Reminders PROVE (ReminderArmed(q) /\ ReminderShown(q))'
    <3>1. s2[q] = "set" => HasAlarm(q) \/ q \in s8'
      <4>1. (\A a \in s3 : a.key # A!AlarmKey(q)) <=> ~HasAlarm(q)
        BY <1>1, ReminderAlarms
      <4> QED  BY <1>2, <2>1, <4>1
    <3>2. ReminderArmed(q)'
      BY <1>3, <3>1 DEF ReminderArmed, HasAlarm
    <3>3. ReminderShown(q)'
      BY <1>3, <2>1 DEF ReminderInv, ReminderShown
    <3> QED  BY <3>2, <3>3
  <2>6. ReminderWork'
    BY <1>1, <2>1 DEF ReminderWork
  <2> QED  BY <2>4, <2>5, <2>6 DEF ReminderInv
<1> QED  BY <1>4, <1>5

\* The jobs of a process that ends, or of a device that restarts.
LEMMA ReminderKeepsDeath == ReminderInv /\ (A!ProcessEnds \/ A!DeviceRestarts) => ReminderInv'
<1> SUFFICES ASSUME ReminderInv, A!ProcessEnds \/ A!DeviceRestarts PROVE ReminderInv'
  OBVIOUS
<1>1. ReminderTyped /\ ReminderWork /\ "alarm" \in Workers /\ DOMAIN s4 = Workers
  BY WorkersAre DEF ReminderInv, ReminderTyped
<1>2. /\ s4' = [j \in Workers |-> A!Idle] /\ s9' = s9 \cup s4["alarm"].rest
      /\ UNCHANGED <<s1, s2, s6, s7, s10, s11>> /\ s12 < MaxCuts /\ s12' = s12 + 1
  BY <1>1 DEF A!ProcessEnds, A!DeviceRestarts, A!Unshown
<1>3. /\ s4' \in [Workers -> ReminderJobs] /\ \A j \in Workers : s4'[j] = A!Idle
      /\ s4["alarm"].rest \subseteq A!Reminders
  BY <1>1, <1>2, ReminderIdle DEF ReminderTyped, ReminderJobs
<1>4. ReminderWork'
  BY <1>1, <1>3, ReminderIdle DEF ReminderWork
<1>5. ReminderCounts'
  BY <1>1, <1>2, ReminderNat DEF ReminderTyped, ReminderCounts
<1>6. \A q \in A!Reminders : ReminderShown(q)'
  <2>1. s4'["alarm"].rest = {}
    BY <1>1, <1>3, ReminderIdle
  <2> QED  BY <1>2, <2>1 DEF ReminderInv, ReminderShown
<1>7. CASE A!ProcessEnds
  <2>1. /\ UNCHANGED <<s3, s5>>
        /\ s8' = s8 \cup {r \in A!Unarmed \cap A!Unfired : \A a \in s3 : a.key # A!AlarmKey(r)}
    BY <1>7 DEF A!ProcessEnds
  <2>2. ASSUME NEW q \in A!Reminders PROVE ReminderArmed(q)'
    <3>1. ReminderArmed(q)
      BY DEF ReminderInv
    <3>2. q \in A!Unarmed <=> ToArm(q)
      BY <1>1, ReminderUnarmed
    <3>3. (\A a \in s3 : a.key # A!AlarmKey(q)) <=> ~HasAlarm(q)
      BY <1>1, ReminderAlarms
    <3>4. s2[q] = "set" => q \in A!Unfired
      BY DEF A!Unfired
    <3> QED  BY <1>2, <2>1, <3>1, <3>2, <3>3, <3>4 DEF ReminderArmed, HasAlarm
  <2>3. ReminderTyped'
    <3>1. s8' \subseteq A!Reminders
      BY <1>1, <2>1 DEF ReminderTyped, A!Unfired
    <3> QED  BY <1>1, <1>2, <1>3, <1>5, <2>1, <3>1 DEF ReminderTyped
  <2> QED  BY <1>4, <1>6, <2>2, <2>3 DEF ReminderInv
<1>8. CASE A!DeviceRestarts
  <2>1. s3' = {} /\ s5' = TRUE /\ s8' = {}
    BY <1>8 DEF A!DeviceRestarts
  <2>2. ReminderTyped'
    BY <1>1, <1>2, <1>3, <1>5, <2>1 DEF ReminderTyped
  <2> QED  BY <1>4, <1>6, <2>1, <2>2 DEF ReminderInv, ReminderArmed
<1> QED  BY <1>7, <1>8

LEMMA ReminderKeeps == ReminderInv /\ A!ReminderNext => ReminderInv'
<1> SUFFICES ASSUME ReminderInv, A!ReminderNext PROVE ReminderInv'
  OBVIOUS
<1>1. ReminderTyped /\ ReminderWork
  BY DEF ReminderInv
<1>2. CASE A!Tick
  <2>1. s1' \in 0 .. MaxTime /\ s1 <= s1' /\ UNCHANGED <<s2, s3, s4, s5, s6, s7, s8, s9, s10, s11, s12>>
    BY <1>1, <1>2, ReminderNat DEF A!Tick, ReminderTyped
  <2>2. ReminderTyped' /\ ReminderWork'
    BY <1>1, <2>1 DEF ReminderTyped, ReminderWork, ReminderCounts
  <2>3. ASSUME NEW q \in A!Reminders PROVE (ReminderArmed(q) /\ ReminderShown(q))'
    <3>1. ReminderArmed(q) /\ ReminderShown(q) /\ q[2] \in Nat /\ s1 \in Nat /\ s1' \in Nat
      BY <1>1, <2>1, ReminderIs, ReminderNat DEF ReminderInv, ReminderTyped
    <3>2. q[2] <= s1 => q[2] <= s1'
      BY <2>1, <3>1
    <3> QED  BY <2>1, <3>1, <3>2 DEF ReminderArmed, ReminderShown, HasAlarm, ToArm
  <2> QED  BY <2>2, <2>3 DEF ReminderInv
<1>3. ASSUME NEW x \in Targets, A!TargetGoes(x) PROVE ReminderInv'
  <2>1. s6' = s6 \cup {x} /\ UNCHANGED <<s1, s2, s3, s4, s5, s7, s8, s9, s10, s11, s12>>
    BY <1>3 DEF A!TargetGoes
  <2>2. ReminderTyped' /\ ReminderWork'
    BY <1>1, <2>1 DEF ReminderTyped, ReminderWork, ReminderCounts
  <2>3. ASSUME NEW q \in A!Reminders PROVE (ReminderArmed(q) /\ ReminderShown(q))'
    BY <2>1 DEF ReminderInv, ReminderArmed, ReminderShown, HasAlarm, ToArm
  <2> QED  BY <2>2, <2>3 DEF ReminderInv
<1> QED  BY <1>2, <1>3, ReminderKeepsSet, ReminderKeepsClear, ReminderKeepsArm, ReminderKeepsDisarm,
            ReminderKeepsFires, ReminderKeepsShow, ReminderKeepsBootList, ReminderKeepsBootArms,
            ReminderKeepsLeft, ReminderKeepsUnused, ReminderKeepsUntitled,
            ReminderKeepsDeath DEF A!ReminderNext

LEMMA ReminderStarts == A!ReminderInit => ReminderInv
<1> SUFFICES ASSUME A!ReminderInit PROVE ReminderInv
  OBVIOUS
<1>1. /\ s1 = 0 /\ s2 = [r \in A!Reminders |-> "none"] /\ s3 = {}
      /\ s4 = [j \in Workers |-> A!Idle] /\ s5 = FALSE /\ s6 = {}
      /\ s7 = [r \in A!Reminders |-> 0] /\ s8 = {} /\ s9 = {} /\ s10 = 0 /\ s11 = 0 /\ s12 = 0
  BY DEF A!ReminderInit, Workers
<1>2. /\ s2 \in [A!Reminders -> {"none", "set", "fired"}] /\ s7 \in [A!Reminders -> 0 .. 1]
      /\ s4 \in [Workers -> ReminderJobs] /\ \A j \in Workers : s4[j] = A!Idle
  BY <1>1, ReminderIdle
<1>3. s1 \in 0 .. MaxTime /\ ReminderCounts
  BY <1>1, ReminderNat DEF ReminderCounts
<1>4. ReminderTyped
  BY <1>1, <1>2, <1>3 DEF ReminderTyped
<1>5. ReminderWork /\ s4["alarm"].rest = {}
  BY <1>2, ReminderIdle, WorkersAre DEF ReminderWork
<1>6. \A q \in A!Reminders : s2[q] = "none"
  BY <1>1
<1> QED  BY <1>4, <1>5, <1>6 DEF ReminderInv, ReminderArmed, ReminderShown

LEMMA ReminderGives == ReminderInv => A!ReminderTypeOK /\ A!RemindersSound
<1> SUFFICES ASSUME ReminderInv PROVE A!ReminderTypeOK /\ A!RemindersSound
  OBVIOUS
<1>1. ReminderTyped
  BY DEF ReminderInv
<1>2. s3 \subseteq [key : A!Reminders \cup Targets, time : A!Times]
  BY <1>1 DEF ReminderTyped, A!Reminders
<1>3. s7 \in [A!Reminders -> 0 .. 2] /\ \A r \in A!Reminders : s7[r] <= 1
  BY <1>1 DEF ReminderTyped
<1>4. s4 \in [A!Screens \cup A!Receivers ->
       [does : {"nothing", "arm", "disarm", "show", "rearm"}, rest : SUBSET A!Reminders]]
  BY <1>1 DEF ReminderTyped, ReminderJobs, Workers
<1>5. A!ReminderTypeOK
  BY <1>1, <1>2, <1>3, <1>4 DEF ReminderTyped, ReminderCounts, A!ReminderTypeOK
<1>6. A!Armed
  <2> SUFFICES ASSUME NEW r \in A!Unfired
               PROVE  \/ [key |-> A!AlarmKey(r), time |-> r[2]] \in s3 \/ s5 \/ r \in s8
                      \/ r \in A!Unarmed
    BY DEF A!Armed
  <2>1. r \in A!Reminders /\ s2[r] = "set"
    BY DEF A!Unfired
  <2>2. ReminderArmed(r) /\ (r \in A!Unarmed <=> ToArm(r))
    BY <1>1, <2>1, ReminderUnarmed DEF ReminderInv
  <2> QED  BY <2>1, <2>2 DEF ReminderArmed, HasAlarm, A!AlarmKey
<1>7. A!ShownOnce
  BY <1>3 DEF ReminderInv, ReminderShown, A!ShownOnce, A!Unshown
<1> QED  BY <1>5, <1>6, <1>7 DEF A!RemindersSound

-----------------------------------------------------------------------------
(* The groups a phone shares: s1 is the copies, s2 the two tasks, s3 who   *)
(* left, s4 whom the phone knows to have left, s5 and s6 the counts, s7 the*)
(* versions unheard of, s8 the last version reported as done.  The phone is*)
(* 2; 1 and 3 are the other devices.                                       *)

Groups == {G!None} \cup [rev : 1 .. 2, by : 1 .. 3, members : SUBSET (1 .. 3), name : {1, 2}]
Deliveries == [at : {"free", "apply", "deliver"}, group : Groups, to : SUBSET {1, 3}, got : BOOLEAN]

GroupTyped == /\ s1 \in [1 .. 3 -> Groups] /\ s2 \in [{"ui", "control"} -> Deliveries]
              /\ s3 \subseteq {1, 3} /\ s4 \subseteq s3 /\ s8 \in Groups

\* What the phone takes out of its copy it has applied before it delivers it.
GroupTasks ==
    /\ \A t \in {"ui", "control"} : s2[t].at # "free" => s2[t].group # G!None
    /\ s2["control"].at # "free" => s1[2] # G!None
    /\ s2["control"].at = "deliver" => ~G!Newer(s2["control"].group, s1[2])
    /\ s2["ui"].got => s2["ui"].at = "deliver" /\ \E n \in {1, 3} : s1[n] # G!None

GroupShared == s1[2] # G!None => \E n \in {1, 3} : s1[n] # G!None

\* A newer version of the phone's own elsewhere is one the user's edit delivered,
\* and the phone knows that it did.
GroupBehind ==
    \A n \in {1, 3} :
      /\ s1[n].by = 2 /\ G!Version(s1[n]) \notin s7 /\ G!Newer(s1[n], s1[2])
      => s2["ui"].got /\ G!Version(s2["ui"].group) = G!Version(s1[n])

GroupTold == ~G!Newer(s8, s1[2])

GroupInv == GroupTyped /\ GroupTasks /\ GroupShared /\ GroupBehind /\ GroupTold

LEMMA GroupIds == GroupNodes = 1 .. 3 /\ G!Devices = {1, 3} /\ G!Tasks = {"ui", "control"}
BY SharedAssumption DEF G!Devices, G!Tasks

LEMMA GroupNone == /\ G!None \in Groups /\ G!None.rev = 0 /\ G!None.by = 0 /\ G!None.members = {}
BY DEF G!None, Groups

LEMMA GroupFields ==
    ASSUME NEW g \in Groups
    PROVE  /\ g.rev \in 0 .. 2 /\ g.by \in 0 .. 3 /\ g.members \subseteq 1 .. 3
           /\ g # G!None => g.rev \in 1 .. 2 /\ g.by \in 1 .. 3 /\ g.name \in {1, 2}
           /\ g.members # {} => g # G!None
BY DEF G!None, Groups

\* Versions are in one order, and a device's copy only moves up in it.
LEMMA GroupOrder ==
    ASSUME NEW g \in Groups, NEW h \in Groups
    PROVE  /\ G!Taken(h, g) \in Groups /\ G!Taken(h, g) \in {g, h} /\ ~G!Newer(g, G!Taken(h, g))
           /\ \A k \in Groups : ~G!Newer(k, h) => ~G!Newer(k, G!Taken(h, g))
           /\ g # G!None \/ h # G!None => G!Taken(h, g) # G!None
           /\ G!Newer(g, h) => g # G!None /\ \A k \in Groups : ~G!Newer(k, h) => ~G!Newer(k, g)
           /\ ~G!Newer(g, g)
<1>1. \A k \in Groups : k.rev \in 0 .. 2 /\ k.by \in 0 .. 3 /\ (k # G!None => k.rev >= 1)
  BY GroupFields
<1> QED  BY <1>1, GroupNone DEF G!Taken, G!Newer

LEMMA GroupChanged ==
    ASSUME NEW g \in Groups, g.rev < 2, NEW n \in 1 .. 3, NEW Z \in SUBSET (1 .. 3), NEW k \in {1, 2}
    PROVE  /\ G!Changed(g, n, Z, k) \in Groups /\ G!Changed(g, n, Z, k) # G!None
           /\ G!Changed(g, n, Z, k).by = n /\ G!Changed(g, n, Z, k).rev = g.rev + 1
<1>1. g.rev + 1 \in 1 .. 2
  BY GroupFields
<1> QED  BY <1>1 DEF G!Changed, Groups, G!None

LEMMA GroupFree == G!Free \in Deliveries /\ G!Free.at = "free" /\ ~G!Free.got
<1>1. {} \in SUBSET {1, 3}
  OBVIOUS
<1> QED  BY <1>1, GroupNone DEF G!Free, Deliveries

LEMMA GroupEdits ==
    ASSUME NEW g \in Groups, g # G!None, NEW away, NEW h \in G!Edits(g, away)
    PROVE  h.rev = g.rev + 1 /\ h.by = 2 /\ (h.rev <= 2 => h \in Groups /\ h # G!None)
<1>1. g.members \subseteq 1 .. 3 /\ g.name \in {1, 2} /\ 3 - g.name \in {1, 2}
  BY GroupFields
<1>2. PICK Z \in SUBSET (1 .. 3), k \in {1, 2} : h = G!Changed(g, 2, Z, k)
  <2>1. h = G!Changed(g, 2, g.members, 3 - g.name) => \E Z \in SUBSET (1 .. 3), k \in {1, 2} : h = G!Changed(g, 2, Z, k)
    BY <1>1
  <2>2. ASSUME NEW n \in 1 .. 3, h = G!Changed(g, 2, g.members \cup {n}, g.name)
        PROVE  \E Z \in SUBSET (1 .. 3), k \in {1, 2} : h = G!Changed(g, 2, Z, k)
    <3>1. g.members \cup {n} \in SUBSET (1 .. 3)
      BY <1>1
    <3> QED  BY <1>1, <2>2, <3>1
  <2>3. ASSUME NEW n, h = G!Changed(g, 2, g.members \ {n}, g.name)
        PROVE  \E Z \in SUBSET (1 .. 3), k \in {1, 2} : h = G!Changed(g, 2, Z, k)
    <3>1. g.members \ {n} \in SUBSET (1 .. 3)
      BY <1>1
    <3> QED  BY <1>1, <2>3, <3>1
  <2>4. \/ h = G!Changed(g, 2, g.members, 3 - g.name)
        \/ \E n \in 1 .. 3 : h = G!Changed(g, 2, g.members \cup {n}, g.name)
        \/ \E n : h = G!Changed(g, 2, g.members \ {n}, g.name)
    BY GroupIds DEF G!Edits
  <2> QED  BY <2>1, <2>2, <2>3, <2>4
<1>3. h.rev = g.rev + 1 /\ h.by = 2
  BY <1>2 DEF G!Changed
<1>4. h.rev <= 2 => g.rev < 2
  BY <1>3, GroupFields
<1> QED  BY <1>2, <1>3, <1>4, GroupChanged

-----------------------------------------------------------------------------
(* Steps that change only the tasks.                                       *)

LEMMA GroupKeepsBegin ==
    ASSUME GroupInv, NEW g \in Groups, g # G!None, NEW to \in SUBSET (1 .. 3), G!Begin(g, to)
    PROVE  GroupInv'
<1> DEFINE w == [at |-> "deliver", group |-> g, to |-> (to \cup {1}) \ {2}, got |-> FALSE]
<1>1. GroupTyped
  BY DEF GroupInv
<1>2. s2["ui"] = G!Free /\ s2' = [s2 EXCEPT !["ui"] = w] /\ UNCHANGED <<s1, s3, s4, s5, s6, s7, s8>>
  BY Zenon DEF G!Begin, G!groupWorld
<1>3. w \in Deliveries /\ w.at = "deliver" /\ ~w.got /\ w.group = g
  <2>1. (to \cup {1}) \ {2} \in SUBSET {1, 3}
    OBVIOUS
  <2> QED  BY <2>1 DEF Deliveries
<1> HIDE DEF w
<1>4. s2' \in [{"ui", "control"} -> Deliveries] /\ s2'["ui"] = w /\ s2'["control"] = s2["control"]
  BY <1>1, <1>2, <1>3 DEF GroupTyped
<1>5. GroupTyped'
  BY <1>1, <1>2, <1>4 DEF GroupTyped
<1>6. GroupTasks'
  BY <1>2, <1>3, <1>4 DEF GroupInv, GroupTasks
<1>7. GroupBehind'
  BY <1>2, <1>3, <1>4, GroupFree DEF GroupInv, GroupBehind
<1> QED  BY <1>2, <1>5, <1>6, <1>7 DEF GroupInv, GroupShared, GroupTold

LEMMA GroupKeepsEdit == GroupInv /\ (G!Create \/ G!Update \/ G!Leave) => GroupInv'
<1> SUFFICES ASSUME GroupInv, G!Create \/ G!Update \/ G!Leave PROVE GroupInv'
  OBVIOUS
<1>1. GroupTyped /\ s1[2] \in Groups
  BY DEF GroupInv, GroupTyped
<1>2. CASE G!Create
  <2>1. PICK Z \in SUBSET {1, 3} : G!Begin(G!Changed(G!None, 2, Z \cup {2}, 1), Z)
    BY <1>2, GroupIds DEF G!Create
  <2>2. Z \cup {2} \in SUBSET (1 .. 3) /\ Z \in SUBSET (1 .. 3)
    OBVIOUS
  <2>3. G!Changed(G!None, 2, Z \cup {2}, 1) \in Groups /\ G!Changed(G!None, 2, Z \cup {2}, 1) # G!None
    BY <2>2, GroupNone, GroupChanged
  <2> QED  BY <2>1, <2>2, <2>3, GroupKeepsBegin
<1>3. CASE G!Update
  <2>1. 2 \in s1[2].members
    BY <1>3 DEF G!Update
  <2>2. PICK g \in G!Edits(s1[2], s4) : G!Begin(g, g.members \cup s1[2].members)
    BY <1>3 DEF G!Update
  <2>3. s1[2] # G!None
    BY <1>1, <2>1, GroupFields
  <2>4. g.rev <= 2
    BY <2>2 DEF G!Begin
  <2>5. g \in Groups /\ g # G!None
    BY <1>1, <2>3, <2>4, GroupEdits
  <2>6. g.members \cup s1[2].members \in SUBSET (1 .. 3)
    BY <1>1, <2>5, GroupFields
  <2> QED  BY <2>2, <2>5, <2>6, GroupKeepsBegin
<1>4. CASE G!Leave
  <2> DEFINE g == G!Changed(s1[2], 2, s1[2].members \ {2}, s1[2].name)
  <2>1. 2 \in s1[2].members /\ G!Begin(g, s1[2].members)
    BY <1>4, Zenon DEF G!Leave
  <2>2. s1[2] # G!None /\ s1[2].members \in SUBSET (1 .. 3) /\ s1[2].name \in {1, 2} /\ s1[2].rev \in 0 .. 2
    BY <1>1, <2>1, GroupFields
  <2>3. s1[2].rev + 1 <= 2
    BY <2>1 DEF G!Begin, G!Changed
  <2>4. s1[2].rev < 2 /\ s1[2].members \ {2} \in SUBSET (1 .. 3)
    BY <2>2, <2>3
  <2>5. g \in Groups /\ g # G!None
    BY <1>1, <2>2, <2>4, GroupChanged
  <2> HIDE DEF g
  <2> QED  BY <2>1, <2>2, <2>5, GroupKeepsBegin
<1> QED  BY <1>2, <1>3, <1>4

LEMMA GroupKeepsPrune == GroupInv /\ (G!PruneBegins \/ G!PruneEnds) => GroupInv'
<1> SUFFICES ASSUME GroupInv, G!PruneBegins \/ G!PruneEnds PROVE GroupInv'
  OBVIOUS
<1>1. GroupTyped /\ s1[2] \in Groups
  BY DEF GroupInv, GroupTyped
<1>2. PICK w \in Deliveries :
        /\ s2' = [s2 EXCEPT !["control"] = w] /\ UNCHANGED <<s1, s3, s5, s6, s7, s8>>
        /\ s4' \in {s3, s4}
        /\ w.at # "free" => w.at = "apply" /\ w.group # G!None /\ s1[2] # G!None
  <2>1. CASE G!PruneBegins
    <3> DEFINE w == [at |-> "apply", group |-> G!Pruned(s1[2]), to |-> s1[2].members \ (s3 \cup {2}),
                     got |-> FALSE]
    <3>1. /\ s2' = [s2 EXCEPT !["control"] = w] /\ UNCHANGED <<s1, s3, s5, s6, s7, s8>>
          /\ s4' = s3 /\ 2 \in s1[2].members /\ s1[2].rev < 2
      BY <2>1, Zenon DEF G!PruneBegins
    <3>2. s1[2] # G!None /\ s1[2].members \in SUBSET (1 .. 3) /\ s1[2].name \in {1, 2}
      BY <1>1, <3>1, GroupFields
    <3>3. s1[2].members \ s3 \in SUBSET (1 .. 3) /\ s1[2].members \ (s3 \cup {2}) \in SUBSET {1, 3}
      BY <3>2
    <3>4. G!Pruned(s1[2]) \in Groups /\ G!Pruned(s1[2]) # G!None
      BY <1>1, <3>1, <3>2, <3>3, GroupChanged DEF G!Pruned
    <3>5. w \in Deliveries /\ w.at = "apply" /\ w.group # G!None
      BY <3>3, <3>4 DEF Deliveries
    <3> HIDE DEF w
    <3> QED  BY <3>1, <3>2, <3>5
  <2>2. CASE G!PruneEnds
    BY <2>2, GroupFree, Zenon DEF G!PruneEnds, G!groupWorld
  <2> QED  BY <2>1, <2>2
<1>3. s2' \in [{"ui", "control"} -> Deliveries] /\ s2'["control"] = w /\ s2'["ui"] = s2["ui"]
  BY <1>1, <1>2 DEF GroupTyped
<1>4. GroupTyped'
  BY <1>1, <1>2, <1>3 DEF GroupTyped
<1>5. GroupTasks'
  BY <1>2, <1>3 DEF GroupInv, GroupTasks
<1>6. GroupBehind'
  BY <1>2, <1>3 DEF GroupInv, GroupBehind
<1> QED  BY <1>2, <1>4, <1>5, <1>6 DEF GroupInv, GroupShared, GroupTold

-----------------------------------------------------------------------------
(* Steps that change the phone's copy.                                     *)

LEMMA GroupKeepsCommit == GroupInv /\ G!Commit => GroupInv'
<1> SUFFICES ASSUME GroupInv, G!Commit PROVE GroupInv'
  OBVIOUS
<1> DEFINE g == s2["ui"].group
<1>1. GroupTyped /\ s1[2] \in Groups /\ g \in Groups
  BY DEF GroupInv, GroupTyped, Deliveries
<1>2. /\ s2["ui"].at = "deliver" /\ s2' = [s2 EXCEPT !["ui"] = G!Free] /\ UNCHANGED <<s3, s4, s5, s6, s7>>
      /\ \/ s2["ui"].got /\ s1' = [s1 EXCEPT ![2] = G!Taken(s1[2], g)] /\ s8' = g
         \/ ~s2["ui"].got /\ s1' = s1 /\ s8' = s8
  BY Zenon DEF G!Commit, G!CommitAllowed, G!groupWorld
<1> HIDE DEF g
<1>3. s2' \in [{"ui", "control"} -> Deliveries] /\ s2'["ui"] = G!Free /\ s2'["control"] = s2["control"]
  BY <1>1, <1>2, GroupFree DEF GroupTyped
<1>4. CASE ~s2["ui"].got
  <2>1. GroupTyped'
    BY <1>1, <1>2, <1>3, <1>4 DEF GroupTyped
  <2>2. GroupTasks'
    BY <1>2, <1>3, <1>4, GroupFree DEF GroupInv, GroupTasks
  <2>3. GroupBehind'
    BY <1>2, <1>4 DEF GroupInv, GroupBehind
  <2> QED  BY <1>2, <1>4, <2>1, <2>2, <2>3 DEF GroupInv, GroupShared, GroupTold
<1>5. CASE s2["ui"].got
  <2> DEFINE c == G!Taken(s1[2], g)
  <2>1. /\ c \in Groups /\ ~G!Newer(g, c) /\ (s1[2] # G!None => c # G!None)
        /\ \A k \in Groups : ~G!Newer(k, s1[2]) => ~G!Newer(k, c)
    BY <1>1, GroupOrder
  <2>2. s1' = [s1 EXCEPT ![2] = c] /\ s8' = g
    BY <1>2, <1>5
  <2> HIDE DEF c
  <2>3. s1' \in [1 .. 3 -> Groups] /\ s1'[2] = c /\ s1'[1] = s1[1] /\ s1'[3] = s1[3]
    BY <1>1, <2>1, <2>2 DEF GroupTyped
  <2>4. GroupTyped'
    BY <1>1, <1>2, <1>3, <2>2, <2>3 DEF GroupTyped
  <2>5. s2["control"].group \in Groups
    BY <1>1 DEF GroupTyped, Deliveries
  <2>6. GroupTasks'
    BY <1>3, <2>1, <2>3, <2>5, GroupFree DEF GroupInv, GroupTasks
  <2>7. \E n \in {1, 3} : s1[n] # G!None
    BY <1>5 DEF GroupInv, GroupTasks
  <2>8. GroupShared'
    BY <2>3, <2>7 DEF GroupShared
  <2>9. GroupBehind'
    <3> SUFFICES ASSUME NEW n \in {1, 3}, s1[n].by = 2, G!Version(s1[n]) \notin s7, G!Newer(s1[n], c)
                 PROVE  FALSE
      BY <1>2, <2>3 DEF GroupBehind
    <3>1. s1[n] \in Groups
      BY <1>1 DEF GroupTyped
    <3>2. G!Newer(s1[n], s1[2])
      BY <2>1, <3>1
    <3>3. G!Version(g) = G!Version(s1[n])
      BY <3>2 DEF GroupInv, GroupBehind, g
    <3>4. g.rev = s1[n].rev /\ g.by = s1[n].by
      BY <3>3 DEF G!Version
    <3>5. G!Newer(g, c)
      BY <3>4 DEF G!Newer
    <3> QED  BY <2>1, <3>5
  <2> QED  BY <2>1, <2>2, <2>3, <2>4, <2>6, <2>8, <2>9 DEF GroupInv, GroupTold
<1> QED  BY <1>4, <1>5

\* The phone's copy moves up, and a task may go on.
LEMMA GroupUp ==
    ASSUME GroupInv, NEW c \in Groups, s1' = [s1 EXCEPT ![2] = c],
           \A k \in Groups : ~G!Newer(k, s1[2]) => ~G!Newer(k, c),
           c # G!None => \E n \in {1, 3} : s1[n] # G!None,
           s1[2] # G!None => c # G!None,
           s2' \in [{"ui", "control"} -> Deliveries], s2'["ui"] = s2["ui"],
           s2'["control"].at # "free" => s2["control"].at # "free",
           s2'["control"].group = s2["control"].group,
           s2'["control"].at = "deliver" => s2["control"].at = "deliver" \/ ~G!Newer(s2["control"].group, c),
           UNCHANGED <<s3, s4, s7, s8>>
    PROVE  GroupInv'
<1>1. GroupTyped
  BY DEF GroupInv
<1>2. s1' \in [1 .. 3 -> Groups] /\ s1'[2] = c /\ s1'[1] = s1[1] /\ s1'[3] = s1[3]
  BY <1>1 DEF GroupTyped
<1>3. GroupTyped'
  BY <1>1, <1>2 DEF GroupTyped
<1>4. s2["control"].group \in Groups /\ s8 \in Groups
  BY <1>1 DEF GroupTyped, Deliveries
<1>5. GroupTasks'
  BY <1>2, <1>4 DEF GroupInv, GroupTasks
<1>6. GroupShared'
  BY <1>2 DEF GroupShared
<1>7. GroupBehind'
  <2>1. \A n \in {1, 3} : s1[n] \in Groups
    BY <1>1 DEF GroupTyped
  <2> QED  BY <1>2, <2>1 DEF GroupInv, GroupBehind
<1>8. GroupTold'
  BY <1>2, <1>4 DEF GroupInv, GroupTold
<1> QED  BY <1>3, <1>5, <1>6, <1>7, <1>8 DEF GroupInv

LEMMA GroupKeepsApply == GroupInv /\ G!PruneApplies => GroupInv'
<1> SUFFICES ASSUME GroupInv, G!PruneApplies PROVE GroupInv'
  OBVIOUS
<1> DEFINE g == s2["control"].group
           c == G!Taken(s1[2], g)
           w == [s2["control"] EXCEPT !.at = "deliver"]
<1>1. GroupTyped /\ s1[2] \in Groups /\ s2["control"] \in Deliveries /\ g \in Groups
  BY DEF GroupInv, GroupTyped, Deliveries
<1>2. /\ s2["control"].at = "apply" /\ s1' = [s1 EXCEPT ![2] = c]
      /\ s2' = [s2 EXCEPT !["control"] = w] /\ UNCHANGED <<s3, s4, s5, s6, s7, s8>>
  BY DEF G!PruneApplies, G!groupWorld
<1>3. /\ c \in Groups /\ ~G!Newer(g, c) /\ (s1[2] # G!None => c # G!None)
      /\ \A k \in Groups : ~G!Newer(k, s1[2]) => ~G!Newer(k, c)
  BY <1>1, GroupOrder
<1>4. w \in Deliveries /\ w.at = "deliver" /\ w.group = g
  BY <1>1 DEF Deliveries
<1>5. \E n \in {1, 3} : s1[n] # G!None
  BY <1>2 DEF GroupInv, GroupTasks, GroupShared
<1> HIDE DEF w, c
<1>6. s2' \in [{"ui", "control"} -> Deliveries] /\ s2'["ui"] = s2["ui"] /\ s2'["control"] = w
  BY <1>1, <1>2, <1>4 DEF GroupTyped
<1> QED  BY <1>2, <1>3, <1>4, <1>5, <1>6, GroupUp

LEMMA GroupKeepsReceive ==
    ASSUME GroupInv, NEW n \in {1, 3}, G!Receive(n)
    PROVE  GroupInv'
<1>1. GroupTyped /\ s1[2] \in Groups /\ s1[n] \in Groups
  BY DEF GroupInv, GroupTyped
<1>2. /\ s1[n] # G!None /\ G!Newer(s1[n], s1[2]) /\ s1' = [s1 EXCEPT ![2] = s1[n]]
      /\ UNCHANGED <<s2, s3, s4, s5, s6, s7, s8>>
  BY DEF G!Receive, G!groupWorld
<1>3. \A k \in Groups : ~G!Newer(k, s1[2]) => ~G!Newer(k, s1[n])
  BY <1>1, <1>2, GroupOrder
<1>4. s2' \in [{"ui", "control"} -> Deliveries]
  BY <1>1, <1>2 DEF GroupTyped
<1> QED  BY <1>1, <1>2, <1>3, <1>4, GroupUp

-----------------------------------------------------------------------------
(* Steps that change the copy of another device.                           *)

LEMMA GroupOthers ==
    ASSUME GroupInv, NEW n \in {1, 3}, NEW c \in Groups, s1' = [s1 EXCEPT ![n] = c],
           s1[n] # G!None => c # G!None,
           s2' \in [{"ui", "control"} -> Deliveries],
           \A t \in {"ui", "control"} : s2'[t].at = s2[t].at /\ s2'[t].group = s2[t].group,
           s2'["ui"].got => s2["ui"].got \/ (s2["ui"].at = "deliver" /\ c # G!None),
           s2["ui"].got => s2'["ui"].got,
           s7 \subseteq s7', UNCHANGED <<s4, s8>>, s3 \subseteq s3', s3' \subseteq {1, 3},
           c.by = 2 /\ G!Version(c) \notin s7' /\ G!Newer(c, s1[2]) =>
             \/ c = s1[n] \/ \E m \in {1, 3} : c = s1[m]
             \/ s2'["ui"].got /\ G!Version(s2'["ui"].group) = G!Version(c)
    PROVE  GroupInv'
<1>1. GroupTyped
  BY DEF GroupInv
<1>2. s1' \in [1 .. 3 -> Groups] /\ s1'[2] = s1[2] /\ \A m \in {1, 3} : s1'[m] = IF m = n THEN c ELSE s1[m]
  BY <1>1 DEF GroupTyped
<1>3. GroupTyped'
  BY <1>1, <1>2 DEF GroupTyped
<1>4. \A m \in {1, 3} : s1[m] # G!None => s1'[m] # G!None
  BY <1>2
<1>5. GroupTasks'
  <2>1. s2'["ui"].got => \E m \in {1, 3} : s1'[m] # G!None
    BY <1>2, <1>4 DEF GroupInv, GroupTasks
  <2> QED  BY <1>2, <2>1 DEF GroupInv, GroupTasks
<1>6. GroupShared' /\ GroupTold'
  BY <1>2, <1>4 DEF GroupInv, GroupShared, GroupTold
<1>7. GroupBehind'
  <2> SUFFICES ASSUME NEW m \in {1, 3}, s1'[m].by = 2, G!Version(s1'[m]) \notin s7', G!Newer(s1'[m], s1[2])
               PROVE  s2'["ui"].got /\ G!Version(s2'["ui"].group) = G!Version(s1'[m])
    BY <1>2 DEF GroupBehind
  <2>1. ASSUME NEW k \in {1, 3}, s1'[m] = s1[k]
        PROVE  s2'["ui"].got /\ G!Version(s2'["ui"].group) = G!Version(s1'[m])
    <3>1. s2["ui"].got /\ G!Version(s2["ui"].group) = G!Version(s1[k])
      BY <2>1 DEF GroupInv, GroupBehind
    <3> QED  BY <2>1, <3>1
  <2> QED  BY <1>2, <2>1
<1> QED  BY <1>3, <1>5, <1>6, <1>7 DEF GroupInv

LEMMA GroupKeepsDeliver ==
    ASSUME GroupInv, NEW t \in {"ui", "control"}, NEW n \in {1, 3}, G!Deliver(t, n) \/ G!NotDelivered(t, n)
    PROVE  GroupInv'
<1> DEFINE g == s2[t].group
           c == G!Taken(s1[n], g)
           w == [s2[t] EXCEPT !.to = s2[t].to \ {n}]
           v == [[s2[t] EXCEPT !.to = s2[t].to \ {n}] EXCEPT !.got = TRUE]
<1>1. GroupTyped /\ s1[n] \in Groups /\ s2[t] \in Deliveries /\ g \in Groups
  BY DEF GroupInv, GroupTyped, Deliveries
<1>2. /\ s2[t].at = "deliver" /\ UNCHANGED <<s3, s4, s5, s8>>
      /\ \/ s1' = [s1 EXCEPT ![n] = c] /\ s2' = [s2 EXCEPT ![t] = v] /\ s7' = s7
         \/ s1' = [s1 EXCEPT ![n] = c] /\ s2' = [s2 EXCEPT ![t] = w] /\ s7' = s7 \cup {G!Version(g)}
         \/ s1' = s1 /\ s2' = [s2 EXCEPT ![t] = w] /\ s7' = s7
  <2>1. CASE G!Deliver(t, n)
    <3>1. s2 = [s2 EXCEPT ![t] = s2[t]]
      BY <1>1 DEF GroupTyped
    <3>2. [s2 EXCEPT ![t].to = @ \ {n}, ![t].got = TRUE] = [s2 EXCEPT ![t] = v]
      BY <1>1 DEF GroupTyped
    <3>3. [s2 EXCEPT ![t].to = @ \ {n}] = [s2 EXCEPT ![t] = w]
      BY <1>1 DEF GroupTyped
    <3> HIDE DEF v, w
    <3> QED  BY <2>1, <3>2, <3>3, Zenon DEF G!Deliver
  <2>2. CASE G!NotDelivered(t, n)
    <3>1. [s2 EXCEPT ![t].to = @ \ {n}] = [s2 EXCEPT ![t] = w]
      BY <1>1 DEF GroupTyped
    <3> HIDE DEF v, w
    <3> QED  BY <2>2, <3>1, Zenon DEF G!NotDelivered, G!groupWorld
  <2> QED  BY <2>1, <2>2
<1>3. /\ w \in Deliveries /\ w.at = s2[t].at /\ w.group = g /\ w.got = s2[t].got
      /\ v \in Deliveries /\ v.at = s2[t].at /\ v.group = g /\ v.got
  <2>1. s2[t].to \ {n} \in SUBSET {1, 3}
    BY <1>1 DEF Deliveries
  <2> QED  BY <1>1, <2>1 DEF Deliveries
<1>4. g # G!None
  BY <1>2 DEF GroupInv, GroupTasks
<1>5. c \in Groups /\ c \in {g, s1[n]} /\ c # G!None
  BY <1>1, <1>4, GroupOrder
<1>6. t = "control" => ~G!Newer(g, s1[2])
  BY <1>2 DEF GroupInv, GroupTasks
<1> HIDE DEF w, v, c
<1>7. CASE s1' = [s1 EXCEPT ![n] = c] /\ s2' = [s2 EXCEPT ![t] = v] /\ s7' = s7
  <2>1. /\ s2' \in [{"ui", "control"} -> Deliveries]
        /\ \A u \in {"ui", "control"} : s2'[u] = IF u = t THEN v ELSE s2[u]
    BY <1>1, <1>3, <1>7 DEF GroupTyped
  <2>2. /\ \A u \in {"ui", "control"} : s2'[u].at = s2[u].at /\ s2'[u].group = s2[u].group
        /\ s2'["ui"].got => s2["ui"].got \/ s2["ui"].at = "deliver"
        /\ s2["ui"].got => s2'["ui"].got
    BY <1>2, <1>3, <2>1
  <2>3. G!Newer(c, s1[2]) =>
          \/ c = s1[n]
          \/ s2'["ui"].got /\ G!Version(s2'["ui"].group) = G!Version(c)
    BY <1>3, <1>5, <1>6, <2>1
  <2> QED  BY <1>1, <1>2, <1>5, <1>7, <2>1, <2>2, <2>3, GroupOthers DEF GroupTyped
<1>8. CASE s1' = [s1 EXCEPT ![n] = c] /\ s2' = [s2 EXCEPT ![t] = w] /\ s7' = s7 \cup {G!Version(g)}
  <2>1. /\ s2' \in [{"ui", "control"} -> Deliveries]
        /\ \A u \in {"ui", "control"} : s2'[u] = IF u = t THEN w ELSE s2[u]
    BY <1>1, <1>3, <1>8 DEF GroupTyped
  <2>2. \A u \in {"ui", "control"} : /\ s2'[u].at = s2[u].at /\ s2'[u].group = s2[u].group
                                     /\ s2'[u].got = s2[u].got
    BY <1>3, <2>1
  <2>3. G!Version(c) \notin s7' => c = s1[n]
    BY <1>5, <1>8
  <2> QED  BY <1>1, <1>2, <1>5, <1>8, <2>1, <2>2, <2>3, GroupOthers DEF GroupTyped
<1>9. CASE s1' = s1 /\ s2' = [s2 EXCEPT ![t] = w] /\ s7' = s7
  <2>1. /\ s2' \in [{"ui", "control"} -> Deliveries]
        /\ \A u \in {"ui", "control"} : s2'[u] = IF u = t THEN w ELSE s2[u]
    BY <1>1, <1>3, <1>9 DEF GroupTyped
  <2>2. \A u \in {"ui", "control"} : /\ s2'[u].at = s2[u].at /\ s2'[u].group = s2[u].group
                                     /\ s2'[u].got = s2[u].got
    BY <1>3, <2>1
  <2>3. s1' = [s1 EXCEPT ![n] = s1[n]]
    BY <1>1, <1>9 DEF GroupTyped
  <2> QED  BY <1>1, <1>2, <1>9, <2>1, <2>2, <2>3, GroupOthers DEF GroupTyped
<1> QED  BY <1>2, <1>7, <1>8, <1>9

LEMMA GroupKeepsDesktops ==
    ASSUME GroupInv, NEW n \in {1, 3}, G!DesktopEdits(n) \/ \E m \in {1, 3} : G!DesktopsGossip(n, m)
    PROVE  GroupInv'
<1>1. GroupTyped /\ \A m \in {1, 3} : s1[m] \in Groups
  BY DEF GroupInv, GroupTyped
<1>2. CASE G!DesktopEdits(n)
  <2>1. n \in s1[n].members /\ s1[n].rev < 2 /\ UNCHANGED <<s2, s3, s4, s6, s7, s8>>
    BY <1>2 DEF G!DesktopEdits
  <2>2. PICK g \in G!Edits(s1[n], s3) : s1' = [s1 EXCEPT ![n] = [g EXCEPT !.by = n]]
    BY <1>2 DEF G!DesktopEdits
  <2>3. s1[n] # G!None /\ s1[n].rev \in 0 .. 2
    BY <1>1, <2>1, GroupFields
  <2>4. g \in Groups /\ g # G!None
    <3>1. g.rev = s1[n].rev + 1 /\ (g.rev <= 2 => g \in Groups /\ g # G!None)
      BY <1>1, <2>3, GroupEdits
    <3> QED  BY <2>1, <2>3, <3>1
  <2> DEFINE c == [g EXCEPT !.by = n]
  <2>5. c \in Groups /\ c # G!None /\ c.by = n
    <3>1. g \in [rev : 1 .. 2, by : 1 .. 3, members : SUBSET (1 .. 3), name : {1, 2}]
      BY <2>4 DEF Groups
    <3>2. c \in [rev : 1 .. 2, by : 1 .. 3, members : SUBSET (1 .. 3), name : {1, 2}] /\ c.by = n
      BY <3>1
    <3> HIDE DEF c
    <3> QED  BY <3>2, GroupNone DEF Groups
  <2> HIDE DEF c
  <2>6. s2' \in [{"ui", "control"} -> Deliveries] /\ s3' \subseteq {1, 3} /\ c.by # 2 /\ s1' = [s1 EXCEPT ![n] = c]
    BY <1>1, <2>1, <2>2, <2>5 DEF GroupTyped, c
  <2> QED  BY <2>1, <2>5, <2>6, GroupOthers
<1>3. ASSUME NEW m \in {1, 3}, G!DesktopsGossip(n, m) PROVE GroupInv'
  <2>1. G!Newer(s1[n], s1[m]) /\ s1' = [s1 EXCEPT ![m] = s1[n]] /\ UNCHANGED <<s2, s3, s4, s5, s6, s7, s8>>
    BY <1>3 DEF G!DesktopsGossip, G!groupWorld
  <2>2. s1[n] # G!None /\ s1[n] \in Groups
    BY <1>1, <2>1, GroupOrder
  <2>3. s2' \in [{"ui", "control"} -> Deliveries] /\ s3' \subseteq {1, 3}
    BY <1>1, <2>1 DEF GroupTyped
  <2> QED  BY <2>1, <2>2, <2>3, GroupOthers
<1> QED  BY <1>2, <1>3

LEMMA GroupKeepsRest == GroupInv /\ (G!Dies \/ \E n \in {1, 3} : G!Departs(n)) => GroupInv'
<1> SUFFICES ASSUME GroupInv, G!Dies \/ \E n \in {1, 3} : G!Departs(n) PROVE GroupInv'
  OBVIOUS
<1>1. GroupTyped
  BY DEF GroupInv
<1>2. CASE G!Dies
  <2>1. /\ s2' = [t \in {"ui", "control"} |-> G!Free] /\ s4' = {} /\ UNCHANGED <<s1, s3, s5, s8>>
        /\ s7' = s7 \cup {G!Version(s2[t].group) : t \in {"ui", "control"}}
    BY <1>2, GroupIds DEF G!Dies
  <2>2. s2' \in [{"ui", "control"} -> Deliveries] /\ \A t \in {"ui", "control"} : s2'[t] = G!Free
    BY <2>1, GroupFree
  <2>3. GroupTyped'
    BY <1>1, <2>1, <2>2 DEF GroupTyped
  <2>4. GroupTasks'
    BY <2>2, GroupFree DEF GroupTasks
  <2>5. GroupBehind'
    <3>1. s7 \subseteq s7' /\ G!Version(s2["ui"].group) \in s7'
      BY <2>1
    <3> QED  BY <2>1, <3>1 DEF GroupInv, GroupBehind
  <2> QED  BY <2>1, <2>3, <2>4, <2>5 DEF GroupInv, GroupShared, GroupTold
<1>3. ASSUME NEW n \in {1, 3}, G!Departs(n) PROVE GroupInv'
  <2>1. s3' = s3 \cup {n} /\ UNCHANGED <<s1, s2, s4, s5, s6, s7, s8>>
    BY <1>3 DEF G!Departs
  <2> QED  BY <1>1, <2>1 DEF GroupInv, GroupTyped, GroupTasks, GroupShared, GroupBehind, GroupTold
<1> QED  BY <1>2, <1>3

LEMMA GroupKeeps == GroupInv /\ G!GroupNext => GroupInv'
<1> SUFFICES ASSUME GroupInv, G!GroupNext PROVE GroupInv'
  OBVIOUS
<1>1. \/ G!Create \/ G!Update \/ G!Leave \/ G!Commit \/ G!PruneBegins \/ G!PruneApplies \/ G!PruneEnds \/ G!Dies
      \/ \E n \in {1, 3} : \/ G!Receive(n) \/ G!DesktopEdits(n) \/ G!Departs(n)
                           \/ \E t \in {"ui", "control"} : G!Deliver(t, n) \/ G!NotDelivered(t, n)
                           \/ \E m \in {1, 3} : G!DesktopsGossip(n, m)
  BY GroupIds, Zenon DEF G!GroupNext
<1> QED  BY <1>1, GroupKeepsEdit, GroupKeepsPrune, GroupKeepsCommit, GroupKeepsApply, GroupKeepsReceive,
            GroupKeepsDeliver, GroupKeepsDesktops, GroupKeepsRest

LEMMA GroupStarts == G!GroupInit => GroupInv
<1> SUFFICES ASSUME G!GroupInit PROVE GroupInv
  OBVIOUS
<1>1. /\ s1 = [n \in 1 .. 3 |-> G!None] /\ s2 = [t \in {"ui", "control"} |-> G!Free]
      /\ s3 = {} /\ s4 = {} /\ s7 = {} /\ s8 = G!None
  BY GroupIds DEF G!GroupInit
<1>2. s1 \in [1 .. 3 -> Groups] /\ \A n \in 1 .. 3 : s1[n] = G!None
  BY <1>1, GroupNone
<1>3. s2 \in [{"ui", "control"} -> Deliveries] /\ \A t \in {"ui", "control"} : s2[t] = G!Free
  BY <1>1, GroupFree
<1>4. GroupTyped
  BY <1>1, <1>2, <1>3, GroupNone DEF GroupTyped
<1>5. ~G!Newer(G!None, G!None)
  BY GroupNone, GroupOrder
<1> QED  BY <1>1, <1>2, <1>3, <1>4, <1>5, GroupFree
         DEF GroupInv, GroupTasks, GroupShared, GroupBehind, GroupTold

LEMMA GroupGives == GroupInv => G!GroupTypeOK /\ G!GroupsSound
<1> SUFFICES ASSUME GroupInv PROVE G!GroupTypeOK /\ G!GroupsSound
  OBVIOUS
<1>1. GroupTyped /\ \A n \in 1 .. 3 : s1[n] \in Groups
  BY DEF GroupInv, GroupTyped
<1>2. G!GroupTypeOK
  <2>1. \A n \in GroupNodes : s1[n].rev \in 0 .. 2 /\ s1[n].by \in GroupNodes \cup {0}
    BY <1>1, GroupIds, GroupFields
  <2>2. \A t \in G!Tasks : s2[t].to \subseteq G!Devices
    BY <1>1, GroupIds DEF GroupTyped, Deliveries
  <2> QED  BY <1>1, <2>1, <2>2, GroupIds DEF G!GroupTypeOK, GroupTyped
<1>3. G!NoGhostGroup
  <2>1. \A n \in {1, 3} : s1[n] # G!None => s1[n].rev >= 1
    BY <1>1, GroupFields
  <2> QED  BY <2>1, GroupIds DEF GroupInv, GroupShared, G!NoGhostGroup
<1>4. G!AuthorNotBehind
  BY GroupIds DEF GroupInv, GroupBehind, G!AuthorNotBehind
<1> QED  BY <1>2, <1>3, <1>4 DEF GroupInv, GroupTold, G!GroupsSound, G!ToldIsStored

-----------------------------------------------------------------------------
(* All parts: each invariant stays while nothing moves, and the part chosen *)
(* is the one that moves.                                                   *)

SharedInv == /\ part = "lock" => Typed
             /\ part = "feed" => FeedInv
             /\ part = "row" => RowInv
             /\ part = "cache" => CacheInv
             /\ part = "sheet" => SheetInv
             /\ part = "store" => StoreInv
             /\ part = "shelf" => ShelfInv
             /\ part = "local" => LocalInv
             /\ part = "reminders" => ReminderInv
             /\ part = "groups" => GroupInv

Registers == <<s1, s2, s3, s4, s5, s6, s7, s8, s9, s10, s11, s12>>

LEMMA FeedRests == ASSUME FeedInv, UNCHANGED Registers PROVE FeedInv'
<1>1. UNCHANGED <<s1, s2, s3, s4, s5, s6, s7, s8, s9, s10>>
  BY DEF Registers
<1>2. FeedTyped'
  BY <1>1 DEF FeedInv, FeedTyped, F!TypeOK
<1>3. F!Want' = F!Want
  BY <1>1 DEF F!Want, F!View, F!Sees
<1>4. FeedQuiet'
  BY <1>1, <1>3 DEF FeedInv, FeedQuiet, FeedAnswer
<1> QED  BY <1>2, <1>4 DEF FeedInv

LEMMA RowRests == ASSUME RowInv, UNCHANGED Registers PROVE RowInv'
BY DEF Registers, RowInv, RowTyped, RowCalm, R!TypeOK

LEMMA CacheRests == ASSUME CacheInv, UNCHANGED Registers PROVE CacheInv'
<1>1. UNCHANGED <<s1, s2, s3, s4, s5, s6, s7, s8>>
  BY DEF Registers
<1>2. CacheTyped'
  BY <1>1, Zenon DEF CacheInv, CacheTyped, CacheLate, CacheLinked
<1>3. C!Existing' = C!Existing
  BY <1>1, Zenon DEF C!Existing, C!Exists
<1>4. CacheTrue'
  BY <1>1, <1>3 DEF CacheInv, CacheTrue
<1>5. CacheDueAnswer' = CacheDueAnswer
  BY <1>1, <1>3, Zenon DEF CacheDueAnswer, CacheListed, CacheContent, CacheNext
<1>6. CacheWire'
  BY <1>1, <1>5 DEF CacheInv, CacheWire
<1>7. CacheFilled'
  BY <1>1, <1>3 DEF CacheInv, CacheFilled, CacheSame
<1> QED  BY <1>2, <1>4, <1>6, <1>7 DEF CacheInv

LEMMA SheetRests == ASSUME SheetInv, UNCHANGED Registers PROVE SheetInv'
<1>1. UNCHANGED <<s1, s2, s3, s4, s5, s6>>
  BY DEF Registers
<1>2. SheetTyped'
  BY <1>1, Zenon DEF SheetInv, SheetTyped
<1>3. SheetKnown' /\ SheetBlank'
  BY <1>1, Zenon DEF SheetInv, SheetKnown, SheetBlank, SheetKnows
<1> QED  BY <1>2, <1>3 DEF SheetInv

LEMMA StoreRests == ASSUME StoreInv, UNCHANGED Registers PROVE StoreInv'
BY DEF Registers, StoreInv, StoreTyped, StoreFile, StoreOpener, O!Latest, O!Steps

LEMMA ShelfRests == ASSUME ShelfInv, UNCHANGED Registers PROVE ShelfInv'
<1>1. UNCHANGED <<s1, s2, s3, s4, s5, s6, s7, s8, s9, s10>>
  BY DEF Registers
<1>2. ShelfTyped' /\ (\A m \in Memos : ShelfRow(m)') /\ ShelfApart'
  BY <1>1 DEF ShelfInv, ShelfTyped, ShelfRow, ShelfApart
<1>3. ShelfKnown'
  BY <1>1 DEF ShelfInv, ShelfKnown, KnownRow, SameRow, AboutMemo
<1>4. ShelfListed' => ShelfRight' /\ ShelfFiled'
  BY <1>1 DEF ShelfInv, ShelfListed, ShelfRight, TrueRow, TrueOrAwaited, SeenByMember, SameRow, AboutMemo,
              ShelfFiled, AboutFolders
<1> QED  BY <1>1, <1>2, <1>3, <1>4 DEF ShelfInv

LEMMA LocalRests == ASSUME LocalInv, UNCHANGED Registers PROVE LocalInv'
<1>1. UNCHANGED <<s1, s2, s3, s4, s5, s6, s7, s8>>
  BY DEF Registers
<1>2. LocalTyped' /\ LocalFiled'
  BY <1>1, Zenon DEF LocalInv, LocalTyped, LocalFiled, L!FolderThere
<1>3. LocalWatched' /\ L!FiredOnce'
  BY <1>1, Zenon DEF LocalInv, LocalWatched, L!FiredOnce
<1>4. LocalLeft'
  BY <1>1, Zenon DEF LocalInv, LocalLeft, LocalDeletes, L!HasReminder
<1> QED  BY <1>2, <1>3, <1>4 DEF LocalInv

LEMMA ReminderRests == ASSUME ReminderInv, UNCHANGED Registers PROVE ReminderInv'
BY Zenon DEF Registers, ReminderInv, ReminderTyped, ReminderWork, ReminderCounts, ReminderArmed, ReminderShown,
             ToArm, HasAlarm

LEMMA GroupRests == ASSUME GroupInv, UNCHANGED Registers PROVE GroupInv'
BY Zenon DEF Registers, GroupInv, GroupTyped, GroupTasks, GroupShared, GroupBehind, GroupTold

LEMMA SharedStarts == SharedInit => SharedInv
BY TypedInit, FeedStarts, RowStarts, CacheStarts, SheetStarts, StoreStarts, ShelfStarts, LocalStarts,
   ReminderStarts, GroupStarts
DEF SharedInit, SharedInv

LEMMA SharedKeeps == SharedInv /\ [SharedNext]_allVars => SharedInv'
<1> SUFFICES ASSUME SharedInv, [SharedNext]_allVars PROVE SharedInv'
  OBVIOUS
<1>1. ASSUME UNCHANGED allVars PROVE SharedInv'
  <2>1. UNCHANGED part /\ UNCHANGED lockVars /\ UNCHANGED Registers
    BY <1>1 DEF allVars, After3, After6, After8, After10, Registers
  <2>2. Typed => Typed'
    BY <2>1, TypedStep
  <2> QED  BY <2>1, <2>2, FeedRests, RowRests, CacheRests, SheetRests, StoreRests, ShelfRests, LocalRests,
              ReminderRests, GroupRests
           DEF SharedInv
<1>2. ASSUME SharedNext PROVE SharedInv'
  <2>1. CASE LockStep
    BY <1>2, <2>1, TypedStep DEF SharedNext, LockStep, SharedInv
  <2>2. CASE FeedStep
    BY <1>2, <2>2, FeedKeeps DEF SharedNext, FeedStep, SharedInv
  <2>3. CASE SheetStep
    BY <1>2, <2>3, SheetKeeps DEF SharedNext, SheetStep, SharedInv
  <2>4. CASE RowStep
    BY <1>2, <2>4, RowFeedKeeps DEF SharedNext, RowStep, SharedInv
  <2>5. CASE StoreStep
    BY <1>2, <2>5, StoreKeeps DEF SharedNext, StoreStep, SharedInv
  <2>6. CASE ShelfStep
    BY <1>2, <2>6, ShelfKeeps DEF SharedNext, ShelfStep, SharedInv
  <2>7. CASE CacheStep
    BY <1>2, <2>7, CacheKeeps DEF SharedNext, CacheStep, SharedInv
  <2>8. CASE LocalStep
    BY <1>2, <2>8, LocalKeeps DEF SharedNext, LocalStep, SharedInv
  <2>9. CASE DiffStep
    BY <1>2, <2>9 DEF SharedNext, DiffStep, SharedInv
  <2>10. CASE RemindersStep
    BY <1>2, <2>10, ReminderKeeps DEF SharedNext, RemindersStep, SharedInv
  <2>11. CASE GroupsStep
    BY <1>2, <2>11, GroupKeeps DEF SharedNext, GroupsStep, SharedInv
  <2> QED  BY <1>2, <2>1, <2>2, <2>3, <2>4, <2>5, <2>6, <2>7, <2>8, <2>9, <2>10, <2>11 DEF SharedNext
<1> QED  BY <1>1, <1>2

\* The state of the part that moves has its type, whatever the number of members,
\* memos, openers, devices and faults (all operations of these parts).
THEOREM SharedTypes == SharedSpec => []SharedTypeOK
<1>1. SharedInv => SharedTypeOK
  BY FeedGives, RowGives, CacheGives, SheetGives, StoreGives, ShelfGives, LocalGives, ReminderGives, GroupGives
  DEF SharedInv, SharedTypeOK, Typed
<1> QED  BY SharedStarts, SharedKeeps, <1>1, PTL DEF SharedSpec

\* Caches, sheets, stores, folders and links, local memos, reminders and the
\* groups of a phone are sound, each as SharedSound says (sync_scope_feed,
\* sync_sheets, replace_schedule_rows, sheet_write, migrate, resolve_titles,
\* folder_delete, due_reminders, setReminder, commit_group).
THEOREM SharedPartsSound == SharedSpec => []SharedSound
<1>1. SharedInv => SharedSound
  BY FeedGives, RowGives, CacheGives, SheetGives, StoreGives, ShelfGives, LocalGives, ReminderGives, GroupGives
  DEF SharedInv, SharedSound, B!ShelfSound
<1> QED  BY SharedStarts, SharedKeeps, <1>1, PTL DEF SharedSpec
=============================================================================
