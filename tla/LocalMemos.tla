----------------------------- MODULE LocalMemos -----------------------------
(***************************************************************************)
(* The personal memos of one device (MemoStore, peercove-memo/src/lib.rs): *)
(* memos with their trash, folders, titles and links, and the reminders.   *)
(*                                                                         *)
(* Every request opens the store, which first purges what has been in the  *)
(* trash for thirty days, and applies one operation; requests run on       *)
(* threads of their own (daemon.rs, IpcRequest::Memo), so they interleave. *)
(* An operation in one transaction is one step here.  Three are not:       *)
(* DeleteForever deletes the memo, then its reminders; ReminderSet counts, *)
(* then inserts; FolderCreate looks for the name, then inserts.            *)
(* ReminderTakeDue reads and then marks in one transaction: when somebody  *)
(* wrote in between, the second statement fails and nothing is taken.      *)
(*                                                                         *)
(* Abstracted: tags, pins, the archive, sorting and full-text search only  *)
(* choose what a list shows.  A title is one of four values: "Plan" is as  *)
(* long as a title may be and differs from "plan" only in case.            *)
(***************************************************************************)
EXTENDS Naturals, FiniteSets

CONSTANTS Memos, Folders, Names, Requests, MaxTime, Most, MaxOps

(* No folder has the name that says there is none.                         *)
NoFolder == "none"
LocalAssumption == /\ MaxTime \in Nat /\ Most \in Nat /\ MaxOps \in Nat
                   /\ NoFolder \notin Names

VARIABLES memo,     \* the memos table, by memo
          folder,   \* the folders table: the name of each folder
          remind,   \* the reminders table, by memo and time
          now,      \* the clock
          work,     \* what each running request still has to do
          ops,      \* operations so far, at most MaxOps
          taken,    \* times a reminder was handed out since it was last set
          excused   \* memos whose reminders were left behind by a known way

localVars == <<memo, folder, remind, now, work, ops, taken, excused>>

Titles == {"", "plan", "Plan", "copy"}
Times == 1..MaxTime
Idle == [kind |-> "idle"]
Gone(x) == memo[x].life = "gone"

LocalTypeOK ==
  /\ memo \in [Memos -> [life : {"absent", "live", "trash", "expired", "gone"},
                         title : Titles, link : Titles,
                         folder : Folders \cup {NoFolder}]]
  /\ folder \in [Folders -> Names \cup {NoFolder}]
  /\ remind \in [Memos \X Times -> {"none", "set", "fired"}]
  /\ now \in 0..MaxTime /\ ops \in 0..MaxOps
  /\ taken \in [Memos \X Times -> Nat] /\ excused \subseteq Memos

LocalInit ==
  /\ memo = [x \in Memos |-> [life |-> "absent", title |-> "", link |-> "",
                              folder |-> NoFolder]]
  /\ folder = [f \in Folders |-> NoFolder]
  /\ remind = [r \in Memos \X Times |-> "none"]
  /\ now = 0 /\ ops = 0
  /\ work = [p \in Requests |-> Idle]
  /\ taken = [r \in Memos \X Times |-> 0]
  /\ excused = {}

(* open: what the trash has kept for thirty days is deleted; the reminders *)
(* of those memos are not.                                                 *)
Purged == [x \in Memos |-> IF memo[x].life = "expired"
                             THEN [memo[x] EXCEPT !.life = "gone"] ELSE memo[x]]

HasReminder(x) == \E t \in Times : remind[x, t] # "none"

LeftByPurge == {x \in Memos : memo[x].life = "expired" /\ HasReminder(x)}

(* One request: it opens the store, and may write.  A write makes what the *)
(* takers have read stale.                                                 *)
Request == /\ ops < MaxOps /\ ops' = ops + 1
           /\ UNCHANGED now
Stale(w) == [p \in Requests |-> IF w[p].kind = "take"
                                  THEN [w[p] EXCEPT !.stale = TRUE] ELSE w[p]]
Wrote == work' = Stale(work)

InUse(x) == Purged[x].life \in {"live", "trash"}
FolderThere(f) == f \in {NoFolder} \cup {g \in Folders : folder[g] # NoFolder}

(* create; folder_id is checked in the transaction that inserts.           *)
Insert(x, title, link, f) ==
  /\ memo[x].life = "absent" /\ FolderThere(f)
  /\ memo' = [Purged EXCEPT ![x] = [life |-> "live", title |-> title,
                                    link |-> link, folder |-> f]]
  /\ excused' = excused \cup LeftByPurge
  /\ UNCHANGED <<folder, remind, taken>>

Create(x) == /\ Request /\ Wrote
             /\ \E title, link \in Titles, f \in Folders \cup {NoFolder} :
                  Insert(x, title, link, f)

(* update: memos in the trash can be changed too.                          *)
Update(x) == /\ Request /\ Wrote /\ InUse(x)
             /\ \/ \E title, link \in Titles :
                     memo' = [Purged EXCEPT ![x].title = title, ![x].link = link]
                \/ \E f \in Folders \cup {NoFolder} :
                     FolderThere(f) /\ memo' = [Purged EXCEPT ![x].folder = f]
             /\ excused' = excused \cup LeftByPurge
             /\ UNCHANGED <<folder, remind, taken>>

(* duplicate: the copy is live, in the same folder; the first characters of*)
(* the title and its suffix are kept, up to the limit of a title.          *)
CopyTitle(t) == IF t = "Plan" THEN "Plan" ELSE "copy"

Duplicate(x, y) == /\ Request /\ Wrote /\ InUse(x)
                   /\ Insert(y, CopyTitle(memo[x].title), memo[x].link, memo[x].folder)

Move(x, from, to) == /\ Request /\ Wrote
                     /\ Purged[x].life = from
                     /\ memo' = [Purged EXCEPT ![x].life = to]
                     /\ excused' = excused \cup LeftByPurge
                     /\ UNCHANGED <<folder, remind, taken>>

Trash(x) == Move(x, "live", "trash")
Restore(x) == Move(x, "trash", "live")

(* Thirty days later.                                                      *)
Expire(x) == /\ memo[x].life = "trash"
             /\ memo' = [memo EXCEPT ![x].life = "expired"]
             /\ UNCHANGED <<folder, remind, now, work, ops, taken, excused>>

(* DeleteForever, first and second statement.                              *)
DeleteForever(p, x) ==
  /\ work[p] = Idle /\ Request
  /\ Purged[x].life = "trash"
  /\ memo' = [Purged EXCEPT ![x].life = "gone"]
  /\ work' = [Stale(work) EXCEPT ![p] = [kind |-> "delete", memo |-> x]]
  /\ excused' = excused \cup LeftByPurge
  /\ UNCHANGED <<folder, remind, taken>>

Without(X) == [r \in Memos \X Times |-> IF r[1] \in X THEN "none" ELSE remind[r]]

DeleteReminders(p) ==
  /\ work[p].kind = "delete"
  /\ remind' = Without({work[p].memo})
  /\ work' = [Stale(work) EXCEPT ![p] = Idle]
  /\ UNCHANGED <<memo, folder, now, ops, taken, excused>>

(* EmptyTrash: the reminders of what is in the trash, then the memos, in   *)
(* one transaction.                                                        *)
InTrash(m) == {x \in Memos : m[x].life = "trash"}

EmptyTrashMemosFirst ==
  /\ Request /\ Wrote
  /\ memo' = [x \in Memos |-> IF x \in InTrash(Purged)
                                THEN [memo[x] EXCEPT !.life = "gone"] ELSE Purged[x]]
  /\ remind' = Without(InTrash(memo'))
  /\ excused' = excused \cup LeftByPurge
  /\ UNCHANGED <<folder, taken>>

EmptyTrash ==
  /\ Request /\ Wrote
  /\ remind' = Without(InTrash(Purged))
  /\ memo' = [x \in Memos |-> IF x \in InTrash(Purged)
                                THEN [memo[x] EXCEPT !.life = "gone"] ELSE Purged[x]]
  /\ excused' = excused \cup LeftByPurge
  /\ UNCHANGED <<folder, taken>>

(* Any request that is refused or only reads still opens the store.        *)
OpenOnly ==
  /\ Request /\ Wrote
  /\ memo # Purged /\ memo' = Purged
  /\ excused' = excused \cup LeftByPurge
  /\ UNCHANGED <<folder, remind, taken>>

(* folder_create: the name is looked for, then the folder is inserted.     *)
FolderLook(p, n) ==
  /\ work[p] = Idle /\ Request
  /\ \A f \in Folders : folder[f] # n
  /\ work' = [work EXCEPT ![p] = [kind |-> "folder", name |-> n]]
  /\ memo' = Purged /\ excused' = excused \cup LeftByPurge
  /\ UNCHANGED <<folder, remind, taken>>

FolderInsert(p, f) ==
  /\ work[p].kind = "folder" /\ folder[f] = NoFolder
  /\ folder' = [folder EXCEPT ![f] = work[p].name]
  /\ work' = [Stale(work) EXCEPT ![p] = Idle]
  /\ UNCHANGED <<memo, remind, now, ops, taken, excused>>

FolderRename(f, n) ==
  /\ Request /\ Wrote /\ folder[f] # NoFolder
  /\ folder' = [folder EXCEPT ![f] = n]
  /\ memo' = Purged /\ excused' = excused \cup LeftByPurge
  /\ UNCHANGED <<remind, taken>>

(* FolderDelete: its memos, those in the trash too, get no folder.         *)
FolderDelete(f) ==
  /\ Request /\ Wrote /\ folder[f] # NoFolder
  /\ folder' = [folder EXCEPT ![f] = NoFolder]
  /\ memo' = [x \in Memos |-> IF memo[x].folder = f
                                THEN [Purged[x] EXCEPT !.folder = NoFolder] ELSE Purged[x]]
  /\ excused' = excused \cup LeftByPurge
  /\ UNCHANGED <<remind, taken>>

(* reminder_set: not in the past, and at most Most other rows for the memo,*)
(* which need not exist; fired rows count.                                 *)
Others(x, t) == {u \in Times \ {t} : remind[x, u] # "none"}

ReminderCount(p, x, t) ==
  /\ work[p] = Idle /\ Request
  /\ t > now /\ Cardinality(Others(x, t)) < Most
  /\ work' = [work EXCEPT ![p] = [kind |-> "remind", memo |-> x, at |-> t]]
  /\ memo' = Purged /\ excused' = excused \cup LeftByPurge
  /\ UNCHANGED <<folder, remind, taken>>

ReminderInsert(p) ==
  /\ work[p].kind = "remind"
  /\ LET r == <<work[p].memo, work[p].at>> IN
       /\ remind' = [remind EXCEPT ![r] = "set"]
       /\ taken' = [taken EXCEPT ![r] = 0]
       /\ excused' = excused \cup {x \in {r[1]} : Gone(x)}
  /\ work' = [Stale(work) EXCEPT ![p] = Idle]
  /\ UNCHANGED <<memo, folder, now, ops>>

ReminderClear(x) ==
  /\ Request /\ Wrote
  /\ \E T \in {{t} : t \in Times} \cup {Times} :
       remind' = [r \in Memos \X Times |->
                    IF r[1] = x /\ r[2] \in T THEN "none" ELSE remind[r]]
  /\ memo' = Purged /\ excused' = excused \cup LeftByPurge
  /\ UNCHANGED <<folder, taken>>

(* reminders_take_due, its read and its write.                             *)
Due == {r \in Memos \X Times : remind[r] = "set" /\ r[2] <= now}

TakeRead(p) ==
  /\ work[p] = Idle /\ Request
  /\ work' = [work EXCEPT ![p] = [kind |-> "take", due |-> Due, stale |-> FALSE]]
  /\ memo' = Purged /\ excused' = excused \cup LeftByPurge
  /\ UNCHANGED <<folder, remind, taken>>

TakeMark(p) ==
  /\ work[p].kind = "take" /\ ~work[p].stale
  /\ remind' = [r \in Memos \X Times |-> IF r \in work[p].due THEN "fired" ELSE remind[r]]
  /\ taken' = [r \in Memos \X Times |->
                 IF r \in work[p].due THEN taken[r] + 1 ELSE taken[r]]
  /\ work' = [Stale(work) EXCEPT ![p] = Idle]
  /\ UNCHANGED <<memo, folder, now, ops, excused>>

TakeFails(p) ==
  /\ work[p].kind = "take" /\ work[p].stale
  /\ work' = [work EXCEPT ![p] = Idle]
  /\ UNCHANGED <<memo, folder, remind, now, ops, taken, excused>>

(* The process dies in the middle of a request.                            *)
Die(p) ==
  /\ work[p] # Idle
  /\ work' = [work EXCEPT ![p] = Idle]
  /\ excused' = excused \cup (IF work[p].kind = "delete" THEN {work[p].memo} ELSE {})
  /\ UNCHANGED <<memo, folder, remind, now, ops, taken>>

Tick == /\ now < MaxTime /\ now' = now + 1
        /\ UNCHANGED <<memo, folder, remind, work, ops, taken, excused>>

LocalNext ==
  \/ \E x \in Memos : \/ Create(x) \/ Update(x) \/ Trash(x) \/ Restore(x) \/ Expire(x)
                      \/ ReminderClear(x)
                      \/ \E y \in Memos : Duplicate(x, y)
  \/ \E f \in Folders : FolderDelete(f) \/ \E n \in Names : FolderRename(f, n)
  \/ \E p \in Requests : \/ DeleteReminders(p) \/ ReminderInsert(p)
                         \/ TakeRead(p) \/ TakeMark(p) \/ TakeFails(p) \/ Die(p)
                         \/ \E f \in Folders : FolderInsert(p, f)
                         \/ \E n \in Names : FolderLook(p, n)
                         \/ \E x \in Memos : \/ DeleteForever(p, x)
                                             \/ \E t \in Times : ReminderCount(p, x, t)
  \/ EmptyTrash \/ OpenOnly \/ Tick

LocalSpec == LocalInit /\ [][LocalNext]_localVars

-----------------------------------------------------------------------------

(* resolve_titles compares titles exactly and picks one of the live memos  *)
(* with that title; backlinks uses LIKE, which ignores the case of ASCII   *)
(* letters.                                                                *)
Lower(t) == IF t = "Plan" THEN "plan" ELSE t
Resolve(t) == {x \in Memos : t # "" /\ memo[x].life = "live" /\ memo[x].title = t}
Backlinks(x) == {y \in Memos \ {x} : /\ memo[x].title # "" /\ memo[y].life = "live"
                                     /\ Lower(memo[y].link) = Lower(memo[x].title)}

(* A memo in a folder is in one that exists, in the trash too (Restore does*)
(* not look; FolderDelete has to empty it).                                *)
FoldersKept == \A x \in Memos : InUse(x) => FolderThere(memo[x].folder)

(* However requests interleave, a reminder that was set is handed out at   *)
(* most once, never early, and as long as it waits it has not been         *)
(* (reminders_take_due).                                                   *)
FiredOnce == \A r \in Memos \X Times :
  /\ taken[r] <= 1
  /\ taken[r] > 0 => r[2] <= now
  /\ remind[r] = "set" => taken[r] = 0

(* Deleting a memo takes its reminders along, but for three ways that      *)
(* leave them: the purge of the trash, a process dying between the two     *)
(* deletes, and a reminder set for a memo already gone (DeleteForever,     *)
(* EmptyTrash).                                                            *)
RemindersGone == \A x \in Memos :
  Gone(x) /\ HasReminder(x) =>
    x \in excused \/ \E p \in Requests : work[p] = [kind |-> "delete", memo |-> x]

LocalSound == FoldersKept /\ FiredOnce /\ RemindersGone

(* The comment of migration v3: the caller that deletes a memo for good    *)
(* deletes its reminders too.  The purge does not.                         *)
NoOrphans == (\A p \in Requests : work[p] = Idle) =>
               \A x \in Memos : ~(Gone(x) /\ HasReminder(x))

(* The doc comment of backlinks: memos that contain the link literally.    *)
LinkedLiterally == \A x \in Memos, y \in Memos :
  y \in Backlinks(x) => memo[y].link = memo[x].title

(* The limit of reminders per target.                                      *)
LimitHeld == \A x \in Memos : Cardinality({t \in Times : remind[x, t] # "none"}) <= Most
=============================================================================
