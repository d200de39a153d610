------------------------------ MODULE MCShared ------------------------------
(***************************************************************************)
(* Model checking of memos: the locks and revisions of shared memos, their *)
(* synchronisation, their folders, the cells of a sheet and its cache, a   *)
(* schedule and its sheet, the files both are kept in, the memos of one    *)
(* device, the differences shown, the reminders of a phone; and the groups *)
(* a phone shares.  The modules share no state, so one run checks them     *)
(* side by side: the initial state chooses the part, and only that part    *)
(* moves.                                                                  *)
(* The locks, whose module is extended, have their own variables; those of *)
(* the other parts are kept in s1, s2, ..., in the order they are declared.*)
(***************************************************************************)
EXTENDS MemoLock

CONSTANTS MaxChange, MaxConnect, FeedTasks, Editors, Cols, MaxCells, MaxValue, PlainEditors,
          MaxEdit, MaxLate,
          Openers, MaxOpens, MaxDeaths,
          Memos, Folders, Names, FileTitles, MaxSize, Capacity, MaxShelf,
          MaxSheets, SyncLimit, Lookers, Me, MaxLook, MaxJoin,
          Requests, MaxTime, Most, MaxOps,
          Lines, MaxLines, MaxProduct,
          Targets, MaxSets, MaxClears, MaxCuts,
          GroupNodes, MaxDesktop, MaxFaults

VARIABLES part,
          s1, s2, s3, s4, s5, s6, s7, s8, s9, s10, s11, s12

F == INSTANCE MemoFeed WITH
       Tasks <- FeedTasks, memo <- s1, group <- s2, sig <- s3, task <- s4, wire <- s5,
       up <- s6, sync <- s7, store <- s8, quiet <- s9, count <- s10
S == INSTANCE MemoSheet WITH
       there <- s1, cells <- s2, merges <- s3, shown <- s4, fresh <- s5, blind <- s6
R == INSTANCE RowFeed WITH
       Others <- PlainEditors, content <- s1, revision <- s2, base <- s3, late <- s4,
       link <- s5, mirror <- s6, calm <- s7, edits <- s8
O == INSTANCE StoreOpen WITH
       kind <- s1, version <- s2, schema <- s3, writes <- s4, at <- s5, seen <- s6,
       draft <- s7, writer <- s8, opens <- s9, deaths <- s10
B == INSTANCE MemoShelf WITH
       MaxChange <- MaxShelf, Titles <- FileTitles, folder <- s1, memo <- s2,
       limit <- s3, cache <- s4, up <- s5, wire <- s6, todo <- s7, sync <- s8,
       quiet <- s9, count <- s10
C == INSTANCE SheetCache WITH
       MaxLate <- 1, sheet <- s1, copy <- s2, late <- s3, link <- s4, calm <- s5,
       at <- s6, shown <- s7, count <- s8
L == INSTANCE LocalMemos WITH
       memo <- s1, folder <- s2, remind <- s3, now <- s4, work <- s5, ops <- s6,
       taken <- s7, excused <- s8
D == INSTANCE LineDiff WITH
       old <- s1, new <- s2, shownDiff <- s3
A == INSTANCE PhoneReminders WITH
       MaxFaults <- MaxCuts, now <- s1, row <- s2, alarms <- s3, job <- s4,
       booted <- s5, gone <- s6, shown <- s7, cut <- s8, lost <- s9, sets <- s10,
       clears <- s11, faults <- s12
G == INSTANCE PhoneGroups WITH
       Nodes <- GroupNodes, Host <- 1, Me <- 2, MaxRev <- 2, copy <- s1, task <- s2, gone <- s3,
       heard <- s4, desktopEdits <- s5, groupFaults <- s6, unheard <- s7, told <- s8

ASSUME SharedAssumption ==
  /\ GroupNodes = 1..3 /\ L!LocalAssumption /\ D!DiffAssumption
  /\ MaxChange \in Nat /\ MaxConnect \in Nat /\ MaxEdit \in Nat /\ MaxLate \in Nat
  /\ MaxSheets \in Nat /\ SyncLimit \in Nat /\ MaxLook \in Nat /\ MaxJoin \in Nat
  /\ MaxValue \in Nat \ {0} /\ MaxOpens \in Nat /\ MaxDeaths \in Nat
  /\ MaxSets \in Nat /\ MaxClears \in Nat /\ MaxCuts \in Nat
  /\ IsFiniteSet(Memos) /\ Memos # {} /\ MaxSize \in Nat /\ MaxShelf \in Nat

(* What a part does not use stays 0.                                       *)
After10 == <<s11, s12>>
Blank10 == s11 = 0 /\ s12 = 0
After8 == <<s9, s10, After10>>
Blank8 == s9 = 0 /\ s10 = 0 /\ Blank10
After6 == <<s7, s8, After8>>
Blank6 == s7 = 0 /\ s8 = 0 /\ Blank8
After3 == <<s4, s5, s6, After6>>
Blank3 == s4 = 0 /\ s5 = 0 /\ s6 = 0 /\ Blank6

allVars == <<part, lockVars, s1, s2, s3, After3>>

SharedInit ==
  /\ Init
  /\ \/ part = "lock" /\ s1 = 0 /\ s2 = 0 /\ s3 = 0 /\ Blank3
     \/ part = "feed" /\ F!Init /\ Blank10
     \/ part = "sheet" /\ S!Init /\ Blank6
     \/ part = "row" /\ R!Init /\ Blank8
     \/ part = "store" /\ O!Init /\ Blank10
     \/ part = "shelf" /\ B!Init /\ Blank10
     \/ part = "cache" /\ C!Init /\ Blank8
     \/ part = "local" /\ L!LocalInit /\ Blank8
     \/ part = "diff" /\ D!DiffInit /\ Blank3
     \/ part = "reminders" /\ A!ReminderInit
     \/ part = "groups" /\ G!GroupInit /\ Blank8

LockStep == part = "lock" /\ Next /\ UNCHANGED <<s1, s2, s3, After3>>
FeedStep == part = "feed" /\ F!Next /\ UNCHANGED <<lockVars, After10>>
SheetStep == part = "sheet" /\ S!Next /\ UNCHANGED <<lockVars, After6>>
RowStep == part = "row" /\ R!Next /\ UNCHANGED <<lockVars, After8>>
StoreStep == part = "store" /\ O!Next /\ UNCHANGED <<lockVars, After10>>
ShelfStep == part = "shelf" /\ B!Next /\ UNCHANGED <<lockVars, After10>>
CacheStep == part = "cache" /\ C!Next /\ UNCHANGED <<lockVars, After8>>
LocalStep == part = "local" /\ L!LocalNext /\ UNCHANGED <<lockVars, After8>>
DiffStep == part = "diff" /\ D!DiffNext /\ UNCHANGED <<lockVars, After3>>
RemindersStep == part = "reminders" /\ A!ReminderNext /\ UNCHANGED lockVars
GroupsStep == part = "groups" /\ G!GroupNext /\ UNCHANGED <<lockVars, After8>>

SharedNext ==
  /\ UNCHANGED part
  /\ \/ LockStep
     \/ FeedStep
     \/ SheetStep
     \/ RowStep
     \/ StoreStep
     \/ ShelfStep
     \/ CacheStep
     \/ LocalStep
     \/ DiffStep
     \/ RemindersStep
     \/ GroupsStep

SharedSpec == SharedInit /\ [][SharedNext]_allVars

(* The state of the part that moves has its type.                          *)
SharedTypeOK ==
  CASE part = "lock" -> TypeOK [] part = "feed" -> F!TypeOK
    [] part = "sheet" -> S!TypeOK [] part = "row" -> R!TypeOK
    [] part = "store" -> O!TypeOK [] part = "shelf" -> B!TypeOK
    [] part = "cache" -> C!TypeOK [] part = "local" -> L!LocalTypeOK
    [] part = "reminders" -> A!ReminderTypeOK [] part = "groups" -> G!GroupTypeOK
    [] OTHER -> TRUE

(* An undisturbed synchronisation brings a memo's cache and a sheet's up to*)
(* date (sync_scope_feed, sync_sheets), and an undisturbed replacement a   *)
(* schedule's sheet (replace_schedule_rows); no accepted write replaces a  *)
(* cell's value unseen while the cell lives (sheet_write); a file opened   *)
(* has every table its version promises (migrate); what a member is shown  *)
(* of folders, memos and links is the host's (folder_delete,               *)
(* sync_scope_feed, resolve_titles); no local memo is lost with its folder *)
(* and no reminder fires twice (folder_delete, due_reminders); a reminder  *)
(* set on a phone stays armed until it is shown (setReminder); copies of a *)
(* group never fall behind their author's (commit_group).                  *)
SharedSound ==
  CASE part = "feed" -> F!SyncRepairs [] part = "row" -> R!ReplaceRepairs
    [] part = "cache" -> C!SheetsRepaired [] part = "sheet" -> S!KnownWhileAlive
    [] part = "store" -> O!StoreSound [] part = "shelf" -> B!ShelfSound
    [] part = "local" -> L!LocalSound [] part = "reminders" -> A!RemindersSound
    [] part = "groups" -> G!GroupsSound [] OTHER -> TRUE

(* A member's cache drops texts only where they do not fit, and then as    *)
(* many as must go (enforce_limit); the difference shown leads from one    *)
(* text to the other and keeps what can be kept (diff_lines).              *)
TextsSound ==
  CASE part = "shelf" -> B!CacheSound [] part = "diff" -> D!DiffTrue [] OTHER -> TRUE

(* The decision record's claim that a cell changed in the meantime is      *)
(* never overwritten.                                                      *)
NeverBlind == part = "sheet" => S!NeverBlind
=============================================================================
