----------------------------- MODULE MemoShelf -----------------------------
(***************************************************************************)
(* The folders and titles of shared memos: the host's store with its       *)
(* limits, and the cache of one member, which lists memos, resolves links  *)
(* [[title]] and finds backlinks without the host, and which drops the     *)
(* oldest memos when their texts outgrow it.  Events reach the cache in    *)
(* the order they are sent; how they race with each other and with the     *)
(* synchronisation is the subject of MemoFeed.                             *)
(***************************************************************************)
EXTENDS Naturals, Sequences, FiniteSets, FiniteSetsExt

CONSTANTS Memos, Folders, Names, Titles,
          MaxSize,     \* size of the largest text
          Capacity,    \* CACHE_MAX_BYTES
          MaxChange,   \* changes on the host
          MaxConnect   \* connections made by the member

VARIABLES folder,    \* name of each folder, None when there is none
          memo,      \* row of each memo in the store, NoRow when there is none
          limit,     \* max_memo_count
          cache,     \* [folder, memo]: the member's cache
          up,        \* the member is connected
          wire,      \* events on their way
          todo,      \* memos the synchronisation is still to fetch
          sync,      \* "off", "ask" or "done"
          quiet,     \* history: nothing changed since the connection was made
          count      \* [change, connect]; the number of changes is the clock

shelfVars == <<folder, memo, limit, cache, up, wire, todo, sync, quiet, count>>

None == "none"
NoRow == [rev |-> 0, dir |-> None, title |-> None, stamp |-> 0, size |-> 0,
          live |-> FALSE, seen |-> FALSE]

Rows == [rev : 0..MaxChange, dir : Folders \cup {None}, title : Titles \cup {None},
         stamp : 0..MaxChange, size : 0..MaxSize, live : BOOLEAN, seen : BOOLEAN]

TypeOK == /\ folder \in [Folders -> Names \cup {None}]
          /\ memo \in [Memos -> Rows]
          /\ limit \in 1..Cardinality(Memos)
          /\ cache \in [folder : [Folders -> Names \cup {None}], memo : [Memos -> Rows]]
          /\ up \in BOOLEAN /\ quiet \in BOOLEAN /\ todo \subseteq Memos
          /\ sync \in {"off", "ask", "done"} /\ Len(wire) <= MaxChange
          /\ count \in [change : 0..MaxChange, connect : 0..MaxConnect]

NoFolders == [f \in Folders |-> None]
NoMemos == [m \in Memos |-> NoRow]

Init == /\ folder = NoFolders /\ memo = NoMemos /\ limit = Cardinality(Memos)
        /\ cache = [folder |-> NoFolders, memo |-> NoMemos]
        /\ up = FALSE /\ wire = << >> /\ todo = {} /\ sync = "off" /\ quiet = FALSE
        /\ count = [change |-> 0, connect |-> 0]

Rowed(t) == {m \in DOMAIN t : t[m].rev > 0}
Visible == {m \in Memos : memo[m].live /\ memo[m].seen}
Bytes(t, S) == MapThenSumSet(LAMBDA m : t[m].size, S)
\* The one of S updated last (ORDER BY updated_at DESC LIMIT 1).
Latest(t, S) == CHOOSE m \in S : \A o \in S : t[o].stamp <= t[m].stamp

(***************************************************************************)
(* The host                                                                *)
(***************************************************************************)
Now == count.change + 1
Change == /\ count.change < MaxChange
          /\ count' = [count EXCEPT !.change = @ + 1]
          /\ quiet' = FALSE /\ UNCHANGED <<up, cache, todo, sync>>
Send(event) == wire' = IF up THEN Append(wire, event) ELSE wire
FoldersEvent == [k |-> "folders", folder |-> folder']
\* broadcast_changed sends what the member may see of the memo.
ChangedEvent(m) == [k |-> "memo", m |-> m,
                    row |-> IF memo'[m].live /\ memo'[m].seen THEN memo'[m] ELSE NoRow]

(* folder_create refuses a name that is taken; folder_rename does not look.*)
FolderCreate(f, n) == /\ Change /\ folder[f] = None
                      /\ n \notin {folder[g] : g \in Folders}
                      /\ folder' = [folder EXCEPT ![f] = n]
                      /\ Send(FoldersEvent) /\ UNCHANGED <<memo, limit>>

FolderRename(f, n) == /\ Change /\ folder[f] # None
                      /\ folder' = [folder EXCEPT ![f] = n]
                      /\ Send(FoldersEvent) /\ UNCHANGED <<memo, limit>>

(* The folder's memos lose it, and keep their revision; only the folders   *)
(* are announced.                                                          *)
FolderDelete(f) == /\ Change /\ folder[f] # None
                   /\ folder' = [folder EXCEPT ![f] = None]
                   /\ memo' = [m \in Memos |-> IF memo[m].dir = f
                                               THEN [memo[m] EXCEPT !.dir = None]
                                               ELSE memo[m]]
                   /\ Send(FoldersEvent) /\ UNCHANGED limit

(* create counts every row, those in the trash included, and wants the     *)
(* folder to exist.                                                        *)
Create(m, t, d, s) == /\ Change /\ memo[m] = NoRow
                      /\ Cardinality(Rowed(memo)) < limit
                      /\ d \in {None} \cup {f \in Folders : folder[f] # None}
                      /\ memo' = [memo EXCEPT ![m] = [rev |-> 1, dir |-> d, title |-> t,
                                   stamp |-> Now, size |-> s, live |-> TRUE, seen |-> TRUE]]
                      /\ Send(ChangedEvent(m)) /\ UNCHANGED <<folder, limit>>

(* The row is looked up in the trash as well.                              *)
Update(m, t, s) == /\ Change /\ memo[m].rev > 0
                   /\ memo' = [memo EXCEPT ![m].rev = @ + 1, ![m].title = t,
                                           ![m].size = s, ![m].stamp = Now]
                   /\ Send(ChangedEvent(m)) /\ UNCHANGED <<folder, limit>>

(* trash and restore leave revision and time of the update as they are.    *)
Move(m, live) == /\ Change /\ memo[m].rev > 0 /\ memo[m].live # live
                 /\ memo' = [memo EXCEPT ![m].live = live]
                 /\ Send(ChangedEvent(m)) /\ UNCHANGED <<folder, limit>>

SetSeen(m, seen) == /\ Change /\ memo[m].live /\ memo[m].seen # seen
                    /\ memo' = [memo EXCEPT ![m].seen = seen]
                    /\ Send(ChangedEvent(m)) /\ UNCHANGED <<folder, limit>>

(* delete_forever: the identity is noted in deleted_memos, never used again.*)
Purge(m) == /\ Change /\ memo[m].rev > 0 /\ ~memo[m].live
            /\ memo' = [memo EXCEPT ![m] = [NoRow EXCEPT !.stamp = Now]]
            /\ Send(ChangedEvent(m)) /\ UNCHANGED <<folder, limit>>

(* set_limits: rows beyond a lower limit stay.                             *)
SetLimits(n) == /\ Change /\ n # limit /\ limit' = n
                /\ UNCHANGED <<folder, memo, wire>>

(***************************************************************************)
(* The member's cache                                                      *)
(***************************************************************************)
(* enforce_limit: the oldest go, one by one, until the texts fit; the last *)
(* one stays whatever its size.  What is left are the newest.              *)
Newest(t, n) == {m \in Rowed(t) : Cardinality({o \in Rowed(t) : t[o].stamp > t[m].stamp}) < n}
Fits(t, n) == n <= 1 \/ Bytes(t, Newest(t, n)) <= Capacity
Enforced(t) == LET n == Max({k \in 0..Cardinality(Rowed(t)) : Fits(t, k)})
               IN [m \in Memos |-> IF m \in Newest(t, n) THEN t[m] ELSE NoRow]

Upsert(m, row) == Enforced([cache.memo EXCEPT ![m] = row])
Remove(m) == [cache.memo EXCEPT ![m] = NoRow]

Connect == /\ ~up /\ count.connect < MaxConnect
           /\ up' = TRUE /\ wire' = << >> /\ sync' = "ask" /\ todo' = {} /\ quiet' = TRUE
           /\ count' = [count EXCEPT !.connect = @ + 1]
           /\ UNCHANGED <<folder, memo, limit, cache>>

Lose == /\ up /\ up' = FALSE /\ wire' = << >> /\ sync' = "off" /\ todo' = {}
        /\ quiet' = FALSE /\ UNCHANGED <<folder, memo, limit, cache, count>>

(* apply_event.                                                            *)
Apply == /\ wire # << >> /\ wire' = Tail(wire)
         /\ LET e == Head(wire) IN
            cache' = IF e.k = "folders" THEN [cache EXCEPT !.folder = e.folder]
                     ELSE [cache EXCEPT !.memo = IF e.row.rev = 0 THEN Remove(e.m)
                                                 ELSE Upsert(e.m, e.row)]
         /\ UNCHANGED <<folder, memo, limit, up, todo, sync, quiet, count>>

(* sync_from_list on the host's list: what is not listed goes, what has    *)
(* another revision is to be fetched, and the folders are replaced.        *)
Retained == Enforced([m \in Memos |-> IF m \in Visible THEN cache.memo[m] ELSE NoRow])
SyncList == /\ up /\ sync = "ask" /\ wire = << >>
            /\ cache' = [folder |-> folder, memo |-> Retained]
            /\ todo' = {m \in Visible : Retained[m].rev # memo[m].rev}
            /\ sync' = IF todo' = {} THEN "done" ELSE "ask"
            /\ todo = {}
            /\ UNCHANGED <<folder, memo, limit, up, wire, quiet, count>>

(* One memo after the other, in the order of the list.                     *)
SyncGet == /\ up /\ sync = "ask" /\ wire = << >> /\ todo # {}
           /\ LET m == Latest(memo, todo) IN
              /\ todo' = todo \ {m}
              /\ cache' = IF m \in Visible
                          THEN [cache EXCEPT !.memo = Upsert(m, memo[m])] ELSE cache
           /\ sync' = IF todo' = {} THEN "done" ELSE "ask"
           /\ UNCHANGED <<folder, memo, limit, up, wire, quiet, count>>

Next == \/ \E f \in Folders : \/ FolderDelete(f)
                              \/ \E n \in Names : FolderCreate(f, n) \/ FolderRename(f, n)
        \/ \E m \in Memos : \/ Purge(m)
                            \/ \E b \in BOOLEAN : Move(m, b) \/ SetSeen(m, b)
                            \/ \E t \in Titles, s \in 1..MaxSize :
                                  \/ Update(m, t, s)
                                  \/ \E d \in Folders \cup {None} : Create(m, t, d, s)
        \/ \E n \in 1..Cardinality(Memos) : SetLimits(n)
        \/ Connect \/ Lose \/ Apply \/ SyncList \/ SyncGet

Spec == Init /\ [][Next]_shelfVars

(***************************************************************************)
(* Properties                                                              *)
(***************************************************************************)
Synced == up /\ sync = "done" /\ wire = << >>
Content(row) == [row EXCEPT !.dir = None]

(* What the cache shows once nothing is under way is the host's text, and  *)
(* the folders are the host's (sync_from_list, apply_event).               *)
ShownTrue == Synced => /\ cache.folder = folder
                       /\ \A m \in Rowed(cache.memo) :
                            m \in Visible /\ Content(cache.memo[m]) = Content(memo[m])

(* A cache large enough for all a member may see has all of it after a     *)
(* synchronisation (enforce_limit drops nothing needlessly).               *)
NothingMissing == (Synced /\ quiet /\ Bytes(memo, Visible) <= Capacity)
                    => Rowed(cache.memo) = Visible

(* The host's resolve_titles looks at the newest memo of that title and    *)
(* answers only if it may be seen; the cache's at the newest it has.       *)
HostAnswer(t) == LET S == {m \in Memos : memo[m].live /\ memo[m].title = t}
                 IN IF S # {} /\ Latest(memo, S) \in Visible THEN {Latest(memo, S)} ELSE {}
CacheAnswer(t) == LET S == {m \in Rowed(cache.memo) : cache.memo[m].title = t}
                  IN IF S = {} THEN {} ELSE {Latest(cache.memo, S)}

(* A link leads offline where the host would lead it (resolve_titles of    *)
(* the two stores), if the host leads it anywhere.                         *)
LinksAgree == (Synced /\ Visible = Rowed(cache.memo))
                => \A t \in Titles : HostAnswer(t) \subseteq CacheAnswer(t)

(* No memo is filed under a folder that does not exist (folder_delete).    *)
FiledRight == \A m \in Memos : memo[m].dir # None => folder[memo[m].dir] # None

(* The cache stays within its limit but for a single memo (enforce_limit). *)
CacheFits == \/ Bytes(cache.memo, Rowed(cache.memo)) <= Capacity
             \/ Cardinality(Rowed(cache.memo)) = 1

ShelfSound == ShownTrue /\ LinksAgree /\ FiledRight
CacheSound == NothingMissing /\ CacheFits

(* Refuted: a memo whose folder was deleted keeps it in the cache, since   *)
(* its revision is the same.                                               *)
FiledAlike == (Synced /\ quiet)
                => \A m \in Rowed(cache.memo) : cache.memo[m].dir = memo[m].dir
(* Refuted: two folders come to have one name by a rename.                 *)
NamesDiffer == \A f, g \in Folders : folder[f] = folder[g] => f = g \/ folder[f] = None
=============================================================================
