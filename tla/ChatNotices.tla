---------------------------- MODULE ChatNotices ----------------------------
(***************************************************************************)
(* The chat notices of the Android application: of one conversation, what  *)
(* the notification shade shows, what the application remembers to have    *)
(* shown, and the read position, a preference that outlives the history it *)
(* counts in.  The watcher of a connection works on a thread of its own;   *)
(* a connection that is replaced retires the watcher at its next cycle,    *)
(* when the new one already runs.  Reading happens on the main thread (the *)
(* open conversation, the "read" action of a notice) and on the thread of  *)
(* a reply.  Nothing orders these threads.                                 *)
(***************************************************************************)
EXTENDS Naturals

CONSTANTS MaxSeq,         \* messages of one history
          MaxConnects,    \* connections, each with a watcher
          MaxReads,       \* times the user reads, by screen, action or reply
          MaxToggles,     \* changes of visibility, of hiding and of muting
          MaxJoins        \* times the network is removed and joined again

VARIABLES latest,         \* the last number of the history, 0 when it is empty
          read,           \* Prefs: the read position
          watch,          \* the watcher of each connection
          living,         \* the connection whose watcher is not retired, 0 for none
          shade,          \* the notice, [seq, hidden], or None
          shown,          \* lastShown: what the application last showed, or None
          act,            \* the threads that read
          look,           \* [visible, hidden, muted]: what the user and the lock make of it
          seen,           \* numbers of this history the user read or found at connecting
          swiped,         \* the user put the shown notice away
          overlapped,     \* a notice was cancelled while another thread was showing one
          orphan,         \* the notice of the shade is that of an earlier connection
          stale,          \* a read position of an earlier history was written
          connects, reads, toggles, joins

noticeState == <<latest, read, watch, living, shade, shown, act, look, seen, swiped,
                 overlapped, orphan, stale, connects, reads, toggles, joins>>

Seqs == 1..MaxSeq
Watchers == 1..MaxConnects
Threads == {"main", "reply"}
None == [seq |-> 0, hidden |-> FALSE, history |-> 0]
Notices == [seq : 0..MaxSeq, hidden : BOOLEAN, history : 0..(MaxJoins + 1)]

Asleep == [at |-> "out", after |-> 0, unread |-> {}, read |-> 0, key |-> None]
Calm == [at |-> "out", seq |-> 0, closes |-> FALSE, history |-> 0]

Newest(S) == CHOOSE s \in S : \A t \in S : t <= s

WatchPlaces == {"out", "begun", "asleep", "fetched", "forget", "cancel", "decide", "notify", "note"}
ActPlaces == {"out", "check", "put", "forget", "cancel"}

NoticeTypeOK ==
  /\ latest \in 0..MaxSeq /\ read \in 0..MaxSeq /\ living \in 0..MaxConnects
  /\ watch \in [Watchers -> [at : WatchPlaces, after : 0..MaxSeq, unread : SUBSET Seqs,
                             read : 0..MaxSeq, key : Notices]]
  /\ shade \in Notices /\ shown \in Notices
  /\ act \in [Threads -> [at : ActPlaces, seq : 0..MaxSeq, closes : BOOLEAN,
                          history : 0..(MaxJoins + 1)]]
  /\ look \in [visible : BOOLEAN, hidden : BOOLEAN, muted : BOOLEAN] /\ seen \subseteq Seqs
  /\ {swiped, overlapped, orphan, stale} \subseteq BOOLEAN
  /\ connects \in 0..MaxConnects /\ reads \in 0..MaxReads
  /\ toggles \in 0..MaxToggles /\ joins \in 0..MaxJoins

NoticeInit ==
  /\ latest = 0 /\ read = 0 /\ watch = [w \in Watchers |-> Asleep] /\ living = 0
  /\ shade = None /\ shown = None /\ act = [t \in Threads |-> Calm]
  /\ look = [visible |-> FALSE, hidden |-> FALSE, muted |-> FALSE] /\ seen = {}
  /\ swiped = FALSE /\ overlapped = FALSE /\ orphan = FALSE /\ stale = FALSE
  /\ connects = 0 /\ reads = 0 /\ toggles = 0 /\ joins = 0

History == joins + 1

(* Threads in the middle of showing, or of cancelling, a notice.           *)
ShowingIn(W) == \E w \in W : watch[w].at \in {"notify", "note"}
Others(w) == Watchers \ {w}
Cancelling(w) == \/ \E t \in Threads : act[t].at = "cancel"
                 \/ \E v \in Others(w) : watch[v].at = "cancel"

(***************************************************************************)
(* A connection: the watcher begins after the newest message and lowers a  *)
(* read position beyond it (clampReadSeqs).  The one before it goes on to  *)
(* the end of its cycle.                                                   *)
(***************************************************************************)
Connect ==
  /\ connects < MaxConnects /\ connects' = connects + 1 /\ living' = connects + 1
  /\ watch' = [watch EXCEPT ![connects + 1] = [Asleep EXCEPT !.at = "begun", !.after = latest]]
  /\ orphan' = (orphan \/ shade # None)
  /\ seen' = seen \cup 1..latest
  /\ UNCHANGED <<latest, read, shade, shown, act, look, swiped, overlapped, stale, reads,
                 toggles, joins>>

(* The read position stays, as it did when notices stopped coming.         *)
LoweredNever(w) == read
Lowered(w) == IF read > watch[w].after THEN watch[w].after ELSE read

Clamp(w) ==
  /\ watch[w].at = "begun" /\ read' = Lowered(w)
  /\ watch' = [watch EXCEPT ![w].at = "asleep"]
  /\ UNCHANGED <<latest, living, shade, shown, act, look, seen, swiped, overlapped, orphan,
                 stale, connects, reads, toggles, joins>>

Receive ==
  /\ living # 0 /\ latest < MaxSeq /\ latest' = latest + 1
  /\ UNCHANGED <<read, watch, living, shade, shown, act, look, seen, swiped, overlapped, orphan,
                 stale, connects, reads, toggles, joins>>

(* A cycle: fetch what is new and read the read position.                  *)
Fetch(w) ==
  /\ watch[w].at = "asleep" /\ w = living
  /\ LET new == {s \in Seqs : s > watch[w].after /\ s <= latest} IN
       watch' = [watch EXCEPT ![w].at = "fetched", ![w].unread = @ \cup new,
                   ![w].after = latest, ![w].read = read]
  /\ UNCHANGED <<latest, read, living, shade, shown, act, look, seen, swiped, overlapped,
                 orphan, stale, connects, reads, toggles, joins>>

(* A retired watcher ends when it wakes.                                   *)
Retire(w) ==
  /\ watch[w].at = "asleep" /\ w # living /\ watch' = [watch EXCEPT ![w] = Asleep]
  /\ UNCHANGED <<latest, read, living, shade, shown, act, look, seen, swiped, overlapped,
                 orphan, stale, connects, reads, toggles, joins>>

Left(w) == {s \in watch[w].unread : s > watch[w].read}

(* Nothing unread: the notice is cancelled.  Else it is shown, unless the  *)
(* user is looking at the application.                                     *)
Sift(w) ==
  /\ watch[w].at = "fetched"
  /\ watch' = [watch EXCEPT ![w].unread = Left(w),
                 ![w].at = IF Left(w) # {} THEN IF look.visible THEN "asleep" ELSE "decide"
                           ELSE IF watch[w].unread = {} THEN "asleep" ELSE "forget"]
  /\ UNCHANGED <<latest, read, living, shade, shown, act, look, seen, swiped, overlapped,
                 orphan, stale, connects, reads, toggles, joins>>

Key(w) == [seq |-> Newest(watch[w].unread), hidden |-> look.hidden, history |-> History]

(* lastShown compares the number and the hiding, whatever the history.      *)
WasShown(w) == shown.seq = Key(w).seq /\ shown.hidden = Key(w).hidden

Decide(w) ==
  /\ watch[w].at = "decide"
  /\ watch' = [watch EXCEPT ![w].key = Key(w),
                 ![w].at = IF look.muted \/ WasShown(w) THEN "asleep" ELSE "notify"]
  /\ UNCHANGED <<latest, read, living, shade, shown, act, look, seen, swiped, overlapped,
                 orphan, stale, connects, reads, toggles, joins>>

Notify(w) ==
  /\ watch[w].at = "notify" /\ shade' = watch[w].key /\ swiped' = FALSE /\ orphan' = (w # living)
  /\ watch' = [watch EXCEPT ![w].at = "note"]
  /\ overlapped' = (overlapped \/ Cancelling(w) \/ ShowingIn(Others(w)))
  /\ UNCHANGED <<latest, read, living, shown, act, look, seen, stale, connects, reads,
                 toggles, joins>>

Note(w) ==
  /\ watch[w].at = "note" /\ shown' = watch[w].key
  /\ watch' = [watch EXCEPT ![w].at = "asleep", ![w].key = None]
  /\ overlapped' = (overlapped \/ Cancelling(w))
  /\ UNCHANGED <<latest, read, living, shade, act, look, seen, swiped, orphan, stale, connects,
                 reads, toggles, joins>>

(***************************************************************************)
(* ChatNotifier.cancel, of a watcher and of an action: the memory of what  *)
(* was shown goes first, the notice second.                                *)
(***************************************************************************)
Forgotten == None
ForgetOf(W) == shown' = Forgotten /\ overlapped' = (overlapped \/ ShowingIn(W))
CancelOf(W) == /\ shade' = None /\ swiped' = FALSE /\ orphan' = FALSE
               /\ overlapped' = (overlapped \/ ShowingIn(W))

WatcherForgets(w) ==
  /\ watch[w].at = "forget" /\ ForgetOf(Others(w)) /\ watch' = [watch EXCEPT ![w].at = "cancel"]
  /\ UNCHANGED <<latest, read, living, shade, act, look, seen, swiped, orphan, stale, connects,
                 reads, toggles, joins>>

WatcherCancels(w) ==
  /\ watch[w].at = "cancel" /\ CancelOf(Others(w)) /\ watch' = [watch EXCEPT ![w].at = "asleep"]
  /\ UNCHANGED <<latest, read, living, shown, act, look, seen, stale, connects, reads,
                 toggles, joins>>

(***************************************************************************)
(* Reading.  The open conversation reads up to its newest message; the     *)
(* actions of a notice up to the message it was shown for, on the main     *)
(* thread, or after the reply was sent on a thread of its own.             *)
(* setReadSeq compares, then writes.                                       *)
(***************************************************************************)
Starts(t, s, closes, h) ==
  /\ act[t].at = "out" /\ reads < MaxReads /\ reads' = reads + 1
  /\ act' = [act EXCEPT ![t] = [at |-> "check", seq |-> s, closes |-> closes, history |-> h]]
  /\ UNCHANGED <<latest, read, watch, living, shown, look, seen, orphan, stale, overlapped,
                 connects, toggles, joins>>

OpenConversation == look.visible /\ latest > 0 /\ Starts("main", latest, FALSE, History)
                    /\ UNCHANGED <<shade, swiped>>

TapAction(t) == shade # None /\ Starts(t, shade.seq, TRUE, shade.history)
                /\ UNCHANGED <<shade, swiped>>

Swipe == /\ shade # None /\ reads < MaxReads /\ reads' = reads + 1
         /\ shade' = None /\ swiped' = TRUE /\ orphan' = FALSE
         /\ UNCHANGED <<latest, read, watch, living, shown, act, look, seen, overlapped, stale,
                        connects, toggles, joins>>

AfterRead(t) == IF act[t].closes THEN [act EXCEPT ![t].at = "forget"]
                                 ELSE [act EXCEPT ![t] = Calm]

CheckRead(t) ==
  /\ act[t].at = "check"
  /\ act' = IF read < act[t].seq THEN [act EXCEPT ![t].at = "put"] ELSE AfterRead(t)
  /\ UNCHANGED <<latest, read, watch, living, shade, shown, look, seen, swiped, overlapped,
                 orphan, stale, connects, reads, toggles, joins>>

PutRead(t) ==
  /\ act[t].at = "put" /\ read' = act[t].seq /\ act' = AfterRead(t)
  /\ IF act[t].history = History THEN seen' = seen \cup 1..act[t].seq /\ stale' = stale
                                 ELSE stale' = TRUE /\ seen' = seen
  /\ UNCHANGED <<latest, watch, living, shade, shown, look, swiped, overlapped, orphan, connects,
                 reads, toggles, joins>>

ActForgets(t) ==
  /\ act[t].at = "forget" /\ ForgetOf(Watchers) /\ act' = [act EXCEPT ![t].at = "cancel"]
  /\ UNCHANGED <<latest, read, watch, living, shade, look, seen, swiped, orphan, stale,
                 connects, reads, toggles, joins>>

ActCancels(t) ==
  /\ act[t].at = "cancel" /\ CancelOf(Watchers) /\ act' = [act EXCEPT ![t] = Calm]
  /\ UNCHANGED <<latest, read, watch, living, shown, look, seen, stale, connects, reads,
                 toggles, joins>>

(***************************************************************************)
(* The user: looking, locking the device, muting; and removing the network *)
(* to join it again, which numbers its history from one and leaves the     *)
(* preferences and the notice.                                             *)
(***************************************************************************)
Toggle ==
  /\ toggles < MaxToggles /\ toggles' = toggles + 1
  /\ \E k \in {"visible", "hidden", "muted"} : look' = [look EXCEPT ![k] = ~@]
  /\ UNCHANGED <<latest, read, watch, living, shade, shown, act, seen, swiped, overlapped,
                 orphan, stale, connects, reads, joins>>

Rejoin ==
  /\ joins < MaxJoins /\ joins' = joins + 1
  /\ \A t \in Threads : act[t] = Calm
  /\ \A w \in Watchers : watch[w].at \in {"out", "asleep"}
  /\ latest' = 0 /\ living' = 0 /\ seen' = {} /\ orphan' = (orphan \/ shade # None)
  /\ watch' = [w \in Watchers |-> Asleep]
  /\ UNCHANGED <<read, shade, shown, act, look, swiped, overlapped, stale, connects, reads, toggles>>

NoticeNext ==
  \/ Connect \/ Receive \/ OpenConversation \/ Swipe \/ Toggle \/ Rejoin
  \/ \E w \in Watchers : \/ Clamp(w) \/ Fetch(w) \/ Retire(w) \/ Sift(w) \/ Decide(w)
                         \/ Notify(w) \/ Note(w) \/ WatcherForgets(w) \/ WatcherCancels(w)
  \/ \E t \in Threads : \/ TapAction(t) \/ CheckRead(t) \/ PutRead(t)
                        \/ ActForgets(t) \/ ActCancels(t)

NoticeSpec == NoticeInit /\ [][NoticeNext]_noticeState

-----------------------------------------------------------------------------
(* The watcher leaves out only what the shade still shows, or what the     *)
(* user put away, as long as no notice was cancelled while another was     *)
(* being shown and no retired watcher came in between (show, lastShown).   *)
SkipsTheShown == \A w \in Watchers \cap {living} :
  watch[w].at = "decide" /\ WasShown(w) /\ ~overlapped /\ ~orphan /\ ~swiped
    => shade = shown \/ \E t \in Threads : act[t].at = "cancel"

(* Once everything is read the notice goes, unless it is that of an        *)
(* earlier connection (startChatWatcher).                                  *)
ReadMeansGone ==
  living # 0 /\ watch[living].at = "asleep" /\ watch[living].unread = {} /\ ~orphan
    /\ (\A w \in Watchers \ {living} : watch[w].at = "out")
    => shade = None \/ overlapped

(* The read position does not hide a message of this history that nobody   *)
(* saw: what a removed network left of it was lowered at connecting        *)
(* (clampReadSeqs), unless a notice of that network was tapped later.      *)
NothingHidden ==
  living # 0 /\ watch[living].at # "begun" /\ ~stale => 1..read \cap 1..latest \subseteq seen

NoticesSound == SkipsTheShown /\ ReadMeansGone /\ NothingHidden

(* Refuted: an action removes the memory, the watcher shows and remembers  *)
(* a newer notice, the action cancels it.                                  *)
UnreadShown == \A w \in Watchers \cap {living} :
  watch[w].at = "decide" /\ WasShown(w) /\ ~swiped /\ ~orphan
    => shade = shown \/ \E t \in Threads : act[t].at = "cancel"

(* Refuted: two threads compare, then write, the older one last.           *)
ReadGrows == [][\A t \in Threads : PutRead(t) => read' >= read]_noticeState

(* Refuted: after a reconnection the notice of what is read stays.         *)
ReadIsGone ==
  living # 0 /\ watch[living].at = "asleep" /\ watch[living].unread = {}
    /\ read = latest /\ watch[living].after = latest
    /\ (\A w \in Watchers \ {living} : watch[w].at = "out") /\ (\A t \in Threads : act[t] = Calm)
    => shade = None \/ overlapped

(* Refuted: the notice of a removed network is tapped after joining again. *)
NeverHidden == living # 0 /\ watch[living].at # "begun" => 1..read \cap 1..latest \subseteq seen

(* Refuted: after joining again a message is taken for the one of the      *)
(* removed network that had its number.                                    *)
SkippedWasThis == \A w \in Watchers \cap {living} :
  watch[w].at = "decide" /\ WasShown(w) /\ ~overlapped => shown.history = History
=============================================================================
