----------------------------- MODULE PhoneChat -----------------------------
(***************************************************************************)
(* The chat queue of the phone (SessionShared in session.rs, ChatLog in    *)
(* chatlog.rs): a message is kept in the history and in a queue until it   *)
(* was acknowledged; the queue is saved in <config>.chatq.json.            *)
(*                                                                         *)
(* Three threads share the queue, each step of theirs being one lock or one*)
(* file operation: the one of the user interface, the one that tries again *)
(* every two seconds, and the control thread, which reconciles what the    *)
(* phone knows with the ledger and then stores it.  A pump takes a message *)
(* out of the queue, tries to deliver it for seconds, and puts it back.    *)
(* The process may die between any two steps; and every connection starts  *)
(* another session from the files, while threads of the former one may     *)
(* still be at a message (stop waits for the session's own threads only,   *)
(* and after the new session has read the files).                          *)
(*                                                                         *)
(* Abstracted: one other address, whose holder (an identity the host gives)*)
(* may leave and be followed by another; messages are direct; a message is *)
(* its number; a save through the temporary file is one step, and the copy *)
(* it writes is taken in the step before (a change in between only makes   *)
(* the copy newer); the failure mark of a message is left out.  One former *)
(* session is followed at a time, and as the messages it holds, whatever   *)
(* the order in which its pumps go through them; it is not replaced in the *)
(* middle of reconcile_identities or of clear_chat_history, which wait for *)
(* no network.                                                             *)
(***************************************************************************)
EXTENDS Naturals, Sequences, FiniteSets

CONSTANTS MaxMsgs,     \* messages the user writes
          MaxHolder,   \* identities that hold the address one after another
          MaxOps       \* manual resends, cancellations, erasures, failed saves,
                       \* reconnects and deaths

VARIABLES holder,      \* who holds the address: an identity, 0 for nobody
          ledger,      \* what the phone's ledger says of it: {} before the first one
          known,       \* chatids.json: the identity last seen at the address, 0 for none
          history,     \* [seq, id]; id 0 is a line of the phone's own
          nextSeq,
          queue,       \* the messages waiting: [seq, id, meant, due]
          file,        \* chatq.json
          thread,      \* what each thread is doing
          former,      \* the session before: the messages it holds, and its ledger
          holders, written, ops, deaths,
          acked,       \* messages acknowledged
          given,       \* messages cancelled, erased, discarded, or not in chatq.json
                       \* when a session started from it
          slipped      \* messages in hand, or in a copy or a file to be written when
                       \* the queue was pruned, or queued while that went on;
                       \* or left in the file as the pruned queue was not saved

chatState == <<holder, ledger, known, history, nextSeq, queue, file, thread, former,
               holders, written, ops, deaths, acked, given, slipped>>
world == <<holder, former, holders, written, ops, deaths>>

Threads == {"ui", "queue", "control"}
Free == [at |-> "free", due |-> <<>>, hand |-> <<>>, snap |-> <<>>, arg |-> 0, next |-> "free"]
NoSession == [on |-> FALSE, held |-> <<>>, ledger |-> {}]
Ids(s) == {s[i].id : i \in 1..Len(s)}
InHand == UNION {Ids(thread[t].hand) : t \in Threads}
(* Messages a thread is about to write or to put in the queue.             *)
InSnap == UNION {Ids(thread[t].snap) : t \in Threads}
(* The messages at positions K of a queue, in order.                       *)
Picked(q, K) ==
  LET upTo[n \in 0..Len(q)] ==
        IF n = 0 THEN <<>> ELSE IF n \in K THEN Append(upTo[n - 1], q[n]) ELSE upTo[n - 1]
  IN upTo[Len(q)]
Entry(s) == CHOOSE e \in history : e.seq = s
LastSeq(h) == IF h = {} THEN 0 ELSE (CHOOSE e \in h : \A f \in h : f.seq <= e.seq).seq

Init ==
  /\ holder = 1 /\ ledger = {} /\ known = 0
  /\ history = {} /\ nextSeq = 1 /\ queue = <<>> /\ file = <<>>
  /\ thread = [t \in Threads |-> Free] /\ former = NoSession
  /\ holders = 1 /\ written = 0 /\ ops = 0 /\ deaths = 0
  /\ acked = {} /\ given = {} /\ slipped = {}

Goto(t, at) == thread' = [thread EXCEPT ![t].at = at]
Pending(s, i, m) == [seq |-> s, id |-> i, meant |-> m, due |-> TRUE]
(* member_id_of: nothing while there is no ledger or it lacks the address. *)
MeantNow == ledger \ {0}

Appended(i) == /\ history' = history \cup {[seq |-> nextSeq, id |-> i]}
               /\ nextSeq' = nextSeq + 1
WhileReconciling(i) == IF thread["control"].at = "free" THEN {} ELSE {i}

(* ---- The user ------------------------------------------------------------ *)

(* send_chat: into the history, then into the queue, then a pump and a save*)
Send ==
  /\ thread["ui"].at = "free" /\ written < MaxMsgs /\ written' = written + 1
  /\ Appended(written') /\ slipped' = slipped \cup WhileReconciling(written')
  /\ thread' = [thread EXCEPT !["ui"] = [Free EXCEPT !.at = "push",
                                       !.hand = <<Pending(nextSeq, written', MeantNow)>>]]
  /\ UNCHANGED <<holder, former, ledger, known, queue, file, holders, ops, deaths, acked,
                 given>>

(* resend_chat: one in the queue becomes due; another is queued again from *)
(* the history.                                                            *)
Resend(s) ==
  /\ thread["ui"].at = "free" /\ ops + deaths < MaxOps /\ ops' = ops + 1
  /\ \E e \in history : e.seq = s /\ e.id # 0
  /\ IF \E i \in 1..Len(queue) : queue[i].seq = s
       THEN /\ queue' = LET first == CHOOSE i \in 1..Len(queue) : queue[i].seq = s /\
                                       \A j \in 1..(i - 1) : queue[j].seq # s
                        IN [queue EXCEPT ![first].due = TRUE]
            /\ thread' = [thread EXCEPT !["ui"] = [Free EXCEPT !.at = "pump"]]
       ELSE /\ thread' = [thread EXCEPT !["ui"] = [Free EXCEPT !.at = "push",
                                          !.hand = <<Pending(s, Entry(s).id, MeantNow)>>]]
            /\ UNCHANGED queue
  /\ slipped' = slipped \cup WhileReconciling(Entry(s).id)
  /\ UNCHANGED <<holder, former, ledger, known, history, nextSeq, file, holders, written, deaths,
                 acked, given>>

Push ==
  /\ thread["ui"].at = "push" /\ queue' = queue \o thread["ui"].hand
  /\ thread' = [thread EXCEPT !["ui"] = [Free EXCEPT !.at = "pump"]]
  /\ UNCHANGED <<world, ledger, known, history, nextSeq, file, acked, given, slipped>>

(* cancel_chat_send: out of the queue, then saved.                         *)
Cancel(s) ==
  /\ thread["ui"].at = "free" /\ ops + deaths < MaxOps /\ ops' = ops + 1
  /\ \E e \in history : e.seq = s /\ e.id # 0
  /\ given' = given \cup {Entry(s).id}
  /\ queue' = Picked(queue, {i \in 1..Len(queue) : queue[i].seq # s})
  /\ thread' = [thread EXCEPT !["ui"] = [Free EXCEPT !.at = "write", !.snap = queue']]
  /\ UNCHANGED <<holder, former, ledger, known, history, nextSeq, file, holders, written, deaths,
                 acked, slipped>>

(* clear_chat_history: the queue, its file, then the history, in which a   *)
(* line stays that keeps the numbers from starting again.                  *)
Erase ==
  /\ thread["ui"].at = "free" /\ ops + deaths < MaxOps /\ ops' = ops + 1
  /\ given' = given \cup {e.id : e \in history} /\ queue' = <<>>
  /\ thread' = [thread EXCEPT !["ui"] = [Free EXCEPT !.at = "write", !.next = "erase"]]
  /\ UNCHANGED <<holder, former, ledger, known, history, nextSeq, file, holders, written, deaths,
                 acked, slipped>>
EraseHistory ==
  /\ thread["ui"].at = "erase" /\ Goto("ui", "free")
  /\ history' = {[seq |-> nextSeq, id |-> 0]} /\ nextSeq' = nextSeq + 1
  /\ given' = given \cup {e.id : e \in history}
  /\ UNCHANGED <<world, ledger, known, queue, file, acked, slipped>>

(* ---- The pump, on the thread that calls it ------------------------------- *)

(* chat_queue_loop.                                                        *)
Wake == /\ thread["queue"].at = "free" /\ queue # <<>>
        /\ thread' = [thread EXCEPT !["queue"] = [Free EXCEPT !.at = "pump"]]
        /\ UNCHANGED <<world, ledger, known, history, nextSeq, queue, file, acked,
                       given, slipped>>

Collect(t) ==
  /\ thread[t].at = "pump"
  /\ LET d == Picked(queue, {i \in 1..Len(queue) : queue[i].due})
     IN thread' = [thread EXCEPT ![t].at = "take", ![t].due = [i \in 1..Len(d) |-> d[i].seq]]
  /\ UNCHANGED <<world, ledger, known, history, nextSeq, queue, file, acked, given,
                 slipped>>

(* Out of the queue before it is tried, so that no other pump tries it.    *)
(* attempt_chat then compares whom the ledger names at the address with    *)
(* whom it named when the message was queued, unless one is unknown.       *)
SamePerson(p, l) == p.meant = {} \/ l = {} \/ p.meant = l
(* send_chat and resend_chat save once more at the end.                    *)
AfterPump(t) == IF t = "ui" THEN [Free EXCEPT !.at = "write", !.snap = queue] ELSE Free
Take(t) ==
  /\ thread[t].at = "take"
  /\ IF thread[t].due = <<>>
       THEN /\ thread' = [thread EXCEPT ![t] = AfterPump(t)]
            /\ UNCHANGED queue
       ELSE LET s == Head(thread[t].due)
                at == {i \in 1..Len(queue) : queue[i].seq = s}
                k == CHOOSE i \in at : \A j \in at : i <= j
            IN IF at = {} THEN /\ thread' = [thread EXCEPT ![t].due = Tail(@)]
                               /\ UNCHANGED queue
               ELSE /\ queue' = SubSeq(queue, 1, k - 1) \o SubSeq(queue, k + 1, Len(queue))
                    /\ thread' = [thread EXCEPT ![t].due = Tail(@), ![t].hand = <<queue[k]>>,
                          ![t].at = IF SamePerson(queue[k], ledger) THEN "connect" ELSE "failed"]
  /\ UNCHANGED <<world, ledger, known, history, nextSeq, file, acked, given, slipped>>

(* open_peer: somebody is there to connect to.                             *)
Reachable == holder # 0

(* deliver_chat: whoever holds the address answers, or nobody does, or the *)
(* acknowledgement is lost.                                                *)
Connect(t) ==
  /\ thread[t].at = "connect"
  /\ LET p == thread[t].hand[1]
     IN \/ Goto(t, "failed") /\ UNCHANGED <<acked>>
        \/ /\ Reachable
           /\ \/ Goto(t, "failed") /\ UNCHANGED acked
              \/ Goto(t, "arrived") /\ acked' = acked \cup {p.id}
  /\ UNCHANGED <<world, ledger, known, history, nextSeq, queue, file, given, slipped>>

(* Not delivered, it is put back, due again in ten seconds.                *)
PutBackNever(p) == queue

PutBack(p) == Append(queue, [p EXCEPT !.due = FALSE])
Settle(t) ==
  /\ thread[t].at \in {"arrived", "failed"}
  /\ LET p == thread[t].hand[1]
     IN queue' = IF thread[t].at = "arrived" THEN queue ELSE PutBack(p)
  /\ thread' = [thread EXCEPT ![t].at = "write", ![t].next = "take",
                              ![t].hand = <<>>, ![t].snap = queue']
  /\ UNCHANGED <<world, ledger, known, history, nextSeq, file, acked, given, slipped>>

(* Ten seconds pass.                                                       *)
Due == /\ \E i \in 1..Len(queue) : ~queue[i].due
       /\ queue' = [i \in 1..Len(queue) |-> [queue[i] EXCEPT !.due = TRUE]]
       /\ UNCHANGED <<world, ledger, known, history, nextSeq, file, thread, acked,
                      given, slipped>>

(* save_chat_queue: the copy is written after the lock is released; when   *)
(* that fails, the old file stays, and nothing tells of it.                *)
WriteFile(t) ==
  /\ thread[t].at = "write"
  /\ \/ file' = thread[t].snap /\ UNCHANGED <<ops, slipped>>
     \/ /\ ops + deaths < MaxOps /\ ops' = ops + 1 /\ UNCHANGED file
        /\ slipped' = IF t = "control" THEN slipped \cup Ids(file) ELSE slipped
  /\ thread' = [thread EXCEPT ![t].snap = <<>>, ![t].at = thread[t].next, ![t].next = "free"]
  /\ UNCHANGED <<holder, former, ledger, known, history, nextSeq, queue, holders, written,
                 deaths, acked, given>>

(* ---- The ledger ----------------------------------------------------------- *)

(* The holder of the address leaves the network, and another one may get it*)
(* before the phone hears of it.                                           *)
HolderChanges ==
  /\ holders < MaxHolder /\ holders' = holders + 1 /\ holder' \in {0, holders'}
  /\ holder # holder'
  /\ UNCHANGED <<ledger, known, history, nextSeq, queue, file, thread, former, written, ops,
                 deaths, acked, given, slipped>>

(* clear_direct: the lines of the phone's own stay.                        *)
WithoutDirect == {e \in history : e.id = 0}

(* A ledger arrives: reconcile_identities compares it with chatids.json.   *)
(* Another identity at the address: the direct history goes.               *)
LedgerArrives ==
  /\ thread["control"].at = "free" /\ ledger # {holder}
  /\ LET replaced == holder # 0 /\ known \notin {0, holder}
         departed == holder = 0 /\ known # 0
     IN /\ thread' = [thread EXCEPT !["control"] =
              [Free EXCEPT !.arg = holder,
                           !.at = IF replaced \/ departed THEN "note" ELSE "remember"]]
        /\ history' = IF replaced THEN WithoutDirect ELSE history
        /\ given' = IF replaced THEN given \cup {e.id : e \in history} ELSE given
  /\ UNCHANGED <<world, ledger, known, nextSeq, queue, file, acked, slipped>>

(* A line tells of it, and keeps the numbers from starting again.          *)
Note ==
  /\ thread["control"].at = "note" /\ Appended(0) /\ Goto("control", "prune")
  /\ UNCHANGED <<world, ledger, known, queue, file, acked, given, slipped>>

(* The messages waiting for the one who is gone are discarded.             *)
Prune ==
  /\ thread["control"].at = "prune"
  /\ queue' = <<>> /\ given' = given \cup Ids(queue)
  /\ slipped' = slipped \cup InHand \cup InSnap \cup Ids(former.held)
                 \cup (Ids(file) \ Ids(queue))
  /\ thread' = [thread EXCEPT !["control"].at = IF queue = <<>> THEN "remember" ELSE "write",
                              !["control"].next = "remember"]
  /\ UNCHANGED <<world, ledger, known, history, nextSeq, file, acked>>

(* Last chatids.json is written, and the ledger stored.                    *)
Remember ==
  /\ thread["control"].at = "remember"
  /\ known' = thread["control"].arg /\ ledger' = {known'}
  /\ thread' = [thread EXCEPT !["control"] = Free]
  /\ UNCHANGED <<world, history, nextSeq, queue, file, acked, given, slipped>>

(* ---- Death, start and reconnect ------------------------------------------- *)

(* NetSession::start: the history without its marks, the queue as it was   *)
(* saved, all of it due at once, and no ledger.                            *)
FromFiles ==
  /\ nextSeq' = LastSeq(history) + 1
  /\ queue' = [i \in 1..Len(file) |-> [file[i] EXCEPT !.due = TRUE]]
  /\ given' = given \cup ((1..written) \ Ids(file))
  /\ ledger' = {} /\ thread' = [t \in Threads |-> Free]
  /\ UNCHANGED <<holder, known, history, file, holders, written, acked, slipped>>

Restart ==
  /\ ops + deaths < MaxOps /\ deaths' = deaths + 1 /\ UNCHANGED ops
  /\ former' = NoSession /\ FromFiles

(* start_tunnel with a session there: the new one is started, then the     *)
(* former one stopped.  A thread of the user interface keeps the former    *)
(* session it is calling, and the one that tries again ends its round.     *)
Reconnect ==
  /\ ops + deaths < MaxOps /\ ops' = ops + 1 /\ UNCHANGED deaths
  /\ ~former.on /\ thread["control"].at = "free"
  /\ thread["ui"].at # "erase" /\ thread["ui"].next # "erase"
  /\ former' = [on |-> TRUE,
                held |-> queue \o thread["ui"].hand \o thread["queue"].hand
                            \o thread["ui"].snap \o thread["queue"].snap,
                ledger |-> ledger]
  /\ FromFiles

(* A pump of the former session delivers one of its messages.              *)
FormerDelivers(k) ==
  /\ k \in 1..Len(former.held) /\ SamePerson(former.held[k], former.ledger) /\ Reachable
  /\ acked' = acked \cup {former.held[k].id}
  /\ former' = [former EXCEPT !.held = Picked(former.held, DOMAIN former.held \ {k})]
  /\ UNCHANGED <<holder, ledger, known, history, nextSeq, queue, file, thread, holders,
                 written, ops, deaths, given, slipped>>

(* It saves its queue, without what is in a hand, over the file of the new *)
(* session, perhaps for the last time.                                     *)
FormerSaves ==
  /\ \E K \in SUBSET DOMAIN former.held : file' = Picked(former.held, K)
  /\ former.on /\ former' \in {former, NoSession}
  /\ UNCHANGED <<holder, ledger, known, history, nextSeq, queue, thread, holders,
                 written, ops, deaths, acked, given, slipped>>

Next ==
  \/ Send \/ Push \/ Erase \/ EraseHistory \/ Wake \/ Due
  \/ \E s \in 1..MaxMsgs : Resend(s) \/ Cancel(s)
  \/ \E t \in {"ui", "queue"} : Collect(t) \/ Take(t) \/ Connect(t) \/ Settle(t)
  \/ \E t \in Threads : WriteFile(t)
  \/ HolderChanges \/ LedgerArrives \/ Note \/ Prune \/ Remember
  \/ Restart \/ Reconnect
  \/ \E k \in 1..Len(former.held) : FormerDelivers(k)
  \/ FormerSaves

Spec == Init /\ [][Next]_chatState

-----------------------------------------------------------------------------
PhoneTypeOK ==
  /\ holder \in 0..MaxHolder /\ known \in 0..MaxHolder
  /\ ledger \in {{}} \cup {{h} : h \in 0..MaxHolder}
  /\ \A i \in 1..Len(queue) : queue[i].id \in 1..MaxMsgs /\ Cardinality(queue[i].meant) <= 1
  /\ \A t \in Threads : Len(thread[t].hand) <= 1
  /\ \A i \in 1..Len(former.held) : former.held[i].id \in 1..MaxMsgs

(* A message nobody cancelled, erased or discarded, and that was in        *)
(* chatq.json whenever a session started, waits in the queue or in a       *)
(* thread's hand until it was acknowledged, whatever the threads of this   *)
(* session and of the former one did at once (pump_chat_queue puts back    *)
(* what it took).  What was not in the file, as a thread of the former     *)
(* session had it in hand or was about to queue or save it, is lost to it: *)
(* see KeptByReconnect.                                                    *)
NothingLost ==
  \A i \in 1..written : i \in acked \cup given \cup Ids(queue) \cup InHand

(* Once chatids.json knows another identity, or nobody, at the address, no *)
(* message for the former one waits in the queue, even after a death in the*)
(* middle of reconcile_identities; but for those in a thread's hand, or in a*)
(* copy or a file about to be replaced, when it was pruned, or queued      *)
(* meanwhile; and unless the pruned queue could not be saved.              *)
DiscardedForGood ==
  thread["control"].at = "free" =>
    \A i \in 1..Len(queue) :
      queue[i].meant \in {{}, {known}} \/ queue[i].id \in slipped

PhoneSound == NothingLost /\ DiscardedForGood

(* The comment in PendingChat: a message is not sent to another person than*)
(* the one it was queued for.                                              *)
NeverToAnother ==
  [][\A t \in {"ui", "queue"} :
       thread[t].at = "connect" /\ thread'[t].at = "arrived"
         => thread[t].hand[1].meant \in {{}, {holder}}]_chatState

(* The doc comment of sending_seqs: what has not yet met its condition is  *)
(* listed as being sent.                                                   *)
SendingListed ==
  \A e \in history : e.id # 0 /\ e.id \notin acked \cup given
                       => \/ \E i \in 1..Len(queue) : queue[i].seq = e.seq
                          \/ thread["ui"].at = "push"

(* The comment in pump_chat_queue: pumps at once never deliver twice, as   *)
(* one message is in the queue or in a hand once.                          *)
OnceQueued ==
  \A i \in 1..written :
    Cardinality({k \in 1..Len(queue) : queue[k].id = i})
      + Cardinality({t \in Threads : i \in Ids(thread[t].hand)}) <= 1

(* The comment of PersistedChat: the messages waiting are kept on disk so  *)
(* that another session goes on sending them.  One that a thread of the    *)
(* user interface has in hand, not yet saved, when the phone reconnects    *)
(* goes back into the queue of the former session, and the file is written *)
(* over by the next save of the new one: no death, no cancellation.        *)
KeptByReconnect ==
  [][Reconnect => Ids(queue) \cup InHand \subseteq Ids(queue') \cup acked]_chatState

(* The file is the queue while no thread is at work.                       *)
SavedAtRest ==
  (\A t \in Threads : thread[t].at = "free") =>
     /\ Ids(file) = Ids(queue)

(* The numbers of the history never start again.                           *)
SeqOnce == \A i \in 1..Len(queue) : \A e \in history :
             e.seq = queue[i].seq => e.id = queue[i].id
=============================================================================
