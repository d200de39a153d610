------------------------------ MODULE ChatQueue ------------------------------
(***************************************************************************)
(* The queue of chat messages waiting to be sent.  Tasks of the daemon     *)
(* share it: IPC requests, one at a time; reconcile, which drops messages  *)
(* to members that were replaced; and any number of pumps, started after   *)
(* each request and every five seconds.  A pump takes a message out of     *)
(* the queue, sends it to each peer it finds online, and puts it back if   *)
(* it was not delivered: to its peer, or to anyone at all if it is for     *)
(* the network or a group.  Every task saves the queue after its change:   *)
(* a snapshot under the lock, written out after it is released.            *)
(*                                                                         *)
(* The receiver answers each message with an ack and recognises by its id  *)
(* one that it has.  Which peers a pump finds online is left open.         *)
(***************************************************************************)
EXTENDS Naturals, Sequences, FiniteSets

CONSTANTS
    Msgs,          \* messages the user may send
    Direct,        \* those to one peer, the others go to all
    Peers,         \* the other devices
    Buddy,         \* the peer of the direct messages
    Pumps,         \* pumps running at one time
    MaxFail,       \* exchanges that fail on the sender's side
    MaxMiss,       \* times a pump finds a peer offline
    MaxRepeat,     \* manual resends
    MaxCancel,     \* messages cancelled or cleared by the user or by reconcile
    MaxCrash,      \* ends of the daemon
    MaxTrouble     \* all of these together

CONSTANTS
    Ipc, Reconcile,    \* the other tasks that save
    Nobody             \* whom an ack goes to that no one waits for

ASSUME ChatAssumption ==
    /\ Direct \subseteq Msgs /\ Buddy \in Peers
    /\ IsFiniteSet(Pumps)
    /\ {Ipc, Reconcile, Nobody} \cap Pumps = {} /\ Ipc # Reconcile
    /\ MaxFail \in Nat /\ MaxMiss \in Nat /\ MaxRepeat \in Nat
    /\ MaxCancel \in Nat /\ MaxCrash \in Nat /\ MaxTrouble \in Nat

Savers == Pumps \cup {Ipc, Reconcile}

\* PendingChat: a copy of a message and the peers that have acked it.
Copies == [msg : Msgs, delivered : SUBSET Peers]
Fresh(m) == [msg |-> m, delivered |-> {}]

\* A task that saves is about to lock the queue, about to write, or neither.
NoSave == [step |-> "none", image |-> <<>>]
ToLock == [step |-> "lock", image |-> <<>>]
ToWrite(q) == [step |-> "write", image |-> q]

\* A pump: the copy it has taken out, if any, the peers yet to try and the one
\* it waits for, if any.
Idle == [held |-> {}, todo |-> {}, now |-> {}]

VARIABLES
    history,   \* messages in the sender's chat history
    failed,    \* those marked as failed
    queue,     \* the queue: a sequence of copies
    pump,      \* per pump: what it is doing
    save,      \* per task: its save under way
    disk,      \* the queue in the file
    handling,  \* receivers' handlers: message, peer, pump, step
    shown,     \* per peer and message: entries in the peer's history
    budget,    \* what may still go wrong
    answered,  \* history: messages whose chat_send has returned
    dropped,   \* history: messages cancelled, cleared or discarded
    overlap    \* history: two handlers of one message on one peer at a time

mine == <<history, failed, queue, pump, save, disk, answered>>
past == <<answered, dropped, overlap>>
vars == <<history, failed, queue, pump, save, disk, handling, shown, budget,
          answered, dropped, overlap>>

Budget == [fail : 0 .. MaxFail, miss : 0 .. MaxMiss, repeat : 0 .. MaxRepeat,
           cancel : 0 .. MaxCancel, crash : 0 .. MaxCrash, any : 0 .. MaxTrouble]

Init ==
    /\ history = {} /\ failed = {} /\ queue = <<>> /\ disk = <<>>
    /\ pump = [t \in Pumps |-> Idle]
    /\ save = [s \in Savers |-> NoSave]
    /\ handling = {} /\ shown = [x \in Peers |-> [m \in Msgs |-> 0]]
    /\ budget = [fail |-> MaxFail, miss |-> MaxMiss, repeat |-> MaxRepeat,
                 cancel |-> MaxCancel, crash |-> MaxCrash, any |-> MaxTrouble]
    /\ answered = {} /\ dropped = {} /\ overlap = FALSE

Audience(m) == IF m \in Direct THEN {Buddy} ELSE Peers

\* Delivered: to its peer, or to one of many.
Done(c) == IF c.msg \in Direct THEN Buddy \in c.delivered ELSE c.delivered # {}

Queued(m) == \E i \in DOMAIN queue : queue[i].msg = m
First(m) == CHOOSE i \in DOMAIN queue :
                queue[i].msg = m /\ \A j \in 1 .. i - 1 : queue[j].msg # m
Without(q, i) == SubSeq(q, 1, i - 1) \o SubSeq(q, i + 1, Len(q))

\* Vec::retain: the copies of the messages in S, in their order.
Retained(q, S) ==
    LET upTo[n \in 0 .. Len(q)] ==
            IF n = 0 THEN <<>>
            ELSE IF q[n].msg \in S THEN Append(upTo[n - 1], q[n]) ELSE upTo[n - 1]
    IN  upTo[Len(q)]

Spend(what) ==
    /\ budget[what] > 0 /\ budget.any > 0
    /\ budget' = [budget EXCEPT ![what] = @ - 1, !.any = @ - 1]

-----------------------------------------------------------------------------
(* Requests of the user, each followed by a save.                          *)

Request == save[Ipc] = NoSave /\ save' = [save EXCEPT ![Ipc] = ToLock]

\* chat_send
ChatSend(m) ==
    /\ Request /\ m \notin history \cup dropped
    /\ history' = history \cup {m}
    /\ queue' = Append(queue, Fresh(m))
    /\ UNCHANGED <<failed, pump, disk, handling, shown, budget, past>>

\* A pump may put back a message whose history was cleared meanwhile.
Exists(m) == m \in history \/ Queued(m)

\* chat_resend: from the history, unless the queue has it.
ChatResend(m) ==
    /\ Request /\ Exists(m) /\ Spend("repeat")
    /\ queue' = IF Queued(m) THEN queue ELSE Append(queue, Fresh(m))
    /\ UNCHANGED <<history, failed, pump, disk, handling, shown, past>>

\* chat_cancel_send
ChatCancelSend(m) ==
    /\ Request /\ Exists(m) /\ Spend("cancel")
    /\ queue' = Retained(queue, Msgs \ {m})
    /\ failed' = failed \cup ({m} \cap history)
    /\ dropped' = dropped \cup {m}
    /\ UNCHANGED <<history, pump, disk, handling, shown, answered, overlap>>

\* ChatClearAll
ChatClearAll ==
    /\ Request /\ Spend("cancel")
    /\ history' = {} /\ failed' = {} /\ queue' = <<>>
    /\ dropped' = dropped \cup history
    /\ UNCHANGED <<pump, disk, handling, shown, answered, overlap>>

\* reconcile_identities: the buddy was removed, or (clears) replaced by another
\* member; a save only if the queue changed.
Discard(clears) ==
    LET rest == Retained(queue, Msgs \ Direct) IN
    /\ save[Reconcile] = NoSave /\ Spend("cancel")
    /\ history' = IF clears THEN history \ Direct ELSE history
    /\ failed' = IF clears THEN failed \ Direct ELSE failed
    /\ queue' = rest
    /\ save' = IF rest = queue THEN save ELSE [save EXCEPT ![Reconcile] = ToLock]
    /\ dropped' = dropped \cup (history \cap Direct)
    /\ UNCHANGED <<pump, disk, handling, shown, answered, overlap>>

-----------------------------------------------------------------------------
(* save_queue                                                              *)

SnapshotQueue(s) ==
    /\ save[s] = ToLock
    /\ save' = [save EXCEPT ![s] = ToWrite(queue)]
    /\ UNCHANGED <<history, failed, queue, pump, disk, handling, shown, budget, past>>

WriteQueue(s) ==
    /\ save[s].step = "write"
    /\ disk' = save[s].image
    /\ save' = [save EXCEPT ![s] = NoSave]
    /\ answered' = IF s = Ipc THEN history ELSE answered
    /\ UNCHANGED <<history, failed, queue, pump, handling, shown, budget, dropped,
                   overlap>>

-----------------------------------------------------------------------------
(* pump_chat_queue                                                         *)

\* queue_targets: the peers of a message that are online and still themselves.
Targets(m, S) ==
    /\ S \subseteq Audience(m)
    /\ IF S = Audience(m) THEN UNCHANGED budget ELSE Spend("miss")

\* Mutant of PumpTake: the message stays in the queue while it is delivered.
PumpTake_Copy(t, m, targets) ==
    /\ pump[t] = Idle /\ save[t] = NoSave /\ Queued(m)
    /\ Targets(m, targets)
    /\ LET c == queue[First(m)] IN
        pump' = [pump EXCEPT ![t] =
                    [held |-> {c}, todo |-> targets \ c.delivered, now |-> {}]]
    /\ UNCHANGED <<history, failed, queue, save, disk, handling, shown, past>>

\* Mutant of PumpTake: the next message is taken out before this one is done.
PumpTake_Greedy(t, m, targets) ==
    /\ save[t] = NoSave /\ Queued(m)
    /\ Targets(m, targets)
    /\ LET c == queue[First(m)] IN
        pump' = [pump EXCEPT ![t].held = @ \cup {c}, ![t].todo = targets \ c.delivered]
    /\ queue' = Without(queue, First(m))
    /\ UNCHANGED <<history, failed, save, disk, handling, shown, past>>

\* A message is due, in the round of this pump, and still there: its first copy
\* is taken out.
PumpTake(t, m, targets) ==
    /\ pump[t] = Idle /\ save[t] = NoSave /\ Queued(m)
    /\ Targets(m, targets)
    /\ LET c == queue[First(m)] IN
        pump' = [pump EXCEPT ![t] =
                    [held |-> {c}, todo |-> targets \ c.delivered, now |-> {}]]
    /\ queue' = Without(queue, First(m))
    /\ UNCHANGED <<history, failed, save, disk, handling, shown, past>>

Held(t) == CHOOSE c \in pump[t].held : TRUE
Handler(t, x, step) == [msg |-> Held(t).msg, to |-> x, by |-> t, step |-> step]

\* send_chat_to: the message is on its way to the next peer.
PumpSend(t, x) ==
    /\ pump[t].held # {} /\ pump[t].now = {} /\ x \in pump[t].todo
    /\ pump' = [pump EXCEPT ![t].now = {x}, ![t].todo = @ \ {x}]
    /\ handling' = handling \cup {Handler(t, x, "new")}
    /\ UNCHANGED <<history, failed, queue, save, disk, shown, budget, past>>

\* The ack arrives.
PumpAcked(t) ==
    \E x \in pump[t].now :
    /\ Handler(t, x, "acked") \in handling
    /\ handling' = handling \ {Handler(t, x, "acked")}
    /\ pump' = [pump EXCEPT ![t] =
                    [held |-> {[Held(t) EXCEPT !.delivered = @ \cup {x}]},
                     todo |-> pump[t].todo, now |-> {}]]
    /\ UNCHANGED <<history, failed, queue, save, disk, shown, budget, past>>

\* The receiver goes on with what it got, and its ack goes nowhere.
Abandoned(S) ==
    {h \in handling : h.by \notin S}
        \cup {[h EXCEPT !.by = Nobody] : h \in {g \in handling : g.by \in S /\ g.step # "acked"}}

\* Mutant of PumpFail: a timeout is taken for success.
PumpFail_Trust(t) ==
    \E x \in pump[t].now :
    /\ Spend("fail")
    /\ pump' = [pump EXCEPT ![t] =
                    [held |-> {[Held(t) EXCEPT !.delivered = @ \cup {x}]},
                     todo |-> pump[t].todo, now |-> {}]]
    /\ handling' = {h \in handling : h.by # t}
    /\ UNCHANGED <<history, failed, queue, save, disk, shown, past>>

\* No connection (nothing has arrived), or no ack in time.
PumpFail(t) ==
    /\ pump[t].now # {} /\ Spend("fail")
    /\ pump' = [pump EXCEPT ![t].now = {}]
    /\ \/ /\ \A h \in handling : h.by = t => h.step = "new"
          /\ handling' = {h \in handling : h.by # t}
       \/ handling' = Abandoned({t})
    /\ UNCHANGED <<history, failed, queue, save, disk, shown, past>>

\* Mutant of PumpFinish: what was not delivered is not put back.
PumpFinish_Drop(t) ==
    /\ pump[t].held # {} /\ pump[t].now = {} /\ pump[t].todo = {}
    /\ pump' = [pump EXCEPT ![t].held = {}]
    /\ save' = [save EXCEPT ![t] = ToLock]
    /\ UNCHANGED <<history, failed, queue, disk, handling, shown, budget, past>>

\* All were tried: the mark is cleared, or set and the copy put back.
PumpFinish(t) ==
    /\ pump[t].held # {} /\ pump[t].now = {} /\ pump[t].todo = {}
    /\ LET c == Held(t) IN
        /\ failed' = IF Done(c) THEN failed \ {c.msg}
                     ELSE failed \cup ({c.msg} \cap history)
        /\ queue' = IF Done(c) THEN queue ELSE Append(queue, c)
    /\ pump' = [pump EXCEPT ![t].held = {}]
    /\ save' = [save EXCEPT ![t] = ToLock]
    /\ UNCHANGED <<history, disk, handling, shown, budget, past>>

-----------------------------------------------------------------------------
(* The receiver: handle_incoming, one task for each connection.            *)

Moved(h, step) ==
    (handling \ {h}) \cup
        (IF step = "acked" /\ h.by = Nobody THEN {} ELSE {[h EXCEPT !.step = step]})

\* Mutant of Check: every message is taken for a new one.
Check_None(h) ==
    /\ h \in handling /\ h.step = "new"
    /\ handling' = Moved(h, "append")
    /\ overlap' = (overlap \/ \E g \in handling :
                       g.msg = h.msg /\ g.to = h.to /\ g.step = "append")
    /\ UNCHANGED <<mine, shown, budget, dropped>>

\* contains_id: a message it has is only acked.
Check(h) ==
    /\ h \in handling /\ h.step = "new"
    /\ handling' = Moved(h, IF shown[h.to][h.msg] > 0 THEN "acked" ELSE "append")
    /\ overlap' = (overlap \/ \E g \in handling :
                       g.msg = h.msg /\ g.to = h.to /\ g.step = "append")
    /\ UNCHANGED <<mine, shown, budget, dropped>>

\* The message is appended to the history and acked.
Show(h) ==
    /\ h \in handling /\ h.step = "append"
    /\ shown' = [shown EXCEPT ![h.to][h.msg] = @ + 1]
    /\ handling' = Moved(h, "acked")
    /\ UNCHANGED <<mine, budget, dropped, overlap>>

-----------------------------------------------------------------------------
\* The daemon ends and starts again: the queue comes from the file (load_queue),
\* the history from its own; the marks are not kept.
Crash ==
    /\ Spend("crash")
    /\ queue' = disk /\ failed' = {}
    /\ pump' = [t \in Pumps |-> Idle] /\ save' = [s \in Savers |-> NoSave]
    /\ handling' = Abandoned(Pumps)
    /\ UNCHANGED <<history, disk, shown, past>>

User == \/ \E m \in Msgs : ChatSend(m) \/ ChatResend(m) \/ ChatCancelSend(m)
        \/ ChatClearAll
Save(s) == SnapshotQueue(s) \/ WriteQueue(s)
Take(t) == \E m \in Msgs, S \in SUBSET Peers : PumpTake(t, m, S)
Delivery(t) ==
    \/ \E x \in Peers : PumpSend(t, x)
    \/ PumpAcked(t) \/ PumpFail(t) \/ PumpFinish(t)
Receiver(h) == Check(h) \/ Show(h)

Next ==
    \/ User \/ \E clears \in BOOLEAN : Discard(clears)
    \/ \E s \in Savers : Save(s)
    \/ \E t \in Pumps : Take(t) \/ Delivery(t)
    \/ \E h \in handling : Receiver(h)
    \/ Crash

Spec == Init /\ [][Next]_vars

\* Some task that can go on does; the five-second timer starts rounds, and a
\* message is due ten seconds after it was tried.
FairSpec ==
    /\ Spec
    /\ WF_vars(\E s \in Savers : Save(s))
    /\ WF_vars(\E t \in Pumps : Delivery(t))
    /\ WF_vars(\E t \in Pumps, m \in Msgs : PumpTake(t, m, Audience(m)))
    /\ WF_vars(\E h \in handling : Receiver(h))
-----------------------------------------------------------------------------
(* Properties.                                                             *)

Everywhere == {queue[i] : i \in DOMAIN queue} \cup {disk[i] : i \in DOMAIN disk}
                \cup UNION {pump[t].held : t \in Pumps}

\* Every variable has its type, and a pump holds at most one copy.
TypeOK ==
    /\ history \subseteq Msgs /\ failed \subseteq history
    /\ Everywhere \subseteq Copies
    /\ pump \in [Pumps -> [held : SUBSET Copies, todo : SUBSET Peers, now : SUBSET Peers]]
    /\ \A t \in Pumps : Cardinality(pump[t].held) <= 1 /\ Cardinality(pump[t].now) <= 1
    /\ \A s \in Savers : save[s].step \in {"none", "lock", "write"}
    /\ handling \subseteq [msg : Msgs, to : Peers, by : Pumps \cup {Nobody},
                           step : {"new", "append", "acked"}]
    /\ shown \in [Peers -> [Msgs -> Nat]] /\ budget \in Budget
    /\ answered \subseteq Msgs /\ dropped \subseteq Msgs /\ overlap \in BOOLEAN

\* A peer that counts as having a message has it, also after a restart from an
\* old file: so none is left out by a retry that lacks it.
DeliveredTrue ==
    \A c \in Everywhere : \A x \in c.delivered : shown[x][c.msg] > 0

\* How many copies of a message are queued or being delivered.
Alive(m) ==
    Cardinality({i \in DOMAIN queue : queue[i].msg = m})
        + Cardinality({t \in Pumps : \E c \in pump[t].held : c.msg = m})

\* pump_chat_queue: however many pumps run at once, a message is delivered by
\* one at a time and never queued twice, unless the user repeats it.
OneAtATime == budget.repeat = MaxRepeat => \A m \in Msgs : Alive(m) <= 1

\* PendingChat: a retry of what the peer has does not show up again, as long as
\* its connections do not overlap at the peer.
ShownOnce == ~overlap => \A x \in Peers, m \in Msgs : shown[x][m] <= 1

Heard(m) == \E x \in Audience(m) : shown[x][m] > 0

Kept(m) == Heard(m) \/ Alive(m) > 0

\* chat.rs: retries go on across restarts of the daemon.  Once chat_send has
\* returned, what was neither delivered nor cancelled is queued for another try.
KeptForRetry == \A m \in answered \ dropped : Kept(m)

\* While the daemon runs, whatever is repeated, cancelled or fails, a message
\* that was neither delivered nor cancelled is queued or being tried.
NoSilentLoss == budget.crash = MaxCrash => \A m \in history \ dropped : Kept(m)

\* A message that is sent gets through when its peers are there, while the
\* daemon runs and no one cancels it.
Delivered ==
    \A m \in Msgs :
      m \in history ~> (Heard(m) \/ m \in dropped \/ budget.crash < MaxCrash)

\* Pumps are alike: what TLC may exchange.
Symmetry == {[t \in Pumps |-> f[t]] : f \in
               {g \in [Pumps -> Pumps] : \A t, u \in Pumps : g[t] = g[u] => t = u}}
=============================================================================
