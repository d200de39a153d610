------------------------------- MODULE MCLive -------------------------------
(***************************************************************************)
(* What must eventually happen, under the fairness each component's        *)
(* scheduling gives: a device that rotates its key, the queue of the chat, *)
(* and the copies of a group.  They share no state, so one run checks them *)
(* side by side: the initial state chooses the part, and only that part    *)
(* moves and is owed anything.                                             *)
(***************************************************************************)
EXTENDS KeyRotation

CONSTANTS Msgs, Direct, Peers, Buddy, Pumps, MaxFail, MaxMiss, MaxRepeat, MaxCancel,
          MaxTrouble, Ipc, Reconcile, Nobody,
          Nodes, Host, Editors, MaxRev, MaxEditRev, MaxName, MaxFlight, MaxLoss

VARIABLES part,
          history, failed, queue, pump, save, queueFile, handling, shown, budget, answered,
          dropped, overlap,
          copies, draft, acked, flight, departed, losses, groupCrashes, wipes

Q == INSTANCE ChatQueue WITH disk <- queueFile, MaxCrash <- 0

chatVars == <<history, failed, queue, pump, save, queueFile, handling, shown, budget,
              answered, dropped, overlap>>

G == INSTANCE GroupGossip WITH store <- copies, crashes <- groupCrashes,
                               Kinds <- {"rename", "prune"}, MaxCrash <- 0, MaxWipe <- 0,
                               MaxUpset <- 0

groupVars == <<copies, draft, acked, flight, departed, losses, groupCrashes, wipes>>

LiveInit == /\ part \in {"key", "chat", "groups"}
            /\ Init /\ Q!Init /\ G!Init
            /\ part # "key" => keySource = "self" /\ ~isolated

KeyStep == Next /\ UNCHANGED <<chatVars, groupVars>>
ChatStep == Q!Next /\ UNCHANGED <<vars, groupVars>>
GroupStep == G!Next /\ UNCHANGED <<vars, chatVars>>

LiveNext == /\ UNCHANGED part
            /\ \/ part = "key" /\ KeyStep
               \/ part = "chat" /\ ChatStep
               \/ part = "groups" /\ GroupStep

\* The fairness of KeyRotation, of ChatQueue and of GroupGossip, each owed by the
\* behaviours of its own part.
KeyFair ==
    /\ WF_vars(part = "key" /\ TickActs) /\ WF_vars(part = "key" /\ HostSync)
    /\ WF_vars(part = "key" /\ Hear) /\ WF_vars(part = "key" /\ Silence)
    /\ WF_vars(part = "key" /\ Start) /\ WF_vars(part = "key" /\ MendEdit)
    /\ WF_vars(part = "key" /\ NetUp)

ChatFair ==
    /\ WF_chatVars(part = "chat" /\ \E s \in Q!Savers : Q!Save(s))
    /\ WF_chatVars(part = "chat" /\ \E t \in Pumps : Q!Delivery(t))
    /\ WF_chatVars(part = "chat" /\ \E t \in Pumps, m \in Msgs :
                                        Q!PumpTake(t, m, Q!Audience(m)))
    /\ WF_chatVars(part = "chat" /\ \E h \in handling : Q!Receiver(h))

GroupFair ==
    /\ \A n \in Nodes, t \in G!Tasks :
        WF_groupVars(part = "groups" /\ G!FinishEdit(n, t))
    /\ \A n \in Nodes : WF_groupVars(part = "groups" /\ G!BeginPrune(n))
    /\ \A n, m \in Nodes :
        /\ WF_groupVars(part = "groups" /\ G!SyncSend(n, m))
        /\ WF_groupVars(part = "groups" /\
                        \E x \in flight : x.from = n /\ x.to = m /\ G!Exchange(x))

LiveSpec == /\ LiveInit /\ [][LiveNext]_<<part, vars, chatVars, groupVars>>
            /\ KeyFair /\ ChatFair /\ GroupFair

(* After the last fault the member and the host meet again on one key      *)
(* (maybe_rotate_member_key, the retries with the other file).             *)
KeysMeet == part = "key" => Reconverges

(* A message reaches each of its peers while the daemon runs (the pump's   *)
(* rounds).                                                                *)
Delivered == part = "chat" => Q!Delivered

(* The members of a group come to one revision, whatever was lost (the     *)
(* retries of sync_groups).                                                *)
SameRevision == part = "groups" => G!SameRevision
=============================================================================
