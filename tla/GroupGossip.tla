----------------------------- MODULE GroupGossip -----------------------------
(***************************************************************************)
(* Chat groups.  A group has no server: every device of its members, and   *)
(* the host of the network, keeps a full copy with a revision, and members *)
(* send their copy to each other.  The newer revision wins, and of two     *)
(* with one revision the one whose author has the higher address.  A       *)
(* device sends its copy right after an edit to who is online, and again   *)
(* every 30 seconds to each current member that is not known to have that  *)
(* revision.  It takes an update only from a member of the copy it has.    *)
(*                                                                         *)
(* One group is modelled; devices are numbered by their address.           *)
(***************************************************************************)
EXTENDS Naturals, FiniteSets

CONSTANTS
    Nodes,         \* addresses
    Host,          \* the network's host
    Kinds,         \* kinds of edits that happen
    Editors,       \* devices whose users edit
    MaxRev,        \* highest revision
    MaxEditRev,    \* highest revision of a user's edit: leaves room for reconcile
    MaxName,       \* names a group may have
    MaxFlight,     \* exchanges at one time
    MaxLoss,       \* exchanges that fail
    MaxCrash,      \* daemons that restart
    MaxWipe,       \* group files that are lost
    MaxUpset       \* both together

ASSUME GossipAssumption ==
    /\ Nodes \subseteq Nat \ {0} /\ Host \in Nodes /\ Editors \subseteq Nodes
    /\ MaxRev \in Nat /\ MaxEditRev \in Nat /\ MaxName \in Nat \ {0} /\ MaxFlight \in Nat
    /\ MaxLoss \in Nat /\ MaxCrash \in Nat /\ MaxWipe \in Nat

\* GroupInfo: a copy, its revision and the address of its author.
Groups == [rev : 1 .. MaxRev, by : Nodes, members : SUBSET Nodes, name : 1 .. MaxName]
NoGroup == [rev |-> 0, by |-> 0, members |-> {}, name |-> 0]

\* An edit under way: the copy to be, and who is to have it at once.
Drafts == [group : Groups, to : SUBSET Nodes]
NoDraft == [group |-> NoGroup, to |-> {}]

\* The two tasks of a daemon that edit: IPC requests, one at a time, and
\* reconcile, which follows the member list.
Tasks == {"ipc", "reconcile"}

Exchanges == [from : Nodes, to : Nodes, group : Groups, acked : BOOLEAN]

VARIABLES
    store,     \* per device: its copy, in memory and on disk
    draft,     \* per device and task: the edit under way
    acked,     \* per device: the revision each other device is known to have
    flight,    \* exchanges under way: update sent, or ack sent back
    departed,  \* addresses that left the network
    losses, crashes, wipes

faults == <<losses, crashes, wipes>>
vars == <<store, draft, acked, flight, departed, losses, crashes, wipes>>

Init ==
    /\ store = [n \in Nodes |-> NoGroup]
    /\ draft = [n \in Nodes |-> [t \in Tasks |-> NoDraft]]
    /\ acked = [n \in Nodes |-> [m \in Nodes |-> 0]]
    /\ flight = {} /\ departed = {}
    /\ losses = 0 /\ crashes = 0 /\ wipes = 0

-----------------------------------------------------------------------------
(* GroupStore.                                                             *)

Knows(n) == store[n].rev > 0
Member(n) == n \in store[n].members

\* Mutant of Merge: any copy of the same revision is taken.
Merge_Latest(h, g) == IF g.rev >= h.rev THEN g ELSE h

\* apply: the newest revision wins, the higher author among equals.
Newer(g, h) == g.rev > h.rev \/ (g.rev = h.rev /\ g.by > h.by)
Merge(h, g) == IF Newer(g, h) THEN g ELSE h

\* accepts_update: only members of the copy at hand are listened to.
Accepts(n, g, sender) == sender \in (IF Knows(n) THEN store[n].members ELSE g.members)

\* mark_acked
Higher(a, b) == IF a > b THEN a ELSE b

Update(n, m, g) == [from |-> n, to |-> m, group |-> g, acked |-> FALSE]

-----------------------------------------------------------------------------
(* Edits: the copy is read, changed, applied and sent.                     *)

Began(n, t, g, recipients) ==
    /\ draft[n][t] = NoDraft /\ g.rev <= MaxRev /\ n \notin departed
    /\ draft' = [draft EXCEPT ![n][t] = [group |-> g, to |-> recipients \ {n}]]
    /\ UNCHANGED <<store, acked, flight, departed, faults>>

\* Mutant of Create: revisions start at zero.
Create_FromZero(n) ==
    \E S \in SUBSET (Nodes \ departed) :
    /\ n \in Editors /\ n \in S /\ Cardinality(S) >= 2
    /\ \A m \in Nodes : ~Knows(m) /\ \A t \in Tasks : draft[m][t] = NoDraft
    /\ Began(n, "ipc", [rev |-> 0, by |-> n, members |-> S, name |-> 1], S \cup {Host})

\* group_create
Create(n) ==
    \E S \in SUBSET (Nodes \ departed) :
    /\ n \in Editors /\ n \in S /\ Cardinality(S) >= 2
    /\ \A m \in Nodes : ~Knows(m) /\ \A t \in Tasks : draft[m][t] = NoDraft
    /\ wipes = 0 /\ 1 <= MaxRev
    /\ Began(n, "ipc", [rev |-> 1, by |-> n, members |-> S, name |-> 1], S \cup {Host})

\* Mutant of Changed: the author of the previous revision stays.
Changed_KeepAuthor(n, S, name) ==
    [rev |-> store[n].rev + 1, by |-> store[n].by, members |-> S, name |-> name]

Changed(n, S, name) ==
    [rev |-> store[n].rev + 1, by |-> n, members |-> S, name |-> name]

\* group_update: rename, add, remove; who is removed is told as well.
BeginUpdate(n) ==
    \E S \in SUBSET Nodes, name \in 1 .. MaxName :
    /\ (S \ store[n].members) \cap departed = {}
    /\ n \in Editors /\ Knows(n) /\ Member(n) /\ n \in S
    /\ store[n].rev < MaxEditRev
    /\ name # store[n].name => "rename" \in Kinds
    /\ ~(S \subseteq store[n].members) => "add" \in Kinds
    /\ ~(store[n].members \subseteq S) => "kick" \in Kinds
    /\ <<S, name>> # <<store[n].members, store[n].name>>
    /\ Began(n, "ipc", Changed(n, S, name), S \cup store[n].members \cup {Host})

\* group_leave
BeginLeave(n) ==
    /\ "leave" \in Kinds /\ n \in Editors /\ Knows(n) /\ Member(n)
    /\ store[n].rev < MaxEditRev
    /\ Began(n, "ipc", Changed(n, store[n].members \ {n}, store[n].name),
             (store[n].members \ {n}) \cup {Host})

\* reconcile, prune_departed: who left the network is taken out.
BeginPrune(n) ==
    LET rest == store[n].members \ departed IN
    /\ Knows(n) /\ Member(n) /\ rest # store[n].members
    /\ Began(n, "reconcile", Changed(n, rest, store[n].name), rest)

\* The copy is applied and saved; whether or not it was, it goes out to those
\* of the recipients that are online.
FinishEdit(n, t) ==
    /\ draft[n][t] # NoDraft
    /\ store' = [store EXCEPT ![n] = Merge(@, draft[n][t].group)]
    /\ \E S \in SUBSET (draft[n][t].to \ departed) :
        flight' = flight \cup {Update(n, m, draft[n][t].group) : m \in S}
    /\ Cardinality(flight') <= MaxFlight
    /\ draft' = [draft EXCEPT ![n][t] = NoDraft]
    /\ UNCHANGED <<acked, departed, faults>>

-----------------------------------------------------------------------------
(* Exchanges.                                                              *)

\* Mutant of SyncSend: what was sent counts as received.
SyncSend_Once(n, m) ==
    /\ Knows(n) /\ Member(n) /\ n # m /\ m \in store[n].members \cup {Host}
    /\ {n, m} \cap departed = {}
    /\ acked[n][m] < store[n].rev
    /\ ~\E x \in flight : x.from = n /\ x.to = m
    /\ flight' = flight \cup {Update(n, m, store[n])}
    /\ Cardinality(flight') <= MaxFlight
    /\ acked' = [acked EXCEPT ![n][m] = store[n].rev]
    /\ UNCHANGED <<store, draft, departed, faults>>

\* pending_sync: the supervisor's retry, for a group the device is a member of,
\* to its members and the host.
SyncSend(n, m) ==
    /\ Knows(n) /\ Member(n) /\ n # m /\ m \in store[n].members \cup {Host}
    /\ {n, m} \cap departed = {}
    /\ acked[n][m] < store[n].rev
    /\ ~\E x \in flight : x.from = n /\ x.to = m
    /\ flight' = flight \cup {Update(n, m, store[n])}
    /\ Cardinality(flight') <= MaxFlight
    /\ UNCHANGED <<store, draft, acked, departed, faults>>

\* handle_incoming, GroupUpdate: the sender has this revision; the copy is
\* merged; the answer is the same whether it was taken or not.
Receive(x) ==
    LET n == x.to IN
    /\ x \in flight /\ ~x.acked /\ n \notin departed
    /\ Accepts(n, x.group, x.from)
    /\ acked' = [acked EXCEPT ![n][x.from] = Higher(@, x.group.rev)]
    /\ store' = [store EXCEPT ![n] = Merge(@, x.group)]
    /\ flight' = (flight \ {x}) \cup {[x EXCEPT !.acked = TRUE]}
    /\ UNCHANGED <<draft, departed, faults>>

\* An update from a device that is no member is not answered.
Reject(x) ==
    /\ x \in flight /\ ~x.acked /\ x.to \notin departed
    /\ ~Accepts(x.to, x.group, x.from)
    /\ flight' = flight \ {x}
    /\ UNCHANGED <<store, draft, acked, departed, faults>>

\* Mutant of ReceiveAck: the revision the sender has by now is recorded.
ReceiveAck_Current(x) ==
    /\ x \in flight /\ x.acked
    /\ acked' = [acked EXCEPT ![x.from][x.to] = Higher(@, store[x.from].rev)]
    /\ flight' = flight \ {x}
    /\ UNCHANGED <<store, draft, departed, faults>>

\* The ack arrives at the sender.
ReceiveAck(x) ==
    /\ x \in flight /\ x.acked
    /\ acked' = [acked EXCEPT ![x.from][x.to] = Higher(@, x.group.rev)]
    /\ flight' = flight \ {x}
    /\ UNCHANGED <<store, draft, departed, faults>>

-----------------------------------------------------------------------------
(* Faults.                                                                 *)

\* The connection fails before the update or the ack is through.
Lose(x) ==
    /\ x \in flight /\ losses < MaxLoss /\ losses' = losses + 1
    /\ flight' = flight \ {x}
    /\ UNCHANGED <<store, draft, acked, departed, crashes, wipes>>

\* The daemon of a device ends, and with it what it was sending.
Halted(n, ends) ==
    /\ draft' = [draft EXCEPT ![n] = [t \in Tasks |-> NoDraft]]
    /\ acked' = [acked EXCEPT ![n] = [m \in Nodes |-> 0]]
    /\ flight' = flight \ ends

\* The daemon restarts: the copy comes back from its file, acks do not.
Crash(n) ==
    /\ crashes < MaxCrash /\ crashes + wipes < MaxUpset /\ crashes' = crashes + 1
    /\ Halted(n, {x \in flight : x.from = n})
    /\ UNCHANGED <<store, departed, losses, wipes>>

\* The daemon restarts and cannot read the file: it starts without groups.
Wipe(n) ==
    /\ wipes < MaxWipe /\ crashes + wipes < MaxUpset /\ wipes' = wipes + 1
    /\ Halted(n, {x \in flight : x.from = n})
    /\ store' = [store EXCEPT ![n] = NoGroup]
    /\ UNCHANGED <<departed, losses, crashes>>

\* A device is removed from the network and cannot be reached any more.
Depart(n) ==
    /\ "prune" \in Kinds /\ n \notin departed /\ n # Host
    /\ departed' = departed \cup {n}
    /\ Halted(n, {x \in flight : n \in {x.from, x.to}})
    /\ UNCHANGED <<store, faults>>

Edit(n) == Create(n) \/ BeginUpdate(n) \/ BeginLeave(n) \/ BeginPrune(n)
Exchange(x) == Receive(x) \/ Reject(x) \/ ReceiveAck(x)

Next ==
    \/ \E n \in Nodes : Edit(n) \/ Crash(n) \/ Wipe(n) \/ Depart(n)
    \/ \E n \in Nodes, t \in Tasks : FinishEdit(n, t)
    \/ \E n, m \in Nodes : SyncSend(n, m)
    \/ \E x \in flight : Exchange(x) \/ Lose(x)

Spec == Init /\ [][Next]_vars

\* Devices are online often enough: every retry is made in the end, and an
\* exchange that is not cut comes to its end.
FairSpec ==
    /\ Spec
    /\ \A n \in Nodes, t \in Tasks : WF_vars(FinishEdit(n, t))
    /\ \A n \in Nodes : WF_vars(BeginPrune(n))
    /\ \A n, m \in Nodes :
        /\ WF_vars(SyncSend(n, m))
        /\ WF_vars(\E x \in flight : x.from = n /\ x.to = m /\ Exchange(x))

-----------------------------------------------------------------------------
(* Properties.                                                             *)

\* Every variable has its type.
TypeOK ==
    /\ store \in [Nodes -> Groups \cup {NoGroup}]
    /\ draft \in [Nodes -> [Tasks -> Drafts \cup {NoDraft}]]
    /\ acked \in [Nodes -> [Nodes -> 0 .. MaxRev]]
    /\ flight \subseteq Exchanges /\ departed \subseteq Nodes
    /\ losses \in 0 .. MaxLoss /\ crashes \in 0 .. MaxCrash /\ wipes \in 0 .. MaxWipe

\* mark_acked: while no group file is lost, a device that is taken to have a
\* revision, and is sent it no more, does have it or a later one.
AckSound == wipes = 0 => \A n, m \in Nodes : acked[n][m] <= store[m].rev

\* apply: a copy is never replaced by an older one, nor by another of the same
\* revision and author.
OnlyForward ==
    [][\A n \in Nodes : store'[n] # store[n] => Newer(store'[n], store[n]) \/ wipes' # wipes]_vars

\* Two devices that name the same revision and author have the same group, as
\* the choice between equal revisions supposes: a user's edits are made one
\* after the other.  (Once a device has left, reconcile edits beside them.)
SameVersionSameGroup ==
    (wipes = 0 /\ departed = {}) => \A n, m \in Nodes :
        store[n].rev = store[m].rev /\ store[n].by = store[m].by => store[n] = store[m]

Content(g) == <<g.members, g.name>>
Current(n) == Knows(n) /\ Member(n) /\ n \notin departed

\* groups.rs: edits that cross converge.  When the edits are over, whoever is a
\* member by any member's copy comes to have that member's group.
Agreement ==
    <>[](\A n \in Nodes : Current(n) =>
            \A m \in store[n].members : Content(store[m]) = Content(store[n]))

\* What the retries do ensure, whatever is lost and whoever restarts: those who
\* left the network are out of every member's copy, the members reach one
\* revision, and one group unless two of them wrote that revision.
SameRevision ==
    <>[](\A n \in Nodes : Current(n) =>
            /\ store[n].members \cap departed = {}
            /\ \A m \in store[n].members :
                /\ store[m].rev = store[n].rev
                /\ (store[m].by = store[n].by /\ departed = {}) => store[m] = store[n])
=============================================================================
