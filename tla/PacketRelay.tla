----------------------------- MODULE PacketRelay ----------------------------
(***************************************************************************)
(* The host's relay on Windows (Device, backend/windows/device.rs): the    *)
(* packets members send through the tunnel, the access policy, the waiting *)
(* devices kept apart, and the table of sessions whose replies pass        *)
(* although the policy denies their direction (AclSessionTracker,          *)
(* peercove-core/src/acl.rs).                                              *)
(*                                                                         *)
(* deliver_inbound takes one packet under the lock of the session table;   *)
(* a packet, a change of the policy, of the isolation or of the peers are  *)
(* the steps.  A flow is the pair it runs between and who opened it; a     *)
(* packet of it goes forward or back.  A packet too large is sent as two   *)
(* fragments, the second of which carries no port and may come first.      *)
(* Time passes in seconds; a table keeps entries for Lifetime, and drops   *)
(* the expired ones at most once a second.                                 *)
(*                                                                         *)
(* Abstracted: encryption, the learning of endpoints and the ports; the    *)
(* policy is the set of ordered pairs it allows (AclPolicy evaluates it).  *)
(***************************************************************************)
EXTENDS Naturals, FiniteSets

CONSTANTS Nodes,        \* devices in the network, without the host
          Lifetime,     \* of a session and of a fragment's mark, in seconds
          MaxSessions,  \* MAX_ACL_SESSIONS
          MaxTime, MaxChanges

RelayAssumption ==
  Lifetime \in Nat \ {0} /\ MaxSessions \in Nat /\ MaxTime \in Nat /\ MaxChanges \in Nat

VARIABLES peers,     \* devices in the peer table
          allowed,   \* the policy: ordered pairs that may open a flow
          apart,     \* set_isolated
          sessions,  \* replies: the expiry of each reply direction, or 0
          marks,     \* fragments: the expiry of each datagram's mark, or 0
          pruneAt,   \* next_prune; 0 is unset
          now, changes,
          last,      \* the last packet and what became of it
          opened,    \* when a packet of the flow each pair opened last passed
          passed     \* when a datagram's first fragment last passed

relayVars == <<peers, allowed, apart, sessions, marks, pruneAt, now, changes, last,
               opened, passed>>

Pairs == {p \in Nodes \X Nodes : p[1] # p[2]}
Back(p) == <<p[2], p[1]>>
(* A packet: its direction, whether it starts a flow (a SYN, a datagram,   *)
(* an echo request) or answers one, and which fragment it is.              *)
Packets == [way : Pairs, starts : BOOLEAN, part : {"whole", "first", "later"}]
NoPacket == [way |-> <<>>, fate |-> "none", since |-> 0]

RelayTypeOK ==
  /\ peers \subseteq Nodes /\ apart \subseteq Nodes /\ allowed \subseteq Pairs
  /\ sessions \in [Pairs -> 0..MaxTime + Lifetime]
  /\ marks \in [Pairs -> 0..MaxTime + Lifetime]
  /\ pruneAt \in 0..MaxTime + 1 /\ now \in 1..MaxTime /\ changes \in 0..MaxChanges
  /\ opened \in [Pairs -> 0..MaxTime] /\ passed \in [Pairs -> 0..MaxTime]

RelayInit ==
  /\ peers = Nodes /\ allowed = Pairs /\ apart = {}
  /\ sessions = [p \in Pairs |-> 0] /\ marks = [p \in Pairs |-> 0]
  /\ pruneAt = 0 /\ now = 1 /\ changes = 0
  /\ last = NoPacket
  /\ opened = [p \in Pairs |-> 0] /\ passed = [p \in Pairs |-> 0]

(* remove_expired: at most once a second.                                  *)
PruneDue == pruneAt = 0 \/ now >= pruneAt
PrunedNever(table) == table

Pruned(table) == IF PruneDue THEN [p \in Pairs |-> IF table[p] > now THEN table[p] ELSE 0]
                 ELSE table
Noted == pruneAt' = IF PruneDue THEN now + 1 ELSE pruneAt

Entries(table) == {p \in Pairs : table[p] # 0}
(* insert, insert_fragment: nothing new enters a full table.               *)
Inserted(table, p) ==
  IF Cardinality(Entries(table)) >= MaxSessions /\ p \notin Entries(table) THEN table
  ELSE [table EXCEPT ![p] = now + Lifetime]

(* deliver_inbound: a device kept apart reaches nobody but the host.       *)
KeptApart(pkt) == pkt.way[1] \in apart \/ pkt.way[2] \in apart

Recent(t) == t # 0 /\ now <= t + Lifetime + 1
Extended(p) == IF Recent(opened[p]) THEN now ELSE opened[p]

(* since records the passed packet that this one relies on.                *)
Forwarded(pkt, fate, since) ==
  /\ last' = [way |-> pkt.way, fate |-> fate, since |-> since]
  /\ opened' = IF pkt.part = "later" THEN opened
               ELSE [opened EXCEPT ![pkt.way] = IF pkt.starts THEN now ELSE Extended(pkt.way),
                                   ![Back(pkt.way)] = Extended(Back(pkt.way))]
  /\ passed' = IF pkt.part = "first" THEN [passed EXCEPT ![pkt.way] = now] ELSE passed
  /\ UNCHANGED <<peers, allowed, apart, now, changes>>

Dropped(pkt, fate) ==
  /\ last' = [way |-> pkt.way, fate |-> fate, since |-> 0]
  /\ UNCHANGED <<peers, allowed, apart, now, changes, opened, passed>>

Arrives(pkt) == {pkt.way[1], pkt.way[2]} \subseteq peers

DropApart(pkt) ==
  /\ Arrives(pkt) /\ KeptApart(pkt)
  /\ Dropped(pkt, "apart")
  /\ UNCHANGED <<sessions, marks, pruneAt>>

(* observe_allowed: a packet that starts a flow opens the reply direction, *)
(* and any packet of an open one extends it.                               *)
Observed(pkt) ==
  LET table == Pruned(sessions)
  IN IF pkt.starts \/ table[Back(pkt.way)] # 0 THEN Inserted(table, Back(pkt.way))
     ELSE table

(* note_forwarded_fragment                                                 *)
MarkedFirst(pkt) == IF pkt.part = "first" THEN Inserted(Pruned(marks), pkt.way)
                    ELSE Pruned(marks)

RelayAllowed(pkt) ==
  /\ Arrives(pkt) /\ ~KeptApart(pkt) /\ pkt.part # "later"
  /\ pkt.way \in allowed
  /\ Forwarded(pkt, "allowed", now)
  /\ sessions' = Observed(pkt) /\ marks' = MarkedFirst(pkt) /\ Noted

(* allows_reply: only a reply direction still in the table, which its use  *)
(* extends, whatever its expiry says until the table is next pruned.       *)
RelayReply(pkt) ==
  /\ Arrives(pkt) /\ ~KeptApart(pkt) /\ pkt.part # "later"
  /\ pkt.way \notin allowed /\ Pruned(sessions)[pkt.way] # 0
  /\ Forwarded(pkt, "reply", opened[Back(pkt.way)])
  /\ sessions' = [Pruned(sessions) EXCEPT ![pkt.way] = now + Lifetime]
  /\ marks' = MarkedFirst(pkt) /\ Noted

DropDenied(pkt) ==
  /\ Arrives(pkt) /\ ~KeptApart(pkt) /\ pkt.part # "later"
  /\ pkt.way \notin allowed /\ Pruned(sessions)[pkt.way] = 0
  /\ Dropped(pkt, "denied")
  /\ sessions' = Pruned(sessions) /\ marks' = Pruned(marks) /\ Noted

(* allows_fragment: a later fragment follows its first one, whatever the   *)
(* policy says of the pair.                                                *)
RelayFragment(pkt) ==
  /\ Arrives(pkt) /\ ~KeptApart(pkt) /\ pkt.part = "later"
  /\ Pruned(marks)[pkt.way] # 0
  /\ Forwarded(pkt, "later", passed[pkt.way])
  /\ sessions' = Pruned(sessions) /\ marks' = Pruned(marks) /\ Noted

DropFragment(pkt) ==
  /\ Arrives(pkt) /\ ~KeptApart(pkt) /\ pkt.part = "later"
  /\ Pruned(marks)[pkt.way] = 0
  /\ Dropped(pkt, "fragment")
  /\ sessions' = Pruned(sessions) /\ marks' = Pruned(marks) /\ Noted

Deliver(pkt) == \/ DropApart(pkt) \/ RelayAllowed(pkt) \/ RelayReply(pkt)
                \/ DropDenied(pkt) \/ RelayFragment(pkt) \/ DropFragment(pkt)

Change == /\ changes < MaxChanges /\ changes' = changes + 1
          /\ last' = NoPacket
          /\ UNCHANGED <<sessions, marks, pruneAt, now, opened, passed>>

(* set_acl replaces the policy and leaves the sessions.                    *)
SetAcl == /\ Change /\ UNCHANGED <<peers, apart>>
          /\ allowed' \in SUBSET Pairs /\ allowed' # allowed
SetIsolated == /\ Change /\ UNCHANGED <<peers, allowed>>
               /\ apart' \in SUBSET Nodes /\ apart' # apart
RemovePeer(n) == /\ n \in peers /\ Change /\ UNCHANGED <<allowed, apart>>
                 /\ peers' = peers \ {n}
AddPeer(n) == /\ n \notin peers /\ Change /\ UNCHANGED <<allowed, apart>>
              /\ peers' = peers \cup {n}

Second == /\ now < MaxTime /\ now' = now + 1 /\ last' = NoPacket
          /\ UNCHANGED <<peers, allowed, apart, sessions, marks, pruneAt, changes,
                         opened, passed>>

RelayNext ==
  \/ \E pkt \in Packets : Deliver(pkt)
  \/ SetAcl \/ SetIsolated \/ Second
  \/ \E n \in Nodes : AddPeer(n) \/ RemovePeer(n)

RelaySpec == RelayInit /\ [][RelayNext]_relayVars

-----------------------------------------------------------------------------

Relayed == last.fate \in {"allowed", "reply", "later"}

(* What the relay lets through against the policy is a reply to a flow that*)
(* was opened by a packet that passed, or the rest of a datagram whose     *)
(* first fragment passed; and that no longer ago than the lifetime and the *)
(* second the pruning may lag (deliver_inbound, allows_reply).             *)
Earned == Relayed => Recent(last.since)

(* No packet from or to a device kept apart, or one no longer in the peer  *)
(* table, is relayed, sessions of an earlier time or not.                  *)
ApartHolds == Relayed => {last.way[1], last.way[2]} \subseteq peers \ apart

RelaySound == Earned /\ ApartHolds

(* The comment in deliver_inbound: a later fragment fares as on Linux,     *)
(* which puts datagrams together before it decides; so where the policy    *)
(* allows a pair none of its fragments is dropped.                         *)
AsReassembled == last.fate = "fragment" => last.way \notin allowed
=============================================================================
