-------------------------- MODULE GroupGossipProofs --------------------------
(***************************************************************************)
(* Proofs about GroupGossip for any number of devices, revisions, names    *)
(* and faults.  That a recorded ack is true (AckSound) is not inductive:   *)
(* an ack is recorded from an exchange, so what is under way must be true  *)
(* as well.  Sound says that.                                              *)
(***************************************************************************)
EXTENDS GroupGossip, TLAPS

\* An update under way is no newer than its sender's copy; an acknowledged one
\* no newer than its receiver's.
Sound ==
    wipes = 0 =>
        /\ \A n, m \in Nodes : acked[n][m] <= store[m].rev
        /\ \A x \in flight : x.group.rev <= store[x.from].rev
        /\ \A x \in flight : x.acked => x.group.rev <= store[x.to].rev

Copies == Groups \cup {NoGroup}

\* A copy has a number for a revision, and only NoGroup has zero.
LEMMA CopyRev == \A g \in Copies : g.rev \in 0 .. MaxRev /\ g.rev \in Nat
BY GossipAssumption DEF Copies, Groups, NoGroup

\* apply keeps or raises the revision, whichever copy is kept.
LEMMA MergeCopy ==
    ASSUME NEW h \in Copies, NEW g \in Copies
    PROVE  /\ Merge(h, g) \in Copies
           /\ Merge(h, g).rev >= h.rev /\ Merge(h, g).rev >= g.rev
           /\ Merge(h, g) # h => Newer(Merge(h, g), h)
<1>1. h.rev \in Nat /\ g.rev \in Nat
  BY CopyRev
<1>2. CASE Newer(g, h)
  BY <1>1, <1>2 DEF Merge, Newer
<1>3. CASE ~Newer(g, h)
  <2>1. g.rev <= h.rev
    BY <1>1, <1>3 DEF Newer
  <2>2. Merge(h, g) = h
    BY <1>3 DEF Merge
  <2> QED  BY <1>1, <2>1, <2>2
<1> QED  BY <1>2, <1>3

-----------------------------------------------------------------------------
(* Types.                                                                  *)

USE DEF faults

\* An edit that begins has a copy of the right type as its draft.
LEMMA BeganType ==
    ASSUME TypeOK, NEW n \in Nodes, NEW t \in Tasks, NEW g, NEW S \in SUBSET Nodes,
           g \in [rev : Nat \ {0}, by : Nodes, members : SUBSET Nodes, name : 1 .. MaxName],
           Began(n, t, g, S)
    PROVE  TypeOK'
<1>1. g \in Groups
  BY GossipAssumption DEF Began, Groups
<1>2. [group |-> g, to |-> S \ {n}] \in Drafts
  BY <1>1 DEF Drafts
<1>3. draft' \in [Nodes -> [Tasks -> Drafts \cup {NoDraft}]]
  BY <1>2 DEF Began, TypeOK
<1> QED  BY <1>3 DEF Began, TypeOK

\* A device that halts leaves well-typed state behind.
LEMMA HaltedType ==
    ASSUME TypeOK, NEW n \in Nodes, NEW ends, Halted(n, ends)
    PROVE  /\ draft' \in [Nodes -> [Tasks -> Drafts \cup {NoDraft}]]
           /\ acked' \in [Nodes -> [Nodes -> 0 .. MaxRev]]
           /\ flight' \subseteq flight
<1>1. [m \in Nodes |-> 0] \in [Nodes -> 0 .. MaxRev]
  BY GossipAssumption
<1>2. [t \in Tasks |-> NoDraft] \in [Tasks -> Drafts \cup {NoDraft}]
  OBVIOUS
<1> QED  BY <1>1, <1>2 DEF Halted, TypeOK

\* What the copy of a device that has one is made of.
LEMMA KnownCopy ==
    ASSUME TypeOK, NEW n \in Nodes
    PROVE  /\ store[n] \in Copies /\ store[n].rev \in 0 .. MaxRev
           /\ store[n].members \subseteq Nodes
           /\ Knows(n) => store[n] \in Groups
BY GossipAssumption DEF TypeOK, Copies, Groups, NoGroup, Knows

LEMMA TypeStep == TypeOK /\ [Next]_vars => TypeOK'
<1> SUFFICES ASSUME TypeOK, [Next]_vars PROVE TypeOK'
  OBVIOUS
<1>1. CASE UNCHANGED vars
  BY <1>1 DEF vars, TypeOK
<1>2. ASSUME NEW n \in Nodes, Create(n) PROVE TypeOK'
  <2>1. PICK S \in SUBSET (Nodes \ departed) :
           Began(n, "ipc", [rev |-> 1, by |-> n, members |-> S, name |-> 1], S \cup {Host})
    BY <1>2 DEF Create
  <2>2. [rev |-> 1, by |-> n, members |-> S, name |-> 1]
           \in [rev : Nat \ {0}, by : Nodes, members : SUBSET Nodes, name : 1 .. MaxName]
    BY GossipAssumption
  <2>3. S \cup {Host} \in SUBSET Nodes
    BY GossipAssumption
  <2> QED  BY <2>1, <2>2, <2>3, BeganType DEF Tasks
<1>3. ASSUME NEW n \in Nodes, NEW S \in SUBSET Nodes, NEW t \in Tasks, NEW R \in SUBSET Nodes,
             NEW name \in 1 .. MaxName, Began(n, t, Changed(n, S, name), R)
      PROVE  TypeOK'
  <2>1. Changed(n, S, name)
           \in [rev : Nat \ {0}, by : Nodes, members : SUBSET Nodes, name : 1 .. MaxName]
    BY KnownCopy, GossipAssumption DEF Changed
  <2> QED  BY <1>3, <2>1, BeganType
<1>4. ASSUME NEW n \in Nodes, BeginUpdate(n) PROVE TypeOK'
  <2>1. PICK S \in SUBSET Nodes, name \in 1 .. MaxName :
           Began(n, "ipc", Changed(n, S, name), S \cup store[n].members \cup {Host})
    BY <1>4 DEF BeginUpdate
  <2>2. S \cup store[n].members \cup {Host} \in SUBSET Nodes
    BY KnownCopy, GossipAssumption
  <2> QED  BY <1>3, <2>1, <2>2 DEF Tasks
<1>5. ASSUME NEW n \in Nodes, BeginLeave(n) PROVE TypeOK'
  <2>1. store[n].name \in 1 .. MaxName
    BY <1>5, KnownCopy DEF BeginLeave, Groups
  <2>2. /\ store[n].members \ {n} \in SUBSET Nodes
        /\ (store[n].members \ {n}) \cup {Host} \in SUBSET Nodes
    BY KnownCopy, GossipAssumption
  <2> QED  BY <1>3, <1>5, <2>1, <2>2 DEF Tasks, BeginLeave
<1>6. ASSUME NEW n \in Nodes, BeginPrune(n) PROVE TypeOK'
  <2>1. store[n].name \in 1 .. MaxName
    BY <1>6, KnownCopy DEF BeginPrune, Groups
  <2>2. store[n].members \ departed \in SUBSET Nodes
    BY KnownCopy
  <2> QED  BY <1>3, <1>6, <2>1, <2>2 DEF Tasks, BeginPrune
<1>7. ASSUME NEW n \in Nodes, NEW t \in Tasks, FinishEdit(n, t) PROVE TypeOK'
  <2>1. draft[n][t] \in Drafts
    BY <1>7 DEF FinishEdit, TypeOK
  <2>2. draft[n][t].group \in Groups /\ draft[n][t].to \subseteq Nodes
    BY <2>1 DEF Drafts
  <2>3. Merge(store[n], draft[n][t].group) \in Copies
    BY <2>2, KnownCopy, MergeCopy DEF Copies
  <2>4. store' \in [Nodes -> Copies]
    BY <1>7, <2>3 DEF FinishEdit, TypeOK, Copies
  <2>5. \A m \in Nodes : Update(n, m, draft[n][t].group) \in Exchanges
    BY <2>2 DEF Update, Exchanges
  <2>6. flight' \subseteq Exchanges
    BY <1>7, <2>2, <2>5 DEF FinishEdit, TypeOK
  <2>7. draft' \in [Nodes -> [Tasks -> Drafts \cup {NoDraft}]]
    BY <1>7 DEF FinishEdit, TypeOK
  <2> QED  BY <1>7, <2>4, <2>6, <2>7 DEF FinishEdit, TypeOK, Copies
<1>8. ASSUME NEW n \in Nodes, NEW m \in Nodes, SyncSend(n, m) PROVE TypeOK'
  <2>1. Update(n, m, store[n]) \in Exchanges
    BY <1>8, KnownCopy DEF SyncSend, Update, Exchanges
  <2> QED  BY <1>8, <2>1 DEF SyncSend, TypeOK
<1>9. ASSUME NEW x \in flight, Receive(x) PROVE TypeOK'
  <2>1. x \in Exchanges /\ x.to \in Nodes /\ x.from \in Nodes /\ x.group \in Groups
    BY DEF TypeOK, Exchanges
  <2>2. Merge(store[x.to], x.group) \in Copies
    BY <2>1, KnownCopy, MergeCopy DEF Copies
  <2>3. store' \in [Nodes -> Copies]
    BY <1>9, <2>1, <2>2 DEF Receive, TypeOK, Copies
  <2>4. Higher(acked[x.to][x.from], x.group.rev) \in 0 .. MaxRev
    BY <2>1, GossipAssumption DEF Higher, TypeOK, Groups
  <2>5. acked' \in [Nodes -> [Nodes -> 0 .. MaxRev]]
    BY <1>9, <2>1, <2>4 DEF Receive, TypeOK
  <2>6. [x EXCEPT !.acked = TRUE] \in Exchanges
    BY <2>1 DEF Exchanges
  <2> QED  BY <1>9, <2>3, <2>5, <2>6 DEF Receive, TypeOK, Copies
<1>10. ASSUME NEW x \in flight, Reject(x) PROVE TypeOK'
  BY <1>10 DEF Reject, TypeOK
<1>11. ASSUME NEW x \in flight, ReceiveAck(x) PROVE TypeOK'
  <2>1. x \in Exchanges /\ x.to \in Nodes /\ x.from \in Nodes /\ x.group \in Groups
    BY DEF TypeOK, Exchanges
  <2>2. Higher(acked[x.from][x.to], x.group.rev) \in 0 .. MaxRev
    <3>1. acked[x.from][x.to] \in 0 .. MaxRev
      BY <2>1 DEF TypeOK
    <3>2. x.group.rev \in 0 .. MaxRev
      BY <2>1, GossipAssumption DEF Groups
    <3> QED  BY <3>1, <3>2 DEF Higher
  <2>3. acked' \in [Nodes -> [Nodes -> 0 .. MaxRev]]
    BY <1>11, <2>1, <2>2 DEF ReceiveAck, TypeOK
  <2> QED  BY <1>11, <2>3 DEF ReceiveAck, TypeOK
<1>12. ASSUME NEW x \in flight, Lose(x) PROVE TypeOK'
  BY <1>12, GossipAssumption DEF Lose, TypeOK
<1>13. ASSUME NEW n \in Nodes, Crash(n) PROVE TypeOK'
  BY <1>13, HaltedType, GossipAssumption DEF Crash, TypeOK
<1>14. ASSUME NEW n \in Nodes, Wipe(n) PROVE TypeOK'
  BY <1>14, HaltedType, GossipAssumption DEF Wipe, TypeOK
<1>15. ASSUME NEW n \in Nodes, Depart(n) PROVE TypeOK'
  BY <1>15, HaltedType DEF Depart, TypeOK
<1> QED  BY <1>1, <1>2, <1>4, <1>5, <1>6, <1>7, <1>8, <1>9, <1>10, <1>11, <1>12, <1>13,
            <1>14, <1>15 DEF Next, Edit, Exchange

\* Every variable keeps its type, whatever the number of devices and revisions.
THEOREM TypeCorrect == Spec => []TypeOK
<1>1. Init => TypeOK
  BY GossipAssumption DEF Init, TypeOK
<1> QED  BY <1>1, TypeStep, PTL DEF Spec

-----------------------------------------------------------------------------
(* Acks.                                                                   *)

\* No copy loses revisions in a step that loses no file.
LEMMA StoreGrows ==
    ASSUME TypeOK, Next, wipes' = wipes
    PROVE  \A n \in Nodes : store'[n].rev >= store[n].rev
<1>1. ASSUME NEW n \in Nodes, NEW g \in Groups, store' = [store EXCEPT ![n] = Merge(@, g)]
      PROVE  \A m \in Nodes : store'[m].rev >= store[m].rev
  <2>1. store[n] \in Copies /\ g \in Copies
    BY KnownCopy DEF Copies
  <2>2. Merge(store[n], g).rev >= store[n].rev
    BY <2>1, MergeCopy
  <2>3. \A m \in Nodes : store[m].rev \in Nat
    BY KnownCopy, CopyRev
  <2> QED  BY <1>1, <2>2, <2>3 DEF TypeOK
<1>2. \A m \in Nodes : store[m].rev >= store[m].rev
  <2>1. \A m \in Nodes : store[m].rev \in Nat
    BY KnownCopy, CopyRev
  <2> QED  BY <2>1
<1>3. CASE store' = store
  BY <1>2, <1>3
<1>4. ASSUME NEW n \in Nodes, NEW t \in Tasks, FinishEdit(n, t)
      PROVE  \A m \in Nodes : store'[m].rev >= store[m].rev
  <2>1. draft[n][t].group \in Groups
    BY <1>4 DEF FinishEdit, TypeOK, Drafts
  <2> QED  BY <1>1, <1>4, <2>1 DEF FinishEdit
<1>5. ASSUME NEW x \in flight, Receive(x)
      PROVE  \A m \in Nodes : store'[m].rev >= store[m].rev
  <2>1. x.to \in Nodes /\ x.group \in Groups
    BY DEF TypeOK, Exchanges
  <2> QED  BY <1>1, <1>5, <2>1 DEF Receive
<1>6. ASSUME NEW n \in Nodes, Wipe(n) PROVE FALSE
  BY <1>6 DEF Wipe, TypeOK
<1> QED  BY <1>3, <1>4, <1>5, <1>6, ZenonT(60) DEF Next, Edit, Exchange, Create, BeginUpdate, BeginLeave,
            BeginPrune, Began, Crash, Depart, SyncSend, Reject, ReceiveAck, Lose

\* The exchanges and acks of a step that adds none stay sound.
LEMMA SoundKept ==
    ASSUME TypeOK, TypeOK', Sound, wipes = 0,
           \A n \in Nodes : store'[n].rev >= store[n].rev,
           \A n, m \in Nodes : acked'[n][m] \in {acked[n][m], 0},
           flight' \subseteq flight
    PROVE  Sound'
<1>1. \A n \in Nodes : store[n].rev \in Nat /\ store'[n].rev \in Nat
  BY CopyRev DEF TypeOK, Copies
<1>2. \A n, m \in Nodes : acked'[n][m] <= store'[m].rev
  <2> SUFFICES ASSUME NEW n \in Nodes, NEW m \in Nodes PROVE acked'[n][m] <= store'[m].rev
    OBVIOUS
  <2>1. acked[n][m] \in Nat /\ acked[n][m] <= store[m].rev
    BY GossipAssumption DEF Sound, TypeOK
  <2> QED  BY <1>1, <2>1
<1>3. ASSUME NEW x \in flight'
      PROVE  /\ x.group.rev <= store'[x.from].rev
             /\ x.acked => x.group.rev <= store'[x.to].rev
  <2>1. x \in flight /\ x.from \in Nodes /\ x.to \in Nodes /\ x.group.rev \in Nat
    BY GossipAssumption DEF TypeOK, Exchanges, Groups
  <2>2. x.group.rev <= store[x.from].rev /\ (x.acked => x.group.rev <= store[x.to].rev)
    BY <2>1 DEF Sound
  <2> QED  BY <1>1, <2>1, <2>2
<1> QED  BY <1>2, <1>3 DEF Sound

LEMMA SoundStep == TypeOK /\ TypeOK' /\ Sound /\ [Next]_vars => Sound'
<1> SUFFICES ASSUME TypeOK, TypeOK', Sound, [Next]_vars PROVE Sound'
  OBVIOUS
<1>1. CASE UNCHANGED vars
  BY <1>1 DEF vars, Sound
<1>2. CASE wipes' # 0
  BY <1>2 DEF Sound
<1> SUFFICES ASSUME Next, wipes' = 0 PROVE Sound'
  BY <1>1, <1>2
<1>3. wipes = 0
  <2>1. ASSUME NEW n \in Nodes, Wipe(n) PROVE FALSE
    BY <2>1 DEF Wipe, TypeOK
  <2> QED  BY <2>1, ZenonT(60) DEF Next, Edit, Exchange, Create, BeginUpdate, BeginLeave, BeginPrune,
              Began, FinishEdit, Crash, Depart, SyncSend, Receive, Reject, ReceiveAck, Lose
<1>4. \A n \in Nodes : store'[n].rev >= store[n].rev
  BY <1>3, StoreGrows
<1>5. \A n \in Nodes : store[n].rev \in Nat /\ store'[n].rev \in Nat
  BY CopyRev DEF TypeOK, Copies
<1>6. \A n, m \in Nodes : acked[n][m] \in Nat /\ acked[n][m] <= store[m].rev
                             /\ acked[n][m] <= store'[m].rev
  <2> SUFFICES ASSUME NEW n \in Nodes, NEW m \in Nodes
               PROVE  acked[n][m] \in Nat /\ acked[n][m] <= store[m].rev
                         /\ acked[n][m] <= store'[m].rev
    OBVIOUS
  <2>1. acked[n][m] \in Nat /\ acked[n][m] <= store[m].rev
    BY <1>3, GossipAssumption DEF Sound, TypeOK
  <2> QED  BY <1>4, <1>5, <2>1
<1>7. ASSUME NEW x \in flight
      PROVE  /\ x.from \in Nodes /\ x.to \in Nodes /\ x.group \in Groups
             /\ x.group.rev \in Nat /\ x.group.rev <= store'[x.from].rev
             /\ x.acked => x.group.rev <= store'[x.to].rev
  <2>1. x.from \in Nodes /\ x.to \in Nodes /\ x.group \in Groups /\ x.group.rev \in Nat
    BY GossipAssumption DEF TypeOK, Exchanges, Groups
  <2>2. x.group.rev <= store[x.from].rev /\ (x.acked => x.group.rev <= store[x.to].rev)
    BY <1>3 DEF Sound
  <2> QED  BY <1>4, <1>5, <2>1, <2>2
<1>8. ASSUME NEW n \in Nodes, Edit(n) PROVE Sound'
  <2>1. acked' = acked /\ flight' = flight
    BY <1>8 DEF Edit, Create, BeginUpdate, BeginLeave, BeginPrune, Began
  <2> QED  BY <1>3, <1>4, <2>1, SoundKept
<1>9. ASSUME NEW n \in Nodes, NEW ends, Halted(n, ends) PROVE Sound'
  <2>1. flight' \subseteq flight
    BY <1>9 DEF Halted
  <2>2. \A m, l \in Nodes : acked'[m][l] \in {acked[m][l], 0}
    BY <1>9 DEF Halted, TypeOK
  <2> QED  BY <1>3, <1>4, <2>1, <2>2, SoundKept
<1>10. ASSUME NEW x \in flight, Reject(x) \/ Lose(x) PROVE Sound'
  <2>1. acked' = acked /\ flight' \subseteq flight
    BY <1>10 DEF Reject, Lose
  <2> QED  BY <1>3, <1>4, <2>1, SoundKept
<1>11. ASSUME NEW n \in Nodes, NEW t \in Tasks, FinishEdit(n, t) PROVE Sound'
  <2>1. draft[n][t].group \in Groups /\ draft[n][t].to \subseteq Nodes
    BY <1>11 DEF FinishEdit, TypeOK, Drafts
  <2>2. draft[n][t].group.rev <= store'[n].rev
    <3>1. store'[n] = Merge(store[n], draft[n][t].group)
      BY <1>11 DEF FinishEdit, TypeOK
    <3>2. store'[n].rev >= draft[n][t].group.rev
      BY <2>1, <3>1, KnownCopy, MergeCopy DEF Copies
    <3>3. draft[n][t].group.rev \in Nat
      BY <2>1, GossipAssumption DEF Groups
    <3> QED  BY <1>5, <3>2, <3>3
  <2>3. ASSUME NEW x \in flight'
        PROVE  /\ x.group.rev <= store'[x.from].rev
               /\ x.acked => x.group.rev <= store'[x.to].rev
    <3>1. CASE x \in flight
      BY <1>7, <3>1
    <3>2. CASE \E m \in Nodes : x = Update(n, m, draft[n][t].group)
      BY <2>2, <3>2 DEF Update
    <3> QED  BY <1>11, <2>1, <3>1, <3>2 DEF FinishEdit
  <2>4. acked' = acked
    BY <1>11 DEF FinishEdit
  <2> QED  BY <1>6, <2>3, <2>4 DEF Sound
<1>12. ASSUME NEW n \in Nodes, NEW m \in Nodes, SyncSend(n, m) PROVE Sound'
  <2>1. ASSUME NEW x \in flight'
        PROVE  /\ x.group.rev <= store'[x.from].rev
               /\ x.acked => x.group.rev <= store'[x.to].rev
    <3>1. CASE x \in flight
      BY <1>7, <3>1
    <3>2. CASE x = Update(n, m, store[n])
      BY <1>4, <1>5, <1>12, <3>2 DEF Update, SyncSend
    <3> QED  BY <1>12, <3>1, <3>2 DEF SyncSend
  <2>2. acked' = acked
    BY <1>12 DEF SyncSend
  <2> QED  BY <1>6, <2>1, <2>2 DEF Sound
<1>13. ASSUME NEW x \in flight, Receive(x) PROVE Sound'
  <2>1. /\ x.from \in Nodes /\ x.to \in Nodes /\ x.group \in Groups
        /\ x.group.rev \in Nat /\ x.group.rev <= store'[x.from].rev
    BY <1>7
  <2>2. x.group.rev <= store'[x.to].rev
    <3>1. store'[x.to] = Merge(store[x.to], x.group)
      BY <1>13, <2>1 DEF Receive, TypeOK
    <3>2. store'[x.to].rev >= x.group.rev
      BY <2>1, <3>1, KnownCopy, MergeCopy DEF Copies
    <3> QED  BY <1>5, <2>1, <3>2
  <2>3. \A n, m \in Nodes : acked'[n][m] <= store'[m].rev
    <3> SUFFICES ASSUME NEW n \in Nodes, NEW m \in Nodes PROVE acked'[n][m] <= store'[m].rev
      OBVIOUS
    <3>1. CASE n = x.to /\ m = x.from
      <4>1. acked'[n][m] = Higher(acked[n][m], x.group.rev)
        BY <1>13, <2>1, <3>1 DEF Receive, TypeOK
      <4> QED  BY <1>6, <2>1, <3>1, <4>1 DEF Higher
    <3>2. CASE ~(n = x.to /\ m = x.from)
      <4>1. acked'[n][m] = acked[n][m]
        BY <1>13, <2>1, <3>2 DEF Receive, TypeOK
      <4> QED  BY <1>6, <4>1
    <3> QED  BY <3>1, <3>2
  <2>4. ASSUME NEW y \in flight'
        PROVE  /\ y.group.rev <= store'[y.from].rev
               /\ y.acked => y.group.rev <= store'[y.to].rev
    <3>1. CASE y \in flight
      BY <1>7, <3>1
    <3>2. CASE y = [x EXCEPT !.acked = TRUE]
      <4>1. y.group = x.group /\ y.from = x.from /\ y.to = x.to
        BY <3>2 DEF TypeOK, Exchanges
      <4> QED  BY <2>1, <2>2, <4>1
    <3> QED  BY <1>13, <3>1, <3>2 DEF Receive
  <2> QED  BY <2>3, <2>4 DEF Sound
<1>14. ASSUME NEW x \in flight, ReceiveAck(x) PROVE Sound'
  <2>1. /\ x.from \in Nodes /\ x.to \in Nodes
        /\ x.group.rev \in Nat /\ x.group.rev <= store'[x.to].rev
    BY <1>7, <1>14 DEF ReceiveAck
  <2>2. \A n, m \in Nodes : acked'[n][m] <= store'[m].rev
    <3> SUFFICES ASSUME NEW n \in Nodes, NEW m \in Nodes PROVE acked'[n][m] <= store'[m].rev
      OBVIOUS
    <3>1. CASE n = x.from /\ m = x.to
      <4>1. acked'[n][m] = Higher(acked[n][m], x.group.rev)
        BY <1>14, <2>1, <3>1 DEF ReceiveAck, TypeOK
      <4> QED  BY <1>6, <2>1, <3>1, <4>1 DEF Higher
    <3>2. CASE ~(n = x.from /\ m = x.to)
      <4>1. acked'[n][m] = acked[n][m]
        BY <1>14, <2>1, <3>2 DEF ReceiveAck, TypeOK
      <4> QED  BY <1>6, <4>1
    <3> QED  BY <3>1, <3>2
  <2>3. ASSUME NEW y \in flight'
        PROVE  /\ y.group.rev <= store'[y.from].rev
               /\ y.acked => y.group.rev <= store'[y.to].rev
    <3>1. y \in flight
      BY <1>14 DEF ReceiveAck
    <3> QED  BY <1>7, <3>1
  <2> QED  BY <2>2, <2>3 DEF Sound
<1>15. ASSUME NEW n \in Nodes, Crash(n) \/ Wipe(n) \/ Depart(n) PROVE Sound'
  BY <1>9, <1>15 DEF Crash, Wipe, Depart
<1> QED  BY <1>8, <1>10, <1>11, <1>12, <1>13, <1>14, <1>15 DEF Next, Exchange

\* Whatever is lost, delayed, repeated or restarted: as long as no group file is
\* lost, a device that is taken to have a revision has it or a later one.
THEOREM AcksTrue == Spec => []AckSound
<1>1. Init => Sound
  BY DEF Init, Sound, NoGroup
<1>2. Sound => AckSound
  BY DEF Sound, AckSound
<1> QED  BY <1>1, <1>2, TypeCorrect, SoundStep, PTL DEF Spec

-----------------------------------------------------------------------------
(* Order.                                                                  *)

\* No edit, exchange or restart ever puts an older copy in place of a newer one.
THEOREM CopiesForward == Spec => OnlyForward
<1> DEFINE Forward == \A n \in Nodes :
                store'[n] # store[n] => Newer(store'[n], store[n]) \/ wipes' # wipes
<1>1. ASSUME TypeOK, Next PROVE Forward
  <2>1. ASSUME NEW n \in Nodes, NEW g \in Groups, store' = [store EXCEPT ![n] = Merge(@, g)]
        PROVE  Forward
    <3>1. store[n] \in Copies /\ g \in Copies
      BY <1>1, KnownCopy DEF Copies
    <3>2. Merge(store[n], g) # store[n] => Newer(Merge(store[n], g), store[n])
      BY <3>1, MergeCopy
    <3> QED  BY <1>1, <2>1, <3>2 DEF TypeOK
  <2>2. ASSUME NEW n \in Nodes, NEW t \in Tasks, FinishEdit(n, t) PROVE Forward
    <3>1. draft[n][t].group \in Groups
      BY <1>1, <2>2 DEF FinishEdit, TypeOK, Drafts
    <3> QED  BY <2>1, <2>2, <3>1 DEF FinishEdit
  <2>3. ASSUME NEW x \in flight, Receive(x) PROVE Forward
    <3>1. x.to \in Nodes /\ x.group \in Groups
      BY <1>1 DEF TypeOK, Exchanges
    <3> QED  BY <2>1, <2>3, <3>1 DEF Receive
  <2>4. ASSUME NEW n \in Nodes, Wipe(n) PROVE wipes' # wipes
    BY <1>1, <2>4 DEF Wipe, TypeOK
  <2>5. CASE store' = store
    BY <2>5
  <2> QED  BY <1>1, <2>2, <2>3, <2>4, <2>5, ZenonT(60) DEF Next, Edit, Exchange, Create, BeginUpdate,
              BeginLeave, BeginPrune, Began, Crash, Depart, SyncSend, Reject, ReceiveAck, Lose
<1>2. TypeOK /\ [Next]_vars => [Forward]_vars
  BY <1>1
<1> QED  BY <1>2, TypeCorrect, PTL DEF Spec, OnlyForward

-----------------------------------------------------------------------------
(* Equal revisions.                                                        *)

\* The copies that devices have or send.
Seen == {store[n] : n \in Nodes} \cup {x.group : x \in flight}

\* While no file is lost and nobody has left, a revision of one author is one
\* group: an author has the newest of its own, and what it is editing is newer
\* than any of its own that was seen.
OneAuthor ==
    (wipes = 0 /\ departed = {}) =>
        /\ \A n \in Nodes : draft[n]["reconcile"] = NoDraft
        /\ \A g, h \in Seen : g.rev = h.rev /\ g.by = h.by => g = h
        /\ \A g \in Seen : g.rev > 0 => g.rev <= store[g.by].rev
        /\ \A n \in Nodes : draft[n]["ipc"] # NoDraft =>
              /\ draft[n]["ipc"].group.by = n
              /\ \A g \in Seen : g.by = n => g.rev < draft[n]["ipc"].group.rev

LEMMA SeenCopies == TypeOK => Seen \subseteq Copies
BY DEF Seen, TypeOK, Copies, Exchanges

\* A step that shows no new copy and begins no edit.
LEMMA AuthorKept ==
    ASSUME TypeOK, TypeOK', OneAuthor, wipes = 0, departed = {}, Seen' \subseteq Seen,
           \A n \in Nodes : store'[n].rev >= store[n].rev,
           \A n \in Nodes, t \in Tasks : draft'[n][t] \in {draft[n][t], NoDraft}
    PROVE  OneAuthor'
<1>1. \A n \in Nodes : store[n].rev \in Nat /\ store'[n].rev \in Nat
  BY CopyRev DEF TypeOK, Copies
<1>2. \A n \in Nodes : draft'[n]["reconcile"] = NoDraft
  BY DEF OneAuthor, Tasks
<1>3. ASSUME NEW g \in Seen', g.rev > 0 PROVE g.rev <= store'[g.by].rev
  <2>1. g \in Seen /\ g \in Copies
    BY SeenCopies
  <2>2. g.rev \in Nat /\ g.by \in Nodes
    BY <1>3, <2>1, CopyRev DEF Copies, Groups, NoGroup
  <2>3. g.rev <= store[g.by].rev
    BY <1>3, <2>1 DEF OneAuthor
  <2> QED  BY <1>1, <2>2, <2>3
<1>4. ASSUME NEW n \in Nodes, draft'[n]["ipc"] # NoDraft
      PROVE  /\ draft'[n]["ipc"].group.by = n
             /\ \A g \in Seen' : g.by = n => g.rev < draft'[n]["ipc"].group.rev
  <2>1. draft'[n]["ipc"] = draft[n]["ipc"]
    BY <1>4 DEF Tasks
  <2> QED  BY <1>4, <2>1 DEF OneAuthor
<1>5. \A g, h \in Seen' : g.rev = h.rev /\ g.by = h.by => g = h
  BY DEF OneAuthor
<1> QED  BY <1>2, <1>3, <1>4, <1>5 DEF OneAuthor

\* An edit that begins at its author's copy is newer than all it has shown.
LEMMA AuthorBegins ==
    ASSUME TypeOK, OneAuthor, wipes = 0, departed = {}, NEW n \in Nodes, NEW g, NEW S,
           Began(n, "ipc", g, S), g.rev = store[n].rev + 1, g.by = n
    PROVE  OneAuthor'
<1>1. Seen' = Seen /\ store' = store /\ wipes' = wipes /\ departed' = departed
  BY DEF Began, Seen
<1>2. draft' = [draft EXCEPT ![n]["ipc"] = [group |-> g, to |-> S \ {n}]]
  BY DEF Began
<1>3. \A m \in Nodes : /\ draft'[m]["reconcile"] = draft[m]["reconcile"]
                       /\ m # n => draft'[m]["ipc"] = draft[m]["ipc"]
                       /\ m = n => draft'[m]["ipc"].group = g
  BY <1>2 DEF TypeOK, Tasks
<1>4. ASSUME NEW h \in Seen, h.by = n PROVE h.rev < g.rev
  <2>1. h.rev \in Nat /\ store[n].rev \in Nat
    BY SeenCopies, CopyRev DEF TypeOK, Copies
  <2>2. h.rev = 0 \/ h.rev <= store[n].rev
    BY <1>4, <2>1 DEF OneAuthor
  <2> QED  BY <2>1, <2>2
<1> QED  BY <1>1, <1>3, <1>4 DEF OneAuthor

\* The edit that ends is the newest of its author.
LEMMA AuthorEnds ==
    ASSUME TypeOK, TypeOK', OneAuthor, wipes = 0, departed = {}, NEW n \in Nodes, NEW t \in Tasks,
           FinishEdit(n, t), \A m \in Nodes : store'[m].rev >= store[m].rev
    PROVE  OneAuthor'
<1> DEFINE g == draft[n][t].group
<1>1. t = "ipc" /\ draft[n]["ipc"] # NoDraft
  BY DEF FinishEdit, OneAuthor, Tasks
<1>2. g.by = n /\ \A h \in Seen : h.by = n => h.rev < g.rev
  BY <1>1 DEF OneAuthor
<1>3. g \in Groups /\ g \in Copies /\ g.rev \in Nat
  BY CopyRev DEF FinishEdit, TypeOK, Drafts, Copies
<1>4. /\ store' = [store EXCEPT ![n] = Merge(@, g)]
      /\ \A x \in flight' : x \in flight \/ x.group = g
      /\ draft' = [draft EXCEPT ![n][t] = NoDraft]
  BY DEF FinishEdit, Update
<1> HIDE DEF g
<1>5. \A h \in Seen' : h \in Seen \/ h = g
  BY <1>4 DEF Seen, Merge, TypeOK
<1>6. g.rev <= store'[n].rev
  <2>1. store'[n] = Merge(store[n], g) /\ store[n] \in Copies
    BY <1>4, KnownCopy DEF TypeOK
  <2>2. store'[n].rev \in Nat
    BY CopyRev DEF TypeOK, Copies
  <2> QED  BY <1>3, <2>1, <2>2, MergeCopy
<1>7. \A m \in Nodes : store[m].rev \in Nat /\ store'[m].rev \in Nat
  BY CopyRev DEF TypeOK, Copies
<1>8. ASSUME NEW h \in Seen', h.rev > 0 PROVE h.rev <= store'[h.by].rev
  <2>1. CASE h \in Seen
    <3>1. h.rev \in Nat /\ h.by \in Nodes
      BY <1>8, <2>1, SeenCopies, CopyRev DEF Copies, Groups, NoGroup
    <3>2. h.rev <= store[h.by].rev
      BY <1>8, <2>1 DEF OneAuthor
    <3> QED  BY <1>7, <3>1, <3>2
  <2>2. CASE h = g
    BY <1>2, <1>6, <2>2
  <2> QED  BY <1>5, <2>1, <2>2
<1>9. ASSUME NEW h \in Seen', NEW k \in Seen', h.rev = k.rev, h.by = k.by PROVE h = k
  <2>1. \A f \in Seen : f.rev \in Nat
    BY SeenCopies, CopyRev
  <2> QED  BY <1>2, <1>3, <1>5, <1>9, <2>1 DEF OneAuthor
<1>10. \A m \in Nodes : draft'[m]["reconcile"] = NoDraft
  BY <1>1, <1>4 DEF OneAuthor, TypeOK, Tasks
<1>11. ASSUME NEW m \in Nodes, draft'[m]["ipc"] # NoDraft
       PROVE  /\ draft'[m]["ipc"].group.by = m
              /\ \A h \in Seen' : h.by = m => h.rev < draft'[m]["ipc"].group.rev
  <2>1. m # n /\ draft'[m]["ipc"] = draft[m]["ipc"]
    BY <1>1, <1>4, <1>11 DEF TypeOK, Tasks
  <2>2. g.by # m
    BY <1>2, <2>1
  <2> QED  BY <1>5, <1>11, <2>1, <2>2 DEF OneAuthor
<1> QED  BY <1>8, <1>9, <1>10, <1>11 DEF OneAuthor

LEMMA AuthorStep == TypeOK /\ TypeOK' /\ OneAuthor /\ [Next]_vars => OneAuthor'
<1> SUFFICES ASSUME TypeOK, TypeOK', OneAuthor, [Next]_vars PROVE OneAuthor'
  OBVIOUS
<1>1. CASE UNCHANGED vars
  BY <1>1 DEF vars, OneAuthor, Seen
<1>2. CASE wipes' # 0 \/ departed' # {}
  BY <1>2 DEF OneAuthor
<1> SUFFICES ASSUME Next, wipes' = 0, departed' = {} PROVE OneAuthor'
  BY <1>1, <1>2
<1>3. wipes = 0 /\ departed = {}
  <2>1. ASSUME NEW n \in Nodes, Wipe(n) \/ Depart(n) PROVE FALSE
    BY <2>1 DEF Wipe, Depart, TypeOK
  <2> QED  BY <2>1, ZenonT(60) DEF Next, Edit, Exchange, Create, BeginUpdate, BeginLeave, BeginPrune,
              Began, FinishEdit, Crash, SyncSend, Receive, Reject, ReceiveAck, Lose
<1>4. \A n \in Nodes : store'[n].rev >= store[n].rev
  BY <1>3, StoreGrows
<1>5. ASSUME Seen' \subseteq Seen, draft' = draft PROVE OneAuthor'
  BY <1>3, <1>4, <1>5, AuthorKept
<1>6. ASSUME NEW n \in Nodes, Create(n) PROVE OneAuthor'
  <2>1. PICK S \in SUBSET (Nodes \ departed) :
           Began(n, "ipc", [rev |-> 1, by |-> n, members |-> S, name |-> 1], S \cup {Host})
    BY <1>6 DEF Create
  <2>2. store[n].rev = 0
    BY <1>6, KnownCopy, GossipAssumption DEF Create, Knows
  <2>3. [rev |-> 1, by |-> n, members |-> S, name |-> 1].rev = store[n].rev + 1
    BY <2>2
  <2> QED  BY <1>3, <2>1, <2>3, AuthorBegins
<1>7. ASSUME NEW n \in Nodes, NEW S, NEW name, NEW R, Began(n, "ipc", Changed(n, S, name), R)
      PROVE  OneAuthor'
  <2>1. Changed(n, S, name).rev = store[n].rev + 1 /\ Changed(n, S, name).by = n
    BY DEF Changed
  <2> QED  BY <1>3, <1>7, <2>1, AuthorBegins
<1>8. ASSUME NEW n \in Nodes, BeginUpdate(n) \/ BeginLeave(n) PROVE OneAuthor'
  BY <1>7, <1>8 DEF BeginUpdate, BeginLeave
<1>9. ASSUME NEW n \in Nodes, BeginPrune(n) PROVE FALSE
  BY <1>3, <1>9 DEF BeginPrune
<1>10. ASSUME NEW n \in Nodes, NEW t \in Tasks, FinishEdit(n, t) PROVE OneAuthor'
  BY <1>3, <1>4, <1>10, AuthorEnds
<1>11. ASSUME NEW n \in Nodes, NEW m \in Nodes, SyncSend(n, m) PROVE OneAuthor'
  BY <1>5, <1>11 DEF SyncSend, Update, Seen
<1>12. ASSUME NEW x \in flight, Reject(x) \/ ReceiveAck(x) \/ Lose(x) PROVE OneAuthor'
  BY <1>5, <1>12 DEF Reject, ReceiveAck, Lose, Seen
<1>13. ASSUME NEW x \in flight, Receive(x) PROVE OneAuthor'
  <2>1. /\ store' = [store EXCEPT ![x.to] = Merge(@, x.group)] /\ draft' = draft
        /\ flight' = (flight \ {x}) \cup {[x EXCEPT !.acked = TRUE]}
    BY <1>13 DEF Receive
  <2>2. [x EXCEPT !.acked = TRUE].group = x.group
    BY DEF TypeOK, Exchanges
  <2>3. \A n \in Nodes : store'[n] = store[n] \/ store'[n] = x.group
    BY <2>1 DEF TypeOK, Merge
  <2>4. Seen' \subseteq Seen
    BY <2>1, <2>2, <2>3 DEF Seen
  <2> QED  BY <1>5, <2>1, <2>4
<1>14. ASSUME NEW n \in Nodes, Crash(n) PROVE OneAuthor'
  <2>1. Seen' \subseteq Seen
    BY <1>14 DEF Crash, Halted, Seen
  <2>2. \A m \in Nodes, t \in Tasks : draft'[m][t] \in {draft[m][t], NoDraft}
    BY <1>14 DEF Crash, Halted, TypeOK
  <2> QED  BY <1>3, <1>4, <2>1, <2>2, AuthorKept
<1>15. ASSUME NEW n \in Nodes, Wipe(n) \/ Depart(n) PROVE FALSE
  BY <1>3, <1>15 DEF Wipe, Depart, TypeOK
<1> QED  BY <1>6, <1>8, <1>9, <1>10, <1>11, <1>12, <1>13, <1>14, <1>15 DEF Next, Edit, Exchange

\* Two devices that name one revision and one author have one group, however many
\* edit at once and whatever is lost or restarted.
THEOREM VersionsAgree == Spec => []SameVersionSameGroup
<1>1. Init => OneAuthor
  <2> SUFFICES ASSUME Init PROVE OneAuthor
    OBVIOUS
  <2>1. \A g \in Seen : g = NoGroup
    BY DEF Init, Seen
  <2>2. \A n \in Nodes, t \in Tasks : draft[n][t] = NoDraft
    BY DEF Init
  <2>3. NoGroup.rev = 0
    BY DEF NoGroup
  <2> QED  BY <2>1, <2>2, <2>3 DEF OneAuthor, Tasks
<1>2. OneAuthor => SameVersionSameGroup
  BY DEF OneAuthor, SameVersionSameGroup, Seen
<1> QED  BY <1>1, <1>2, TypeCorrect, AuthorStep, PTL DEF Spec
=============================================================================
