----------------------------- MODULE HostProofs -----------------------------
(***************************************************************************)
(* Proofs about what MCHost puts side by side, for any number of processes,*)
(* members, tunnels and faults: the edits of host.toml (ConfigFile, whose  *)
(* theorems are about its own specification), the direct path of a member  *)
(* (DirectPeers), the session with a member (ControlSession), the requests *)
(* of members (HostRequests) and the tunnels of the daemon                 *)
(* (DaemonLifecycle).                                                      *)
(***************************************************************************)
EXTENDS MCHost, FiniteSetTheorems, SequenceTheorems, WellFoundedInduction, TLAPS

-----------------------------------------------------------------------------
(* The file.  None of the properties is inductive: what a process writes   *)
(* is fixed when it begins, against a file that others may change until it *)
(* gets the lock.  Inv says what stays true of a pending edit: its document*)
(* is the file once it has the lock, the key it brings is new to everybody,*)
(* and a device it accepts still finds its peer free.                      *)

\* The edits that can be under way.
Ops ==
    [kind : {"append"}, addr : Addrs, key : Keys, label : Labels]
    \cup [kind : {"remove"}, addr : Addrs, key : Keys, deny : SUBSET Pairs]
    \cup [kind : {"rotate"}, key : Keys, new : Keys]
    \cup [kind : {"label"}, key : Keys, label : Labels]
    \cup [kind : {"accept"}, key : Keys, device : Devices]
    \cup [kind : {"approve"}, key : Keys]
    \cup [kind : {"record"}, key : Keys, label : Labels]
    \cup [kind : {"deny"}, deny : SUBSET Pairs]
    \cup [kind : {"policy"}, acl : Acls, on : SUBSET Keys, off : SUBSET Keys,
          member : SUBSET Keys]

\* The key an edit brings into the file.
Brought(e) == CASE e.kind = "append" -> {e.key}
                [] e.kind = "rotate" -> {e.new}
                [] OTHER -> {}

Busy(p) == pc[p] # "idle"

EditsTyped ==
    /\ op \in [Procs -> Ops \cup {NoOp}]
    /\ \A p \in Procs : Busy(p) => op[p] \in Ops

\* Whoever has the lock edits what is in the file.
LoadedCurrent == \A p \in Procs : pc[p] = "locked" => doc[p] = file

\* A key that an edit brings was generated for it and is nobody's yet.
BroughtNew ==
    /\ \A k \in Registered(file) \cup revoked : k <= gen
    /\ \A p \in Procs : Busy(p) =>
         \A k \in Brought(op[p]) :
            /\ k <= gen /\ k \notin Registered(file) /\ k \notin revoked
            /\ \A q \in Procs \ {p} : Busy(q) => k \notin Brought(op[q])

\* No key of a removed member is in use.
RevokedUnused == revoked \cap Registered(file) = {}

\* An invite is accepted by the daemon only; nobody can have accepted it since,
\* and no other edit can bring its key again.
AcceptFree ==
    \A p \in Procs : (Busy(p) /\ op[p].kind = "accept") =>
       /\ p = Daemon
       /\ op[p].key <= gen
       /\ \A a \in Addrs : file.key[a] = op[p].key => file.device[a] = NoDevice
       /\ \A q \in Procs : Busy(q) => op[p].key \notin Brought(op[q])

\* Only the daemon changes a member's key for it.
RotateByDaemon == \A p \in Procs : (Busy(p) /\ op[p].kind = "rotate") => p = Daemon

Inv == TypeOK /\ EditsTyped /\ LoadedCurrent /\ BroughtNew /\ RevokedUnused
         /\ AcceptFree /\ RotateByDaemon
-----------------------------------------------------------------------------
(* What the edits do to a document.                                        *)

\* Each kind of edit has the fields its begin action gave it.
LEMMA OpFields ==
    ASSUME NEW e \in Ops
    PROVE  /\ e.kind \in {"append", "remove", "rotate", "label", "accept", "approve",
                           "record", "deny", "policy"}
           /\ e.kind = "append" => e.addr \in Addrs /\ e.key \in Keys /\ e.label \in Labels
           /\ e.kind = "remove" => e.addr \in Addrs /\ e.key \in Keys /\ e.deny \in SUBSET Pairs
           /\ e.kind = "rotate" => e.key \in Keys /\ e.new \in Keys
           /\ e.kind = "label" => e.key \in Keys /\ e.label \in Labels
           /\ e.kind = "accept" => e.key \in Keys /\ e.device \in Devices
           /\ e.kind = "approve" => e.key \in Keys
           /\ e.kind = "record" => e.key \in Keys /\ e.label \in Labels
           /\ e.kind = "deny" => e.deny \in SUBSET Pairs
           /\ e.kind = "policy" => e.acl \in Acls
BY DEF Ops

\* The fields of a document.
LEMMA DocFields ==
    ASSUME NEW d \in Documents
    PROVE  /\ d.key \in [Addrs -> Keys \cup {NoKey}]
           /\ d.label \in [Addrs -> Labels \cup {NoLabel}]
           /\ d.device \in [Addrs -> Devices \cup {NoDevice}]
           /\ d.approved \in [Addrs -> BOOLEAN]
           /\ d.record \in SUBSET (Labels \X Keys)
           /\ d.acl \in Acls
           /\ d = [key |-> d.key, label |-> d.label, device |-> d.device,
                   approved |-> d.approved, record |-> d.record, acl |-> d.acl]
BY DEF Documents

\* What the writers of the ACL make of it is an ACL.
LEMMA AclTypes ==
    /\ \A pairs \in SUBSET Pairs : OnlyPairs(pairs) \in Acls
    /\ \A acl \in Acls, on, off, member \in SUBSET Keys :
          Revised(acl, on, off, member) \in Acls
    /\ \A e \in Ops, acl \in Acls : e.kind = "remove" => AclWithout(e, acl) \in Acls
<1>1. ASSUME NEW pairs \in SUBSET Pairs PROVE OnlyPairs(pairs) \in Acls
  BY DEF OnlyPairs, Acls
<1>2. ASSUME NEW acl \in Acls, NEW on \in SUBSET Keys, NEW off \in SUBSET Keys,
             NEW member \in SUBSET Keys
      PROVE  Revised(acl, on, off, member) \in Acls
  BY DEF Revised, Acls
<1>3. ASSUME NEW e \in Ops, NEW acl \in Acls, e.kind = "remove"
      PROVE  AclWithout(e, acl) \in Acls
  <2>1. e.deny \in SUBSET Pairs
    BY <1>3, OpFields
  <2>2. CASE \E pair \in e.deny : e.addr \in pair
    <3>1. {pair \in e.deny : e.addr \notin pair} \in SUBSET Pairs
      BY <2>1
    <3> QED  BY <1>1, <2>2, <3>1 DEF AclWithout
  <2>3. CASE ~\E pair \in e.deny : e.addr \in pair
    <3>1. AclWithout(e, acl) =
            [deny |-> acl.deny, rule |-> acl.rule \ {e.key}, off |-> acl.off \ {e.key},
             block |-> acl.block, group |-> acl.group \ {e.key},
             groupRule |-> acl.groupRule /\ acl.group \ {e.key} # {}]
      BY <2>3 DEF AclWithout
    <3>2. (acl.groupRule /\ acl.group \ {e.key} # {}) \in BOOLEAN
      OBVIOUS
    <3> QED  BY <3>1, <3>2 DEF Acls
  <2> QED  BY <2>2, <2>3
<1> QED  BY <1>1, <1>2, <1>3

\* A registered key has a holder.
LEMMA HolderHas ==
    ASSUME NEW d \in Documents, NEW k \in Registered(d)
    PROVE  /\ Holder(d, k) \in Addrs /\ d.key[Holder(d, k)] = k /\ k # NoKey
           /\ k \in Keys
<1>1. PICK a \in Addrs : d.key[a] = k
  BY DEF Registered
<1>2. k # NoKey
  BY DEF Registered
<1>3. k \in Keys
  BY <1>1, <1>2, DocFields
<1> QED  BY <1>1, <1>2, <1>3 DEF Holder

\* A document with one field replaced is a document.
LEMMA OneFieldSet ==
    ASSUME NEW d \in Documents, NEW a \in Addrs
    PROVE  /\ \A v \in Keys \cup {NoKey} : [d EXCEPT !.key[a] = v] \in Documents
           /\ \A v \in Labels \cup {NoLabel} : [d EXCEPT !.label[a] = v] \in Documents
           /\ \A v \in Devices \cup {NoDevice} : [d EXCEPT !.device[a] = v] \in Documents
           /\ \A v \in BOOLEAN : [d EXCEPT !.approved[a] = v] \in Documents
           /\ \A v \in Acls : [d EXCEPT !.acl = v] \in Documents
           /\ \A v \in SUBSET (Labels \X Keys) : [d EXCEPT !.record = v] \in Documents
<1> USE DEF Documents
<1>1. \A v \in Keys \cup {NoKey} : [d EXCEPT !.key[a] = v] \in Documents
  OBVIOUS
<1>2. \A v \in Labels \cup {NoLabel} : [d EXCEPT !.label[a] = v] \in Documents
  OBVIOUS
<1>3. \A v \in Devices \cup {NoDevice} : [d EXCEPT !.device[a] = v] \in Documents
  OBVIOUS
<1>4. \A v \in BOOLEAN : [d EXCEPT !.approved[a] = v] \in Documents
  OBVIOUS
<1>5. \A v \in Acls : [d EXCEPT !.acl = v] \in Documents
  OBVIOUS
<1>6. \A v \in SUBSET (Labels \X Keys) : [d EXCEPT !.record = v] \in Documents
  OBVIOUS
<1> HIDE DEF Documents
<1> QED  BY <1>1, <1>2, <1>3, <1>4, <1>5, <1>6

\* What the removal and the change of a key do to the fields by themselves.
LEMMA RemovedFields ==
    ASSUME NEW e, NEW d \in Documents
    PROVE  /\ Removed(e, d).key = [d.key EXCEPT ![Holder(d, e.key)] = NoKey]
           /\ Removed(e, d).label = [d.label EXCEPT ![Holder(d, e.key)] = NoLabel]
           /\ Removed(e, d).device = [d.device EXCEPT ![Holder(d, e.key)] = NoDevice]
           /\ Removed(e, d).approved = [d.approved EXCEPT ![Holder(d, e.key)] = FALSE]
           /\ Removed(e, d).record = {r \in d.record : r[2] # e.key}
<1>1. Removed(e, d).key = [d.key EXCEPT ![Holder(d, e.key)] = NoKey]
  BY DEF Removed, Documents
<1>2. Removed(e, d).label = [d.label EXCEPT ![Holder(d, e.key)] = NoLabel]
  BY DEF Removed, Documents
<1>3. Removed(e, d).device = [d.device EXCEPT ![Holder(d, e.key)] = NoDevice]
  BY DEF Removed, Documents
<1>4. Removed(e, d).approved = [d.approved EXCEPT ![Holder(d, e.key)] = FALSE]
  BY DEF Removed, Documents
<1>5. Removed(e, d).record = {r \in d.record : r[2] # e.key}
  BY DEF Removed, Documents
<1> QED  BY <1>1, <1>2, <1>3, <1>4, <1>5

LEMMA RotatedFields ==
    ASSUME NEW e, NEW d \in Documents
    PROVE  /\ Rotated(e, d).key = [d.key EXCEPT ![Holder(d, e.key)] = e.new]
           /\ Rotated(e, d).device = d.device
<1>1. Rotated(e, d).key = [d.key EXCEPT ![Holder(d, e.key)] = e.new]
  BY DEF Rotated, Documents
<1>2. Rotated(e, d).device = d.device
  BY DEF Rotated, Documents
<1> QED  BY <1>1, <1>2

\* Every edit takes a document to a document.
LEMMA EditedType ==
    ASSUME NEW e \in Ops, NEW d \in Documents, Found(e, d)
    PROVE  Edited(e, d) \in Documents
<1> USE DocFields, OpFields
<1>1. CASE e.kind = "append"
  BY <1>1 DEF Edited, Documents
<1>2. CASE e.kind = "remove"
  <2>1. e.key \in Registered(d)
    BY <1>2 DEF Found
  <2>2. Edited(e, d) = Removed(e, d)
    BY <1>2 DEF Edited
  <2> DEFINE h == Holder(d, e.key)
  <2>3. h \in Addrs
    BY <2>1, HolderHas
  <2> DEFINE acl == AclWithout(e, d.acl)
             record == {r \in d.record : r[2] # e.key}
  <2>4. acl \in Acls /\ record \in SUBSET (Labels \X Keys)
    BY <1>2, AclTypes
  <2> DEFINE d1 == [d EXCEPT !.key[h] = NoKey]
             d2 == [d1 EXCEPT !.label[h] = NoLabel]
             d3 == [d2 EXCEPT !.device[h] = NoDevice]
             d4 == [d3 EXCEPT !.approved[h] = FALSE]
             d5 == [d4 EXCEPT !.acl = acl]
             d6 == [d5 EXCEPT !.record = record]
  <2>5. Removed(e, d) = d6
    BY DEF Removed
  <2> HIDE DEF h, acl, record
  <2> HIDE DEF d1, d2, d3, d4, d5, d6
  <2>6. d4 \in Documents
    <3>1. d1 \in Documents  BY <2>3, OneFieldSet DEF d1
    <3>2. d2 \in Documents  BY <2>3, <3>1, OneFieldSet DEF d2
    <3>3. d3 \in Documents  BY <2>3, <3>2, OneFieldSet DEF d3
    <3> QED  BY <2>3, <3>3, OneFieldSet DEF d4
  <2>7. d6 \in Documents
    <3>1. d5 \in Documents  BY <2>3, <2>4, <2>6, OneFieldSet DEF d5
    <3> QED  BY <2>3, <2>4, <3>1, OneFieldSet DEF d6
  <2> QED  BY <2>2, <2>5, <2>7, Zenon
<1>3. CASE e.kind = "rotate"
  <2>1. Holder(d, e.key) \in Addrs
    BY <1>3, HolderHas DEF Found
  <2>2. Edited(e, d) = Rotated(e, d)
    BY <1>3 DEF Edited
  <2> DEFINE record == {<<r[1], IF r[2] = e.key THEN e.new ELSE r[2]>> : r \in d.record}
             d1 == [d EXCEPT !.key[Holder(d, e.key)] = e.new]
             d2 == [d1 EXCEPT !.record = record]
  <2>3. record \in SUBSET (Labels \X Keys)
    BY <1>3
  <2>4. d1 \in Documents
    BY <1>3, <2>1, OneFieldSet
  <2>5. Rotated(e, d) = d2
    BY DEF Rotated
  <2> HIDE DEF d1, record
  <2>6. d2 \in Documents
    BY <2>1, <2>3, <2>4, OneFieldSet
  <2> QED  BY <2>2, <2>5, <2>6
<1>4. CASE e.kind = "label"
  BY <1>4, HolderHas DEF Found, Edited, Documents
<1>5. CASE e.kind = "accept"
  BY <1>5, HolderHas DEF Found, Edited, Documents
<1>6. CASE e.kind = "approve"
  BY <1>6, HolderHas DEF Found, Edited, Documents
<1>7. CASE e.kind = "record"
  BY <1>7 DEF Edited, Documents
<1>8. CASE e.kind = "deny"
  BY <1>8, AclTypes DEF Edited, Documents
<1>9. CASE e.kind = "policy"
  BY <1>9 DEF Edited, Documents
<1> QED  BY <1>1, <1>2, <1>3, <1>4, <1>5, <1>6, <1>7, <1>8, <1>9

\* The keys an edit leaves in the file: those there before and the one it
\* brings, without the one of a peer it removes.
LEMMA EditedKeys ==
    ASSUME NEW e \in Ops, NEW d \in Documents, Found(e, d), Valid(d)
    PROVE  /\ Registered(Edited(e, d)) \subseteq Registered(d) \cup Brought(e)
           /\ e.kind = "remove" => e.key \notin Registered(Edited(e, d))
<1> USE DocFields, OpFields
<1>1. CASE e.kind = "append"
  BY <1>1 DEF Edited, Registered, Brought
<1>2. CASE e.kind = "remove"
  <2>1. e.key \in Registered(d)
    BY <1>2 DEF Found
  <2> DEFINE h == Holder(d, e.key)
  <2>2. h \in Addrs /\ d.key[h] = e.key /\ e.key # NoKey
    BY <2>1, HolderHas
  <2>3. Edited(e, d).key = [d.key EXCEPT ![h] = NoKey]
    BY <1>2, RemovedFields DEF Edited
  <2>4. \A a \in Addrs : d.key[a] = e.key => a = h
    BY <2>2 DEF Valid
  <2> QED  BY <1>2, <2>2, <2>3, <2>4 DEF Registered
<1>3. CASE e.kind = "rotate"
  <2>1. Edited(e, d).key = [d.key EXCEPT ![Holder(d, e.key)] = e.new]
    BY <1>3, RotatedFields DEF Edited
  <2>2. Holder(d, e.key) \in Addrs
    BY <1>3, HolderHas DEF Found
  <2> QED  BY <1>3, <2>1, <2>2 DEF Registered, Brought
<1>4. CASE e.kind \in {"label", "accept", "approve", "record", "deny", "policy"}
  <2>1. Edited(e, d).key = d.key
    BY <1>4 DEF Edited
  <2> QED  BY <1>4, <2>1 DEF Registered
<1> QED  BY <1>1, <1>2, <1>3, <1>4

\* What an edit does to keys and devices: unless it accepts an invite, a device
\* only goes away, with the peer; unless it also changes a key, a peer's key and
\* device stay together.
LEMMA EditedPeers ==
    ASSUME NEW e \in Ops, NEW d \in Documents, Found(e, d), Valid(d), NEW a \in Addrs
    PROVE  /\ e.kind # "accept" =>
                  \/ Edited(e, d).device[a] = d.device[a]
                  \/ Edited(e, d).key[a] = NoKey
           /\ e.kind \notin {"accept", "rotate"} =>
                  \/ /\ Edited(e, d).key[a] = d.key[a]
                     /\ Edited(e, d).device[a] = d.device[a]
                  \/ Edited(e, d).key[a] \in Brought(e) \cup {NoKey}
           /\ (e.kind = "accept" /\ Edited(e, d).device[a] # d.device[a])
                  => d.key[a] = e.key
<1>1. CASE e.kind = "append"
  <2>1. Edited(e, d) = [d EXCEPT !.key[e.addr] = e.key, !.label[e.addr] = e.label]
    BY <1>1 DEF Edited
  <2>2. Edited(e, d).key = [d.key EXCEPT ![e.addr] = e.key]
    BY <2>1 DEF Documents
  <2>3. Edited(e, d).device = d.device
    BY <2>1 DEF Documents
  <2> QED  BY <1>1, <2>2, <2>3, DocFields, OpFields DEF Brought
<1>2. CASE e.kind = "remove"
  <2> DEFINE h == Holder(d, e.key)
  <2>1. h \in Addrs
    BY <1>2, HolderHas, OpFields DEF Found
  <2>2. Edited(e, d) = Removed(e, d)
    BY <1>2 DEF Edited
  <2>3. /\ Edited(e, d).key = [d.key EXCEPT ![h] = NoKey]
        /\ Edited(e, d).device = [d.device EXCEPT ![h] = NoDevice]
    <3>1. Removed(e, d).key = [d.key EXCEPT ![h] = NoKey]
      BY RemovedFields
    <3>2. Removed(e, d).device = [d.device EXCEPT ![h] = NoDevice]
      BY RemovedFields
    <3> QED  BY <2>2, <3>1, <3>2
  <2> HIDE DEF h
  <2> QED  BY <1>2, <2>1, <2>3, DocFields
<1>3. CASE e.kind = "rotate"
  <2>1. Edited(e, d) = Rotated(e, d)
    BY <1>3 DEF Edited
  <2>2. Rotated(e, d).device = d.device
    BY RotatedFields
  <2> QED  BY <1>3, <2>1, <2>2
<1>4. CASE e.kind = "accept"
  <2>1. e.key \in Registered(d)
    BY <1>4 DEF Found
  <2>2. Edited(e, d).device = [d.device EXCEPT ![Holder(d, e.key)] = e.device]
    BY <1>4 DEF Edited, Documents
  <2>3. d.device \in [Addrs -> Devices \cup {NoDevice}]
    BY DocFields
  <2> QED  BY <1>4, <2>1, <2>2, <2>3, HolderHas
<1>5. CASE e.kind \in {"label", "approve", "record", "deny", "policy"}
  <2>1. Edited(e, d).key = d.key /\ Edited(e, d).device = d.device
    <3>1. CASE e.kind = "label"
      BY <3>1 DEF Edited, Documents
    <3>2. CASE e.kind = "approve"
      BY <3>2 DEF Edited, Documents
    <3>3. CASE e.kind = "record"
      BY <3>3 DEF Edited, Documents
    <3>4. CASE e.kind = "deny"
      BY <3>4 DEF Edited, Documents
    <3>5. CASE e.kind = "policy"
      BY <3>5 DEF Edited, Documents
    <3> QED  BY <1>5, <3>1, <3>2, <3>3, <3>4, <3>5
  <2> QED  BY <1>5, <2>1
<1> QED  BY <1>1, <1>2, <1>3, <1>4, <1>5, OpFields

\* Peers and records do not depend on what an edit had read without the lock.
LEMMA RefreshedPeers ==
    ASSUME NEW e \in Ops, NEW d \in Documents
    PROVE  Members(Edited(Refreshed(e, d), d)) = Members(Edited(e, d))
<1>1. CASE e.kind = "remove"
  <2> DEFINE f == [e EXCEPT !.deny = d.acl.deny]
  <2>1. Refreshed(e, d) = f
    BY <1>1 DEF Refreshed
  <2>2. f.kind = "remove" /\ f.key = e.key
    BY <1>1 DEF Ops
  <2>3. Edited(f, d) = Removed(f, d) /\ Edited(e, d) = Removed(e, d)
    BY <1>1, <2>2 DEF Edited
  <2> HIDE DEF f
  <2>4. \A g : g.key = e.key => Members(Removed(g, d)) =
           <<[d.key EXCEPT ![Holder(d, e.key)] = NoKey],
             [d.label EXCEPT ![Holder(d, e.key)] = NoLabel],
             [d.device EXCEPT ![Holder(d, e.key)] = NoDevice],
             [d.approved EXCEPT ![Holder(d, e.key)] = FALSE],
             {r \in d.record : r[2] # e.key}>>
    <3> TAKE g
    <3> HAVE g.key = e.key
    <3>1. /\ Removed(g, d).key = [d.key EXCEPT ![Holder(d, e.key)] = NoKey]
          /\ Removed(g, d).label = [d.label EXCEPT ![Holder(d, e.key)] = NoLabel]
          /\ Removed(g, d).device = [d.device EXCEPT ![Holder(d, e.key)] = NoDevice]
          /\ Removed(g, d).approved = [d.approved EXCEPT ![Holder(d, e.key)] = FALSE]
          /\ Removed(g, d).record = {r \in d.record : r[2] # e.key}
      BY RemovedFields
    <3> QED  BY <3>1, Zenon DEF Members
  <2> QED  BY <2>1, <2>2, <2>3, <2>4
<1>2. CASE e.kind = "policy"
  <2> DEFINE f == [e EXCEPT !.acl = Revised(d.acl, e.on, e.off, e.member)]
  <2>1. Refreshed(e, d) = f
    BY <1>2 DEF Refreshed
  <2>2. f.kind = "policy"
    BY <1>2 DEF Ops
  <2>3. \A g : g.kind = "policy" => Members(Edited(g, d)) = Members(d)
    <3> SUFFICES ASSUME NEW g, g.kind = "policy"
                 PROVE  Members(Edited(g, d)) = Members(d)
      OBVIOUS
    <3>1. Edited(g, d) = [d EXCEPT !.acl = g.acl]
      BY DEF Edited
    <3>2. /\ Edited(g, d).key = d.key /\ Edited(g, d).label = d.label
          /\ Edited(g, d).device = d.device /\ Edited(g, d).approved = d.approved
          /\ Edited(g, d).record = d.record
      BY <3>1 DEF Documents
    <3> QED  BY <3>2, Zenon DEF Members
  <2> HIDE DEF f
  <2> QED  BY <1>2, <2>1, <2>2, <2>3
<1>3. CASE e.kind \notin {"remove", "policy"}
  BY <1>3 DEF Refreshed
<1> QED  BY <1>1, <1>2, <1>3

-----------------------------------------------------------------------------
(* The invariant.                                                          *)

LEMMA InitInv == Init => Inv
<1> SUFFICES ASSUME Init PROVE Inv
  OBVIOUS
<1>1. EmptyDoc \in Documents
  BY AclTypes DEF EmptyDoc, Documents
<1>2. Registered(EmptyDoc) = {}
  BY DEF EmptyDoc, Registered
<1>3. Valid(EmptyDoc)
  BY DEF EmptyDoc, Valid, OnlyPairs
<1>4. TypeOK
  <2>1. file \in Documents /\ Valid(file)
    BY <1>1, <1>3 DEF Init
  <2>2. doc \in [Procs -> Documents]
    BY <1>1 DEF Init
  <2>3. pc \in [Procs -> {"idle", "checked", "locked"}]
    BY DEF Init
  <2>4. \A p \in Procs : pc[p] # "locked"
    BY DEF Init
  <2>5. gen \in 0 .. MaxKey /\ edits \in 0 .. MaxEdit /\ crashes \in 0 .. MaxCrash
    BY ConfigAssumption DEF Init
  <2>6. torn \in BOOLEAN /\ lock \in Procs \cup {Free} /\ revoked \subseteq Keys
    BY DEF Init
  <2> QED  BY <2>1, <2>2, <2>3, <2>4, <2>5, <2>6 DEF TypeOK
<1>5. \A p \in Procs : pc[p] = "idle"
  BY DEF Init
<1> QED  BY <1>2, <1>4, <1>5 DEF Inv, Init, Busy, EditsTyped, LoadedCurrent, BroughtNew,
            RevokedUnused, AcceptFree, RotateByDaemon

\* An edit that begins: a key it brings is the next one to be generated.
LEMMA BeginInv ==
    ASSUME Inv, NEW p \in Procs, NEW e \in Ops, Begin(p, e),
           gen' \in 0 .. MaxKey, gen' >= gen,
           \A k \in Brought(e) : k = gen + 1 /\ gen' = gen + 1,
           e.kind \in {"accept", "rotate"} => p = Daemon,
           e.kind = "accept" => /\ e.key \in Registered(file)
                                /\ \A a \in Addrs : file.key[a] = e.key
                                                     => file.device[a] = NoDevice
    PROVE  Inv'
<1> USE DEF Inv
<1>1. /\ pc[p] = "idle" /\ pc' = [pc EXCEPT ![p] = "checked"]
      /\ op' = [op EXCEPT ![p] = e] /\ edits' = edits + 1 /\ edits < MaxEdit
      /\ file' = file /\ torn' = torn /\ lock' = lock /\ doc' = doc
      /\ crashes' = crashes /\ revoked' = revoked
  BY DEF Begin
<1>2. gen \in Nat /\ gen' \in Nat /\ edits \in Nat /\ MaxEdit \in Nat
  BY ConfigAssumption DEF TypeOK
<1>3. Valid(file)' /\ Registered(file)' = Registered(file)
  BY <1>1 DEF TypeOK, Valid, Registered
<1>4. TypeOK'
  BY <1>1, <1>2, <1>3 DEF TypeOK
<1>5. \A q \in Procs : /\ q # p => (Busy(q)' <=> Busy(q)) /\ op'[q] = op[q]
                       /\ q = p => op'[q] = e
  BY <1>1 DEF Busy, TypeOK, EditsTyped
<1>6. EditsTyped'
  BY <1>1, <1>5 DEF EditsTyped
<1>7. LoadedCurrent'
  BY <1>1 DEF LoadedCurrent, TypeOK
<1>8. \A k \in Registered(file) \cup revoked : k \in Nat /\ k <= gen
  BY ConfigAssumption, DocFields DEF TypeOK, BroughtNew, Keys, Registered
<1>9. \A q \in Procs : Busy(q) => \A k \in Brought(op[q]) : k \in Nat /\ k <= gen
  BY OpFields, ConfigAssumption DEF BroughtNew, EditsTyped, Brought, Keys
<1>10. BroughtNew'
  <2>1. \A k \in Registered(file)' \cup revoked' : k <= gen'
    BY <1>1, <1>2, <1>3, <1>8
  <2> SUFFICES ASSUME NEW q \in Procs, Busy(q)', NEW k \in Brought(op'[q])
               PROVE  /\ k <= gen' /\ k \notin Registered(file) /\ k \notin revoked
                      /\ \A r \in Procs \ {q} : Busy(r)' => k \notin Brought(op'[r])
    BY <1>1, <1>3, <2>1 DEF BroughtNew
  <2>2. CASE q = p
    <3>1. k = gen + 1 /\ gen' = gen + 1
      BY <1>5, <2>2
    <3>2. k <= gen' /\ k \notin Registered(file) /\ k \notin revoked
      BY <1>2, <1>8, <3>1
    <3>3. \A r \in Procs \ {q} : Busy(r)' => k \notin Brought(op'[r])
      BY <1>2, <1>5, <1>9, <2>2, <3>1
    <3> QED  BY <3>2, <3>3
  <2>3. CASE q # p
    <3>1. Busy(q) /\ k \in Brought(op[q])
      BY <1>5, <2>3
    <3>2. k <= gen' /\ k \notin Registered(file) /\ k \notin revoked
      BY <1>2, <1>9, <3>1 DEF BroughtNew
    <3>3. ASSUME NEW r \in Procs \ {q}, Busy(r)' PROVE k \notin Brought(op'[r])
      <4>1. CASE r = p
        BY <1>2, <1>5, <1>9, <3>1, <4>1
      <4>2. CASE r # p
        BY <1>5, <3>1, <3>3, <4>2 DEF BroughtNew
      <4> QED  BY <4>1, <4>2
    <3> QED  BY <3>2, <3>3
  <2> QED  BY <2>2, <2>3
<1>11. RevokedUnused'
  BY <1>1, <1>3 DEF RevokedUnused
<1>12. AcceptFree'
  <2> SUFFICES ASSUME NEW q \in Procs, Busy(q)', op'[q].kind = "accept"
               PROVE  /\ q = Daemon
                      /\ op'[q].key <= gen'
                      /\ \A a \in Addrs : file.key[a] = op'[q].key
                                           => file.device[a] = NoDevice
                      /\ \A r \in Procs : Busy(r)' => op'[q].key \notin Brought(op'[r])
    BY <1>1 DEF AcceptFree
  <2>1. CASE q = p
    <3>1. op'[q] = e
      BY <1>5, <2>1
    <3>2. e.key \in Registered(file) /\ e.key <= gen /\ e.key \in Nat
      BY <1>8, <2>1, <3>1
    <3>3. e.key <= gen'
      BY <1>2, <3>2
    <3>4. ASSUME NEW r \in Procs, Busy(r)' PROVE e.key \notin Brought(op'[r])
      <4>1. CASE r = p
        BY <1>2, <1>5, <3>2, <4>1
      <4>2. CASE r # p
        BY <1>5, <3>2, <3>4, <4>2 DEF BroughtNew
      <4> QED  BY <4>1, <4>2
    <3> QED  BY <2>1, <3>1, <3>3, <3>4
  <2>2. CASE q # p
    <3>1. Busy(q) /\ op'[q] = op[q]
      BY <1>5, <2>2
    <3>2. op[q].key <= gen /\ op[q].key \in Nat
      BY <3>1, OpFields, ConfigAssumption DEF AcceptFree, EditsTyped, Keys
    <3>3. op[q].key <= gen'
      BY <1>2, <3>2
    <3>4. ASSUME NEW r \in Procs, Busy(r)' PROVE op[q].key \notin Brought(op'[r])
      <4>1. CASE r = p
        BY <1>2, <1>5, <3>2, <4>1
      <4>2. CASE r # p
        BY <1>5, <3>1, <3>4, <4>2 DEF AcceptFree
      <4> QED  BY <4>1, <4>2
    <3> QED  BY <3>1, <3>3, <3>4 DEF AcceptFree
  <2> QED  BY <2>1, <2>2
<1>13. RotateByDaemon'
  BY <1>5 DEF RotateByDaemon
<1> QED  BY <1>4, <1>6, <1>7, <1>10, <1>11, <1>12, <1>13

\* The second half of an edit that ends, written or not: the process is idle
\* and the other processes are where they were.
LEMMA DoneRest ==
    ASSUME Inv, NEW p \in Procs, pc[p] = "locked", Done(p), torn' \in BOOLEAN,
           gen' = gen, edits' = edits, crashes' \in 0 .. MaxCrash,
           file' \in Documents, Valid(file'), revoked' \subseteq Keys
    PROVE  /\ TypeOK' /\ EditsTyped' /\ LoadedCurrent' /\ RotateByDaemon'
           /\ \A q \in Procs : Busy(q)' => q # p /\ Busy(q) /\ op'[q] = op[q]
<1> USE DEF Inv
<1>1. /\ pc' = [pc EXCEPT ![p] = "idle"] /\ op' = [op EXCEPT ![p] = NoOp]
      /\ doc' = [doc EXCEPT ![p] = EmptyDoc] /\ lock' = IF lock = p THEN Free ELSE lock
  BY DEF Done
<1>2. EmptyDoc \in Documents
  BY AclTypes DEF EmptyDoc, Documents
<1>3. \A q \in Procs : pc'[q] # "locked"
  <2>1. lock = p
    BY DEF TypeOK
  <2> QED  BY <1>1, <2>1 DEF TypeOK
<1>4. TypeOK'
  <2>1. pc' \in [Procs -> {"idle", "checked", "locked"}]
    BY <1>1 DEF TypeOK
  <2>2. doc' \in [Procs -> Documents] /\ lock' \in Procs \cup {Free}
    BY <1>1, <1>2 DEF TypeOK
  <2>3. gen' \in 0 .. MaxKey /\ edits' \in 0 .. MaxEdit
    BY DEF TypeOK
  <2>4. Valid(file)'
    BY DEF Valid, Registered
  <2> QED  BY <1>3, <2>1, <2>2, <2>3, <2>4 DEF TypeOK
<1>5. \A q \in Procs : Busy(q)' => q # p /\ Busy(q) /\ op'[q] = op[q]
  BY <1>1 DEF Busy, TypeOK, EditsTyped
<1>6. EditsTyped'
  BY <1>1, <1>5 DEF EditsTyped
<1>7. LoadedCurrent'
  BY <1>3 DEF LoadedCurrent
<1>8. RotateByDaemon'
  BY <1>5 DEF RotateByDaemon
<1> QED  BY <1>4, <1>5, <1>6, <1>7, <1>8

\* load_doc_locked loads what is in the file.
LEMMA LockInv == ASSUME Inv, NEW p \in Procs, Lock(p) PROVE Inv'
<1> USE DEF Inv
<1>1. /\ pc[p] = "checked" /\ lock = Free /\ lock' = p
      /\ pc' = [pc EXCEPT ![p] = "locked"] /\ doc' = [doc EXCEPT ![p] = file]
      /\ file' = file /\ torn' = torn /\ op' = op /\ gen' = gen /\ edits' = edits
      /\ crashes' = crashes /\ revoked' = revoked
  BY DEF Lock
<1>2. Valid(file)' /\ Registered(file)' = Registered(file)
  BY <1>1 DEF TypeOK, Valid, Registered
<1>3. \A q \in Procs : (Busy(q)' <=> Busy(q)) /\ (q # p => pc'[q] # "locked")
  BY <1>1, ConfigAssumption DEF Busy, TypeOK
<1>4. TypeOK'
  BY <1>1, <1>2, <1>3 DEF TypeOK
<1>5. EditsTyped'
  BY <1>1, <1>3 DEF EditsTyped
<1>6. LoadedCurrent'
  BY <1>1, <1>3 DEF LoadedCurrent, TypeOK
<1>7. BroughtNew'
  BY <1>1, <1>2, <1>3 DEF BroughtNew
<1>8. RevokedUnused'
  BY <1>1, <1>2 DEF RevokedUnused
<1>9. AcceptFree'
  BY <1>1, <1>3 DEF AcceptFree
<1>10. RotateByDaemon'
  BY <1>1, <1>3 DEF RotateByDaemon
<1> QED  BY <1>4, <1>5, <1>6, <1>7, <1>8, <1>9, <1>10

\* An edit that is refused, or a process that dies while it writes.
LEMMA UnwrittenInv == ASSUME Inv, NEW p \in Procs, Refuse(p) \/ WriteCrash(p) PROVE Inv'
<1> USE DEF Inv
<1>1. /\ pc[p] = "locked" /\ Done(p) /\ file' = file /\ gen' = gen /\ edits' = edits
      /\ revoked' = revoked
  BY DEF Refuse, WriteCrash
<1>2. torn' \in BOOLEAN /\ crashes' \in 0 .. MaxCrash
  <2>1. CASE Refuse(p)
    BY <2>1 DEF Refuse, TypeOK
  <2>2. CASE WriteCrash(p)
    BY <2>2, ConfigAssumption DEF WriteCrash, TypeOK
  <2> QED  BY <2>1, <2>2
<1>3. Registered(file)' = Registered(file)
  BY <1>1 DEF Registered
<1>4. file' \in Documents /\ Valid(file') /\ revoked' \subseteq Keys
  BY <1>1 DEF TypeOK
<1>5. /\ TypeOK' /\ EditsTyped' /\ LoadedCurrent' /\ RotateByDaemon'
      /\ \A q \in Procs : Busy(q)' => Busy(q) /\ op'[q] = op[q]
  BY <1>1, <1>2, <1>4, DoneRest
<1>6. BroughtNew'
  BY <1>1, <1>3, <1>5 DEF BroughtNew
<1>7. RevokedUnused'
  BY <1>1, <1>3 DEF RevokedUnused
<1>8. AcceptFree'
  BY <1>1, <1>5 DEF AcceptFree
<1> QED  BY <1>5, <1>6, <1>7, <1>8

\* A write applies the edit to the file as it is.
LEMMA WriteFacts ==
    ASSUME Inv, NEW p \in Procs, Write(p)
    PROVE  /\ op[p] \in Ops /\ Busy(p) /\ file \in Documents /\ Valid(file)
           /\ Found(op[p], file) /\ file' = Edited(op[p], file)
           /\ file' \in Documents /\ Valid(file')
<1> USE DEF Inv
<1>1. Busy(p) /\ op[p] \in Ops /\ doc[p] = file
  BY DEF Write, Busy, EditsTyped, LoadedCurrent
<1>2. file \in Documents /\ Valid(file)
  BY DEF TypeOK
<1>3. Found(op[p], file) /\ file' = Edited(op[p], file) /\ Valid(file')
  BY <1>1 DEF Write
<1> QED  BY <1>1, <1>2, <1>3, EditedType

LEMMA WriteInv == ASSUME Inv, NEW p \in Procs, Write(p) PROVE Inv'
<1> USE DEF Inv
<1> DEFINE e == op[p]
<1>1. /\ e \in Ops /\ Busy(p) /\ file \in Documents /\ Valid(file) /\ Found(e, file)
      /\ file' = Edited(e, file) /\ file' \in Documents /\ Valid(file')
  BY WriteFacts
<1>2. /\ Registered(file)' \subseteq Registered(file) \cup Brought(e)
      /\ e.kind = "remove" => e.key \notin Registered(file)'
  <2>1. Registered(file)' = Registered(Edited(e, file))
    BY <1>1 DEF Registered
  <2> QED  BY <1>1, <2>1, EditedKeys
<1>3. /\ revoked' = IF e.kind = "remove" THEN revoked \cup {e.key} ELSE revoked
      /\ pc[p] = "locked" /\ Done(p) /\ torn' = torn /\ gen' = gen /\ edits' = edits
      /\ crashes' = crashes
  BY DEF Write
<1>4. e.kind = "remove" => e.key \in Registered(file) /\ e.key \in Keys
  BY <1>1, OpFields DEF Found
<1>5. revoked' \subseteq Keys
  BY <1>3, <1>4 DEF TypeOK
<1>6. /\ TypeOK' /\ EditsTyped' /\ LoadedCurrent' /\ RotateByDaemon'
      /\ \A q \in Procs : Busy(q)' => q # p /\ Busy(q) /\ op'[q] = op[q]
  <2>1. torn' \in BOOLEAN /\ crashes' \in 0 .. MaxCrash
    BY <1>3 DEF TypeOK
  <2> QED  BY <1>1, <1>3, <1>5, <2>1, DoneRest
<1>7. BroughtNew'
  <2>1. ASSUME NEW k \in Registered(file)' \cup revoked' PROVE k <= gen'
    BY <1>1, <1>2, <1>3, <1>4, <2>1 DEF BroughtNew
  <2>2. ASSUME NEW q \in Procs, Busy(q)', NEW k \in Brought(op'[q])
        PROVE  /\ k <= gen' /\ k \notin Registered(file)' /\ k \notin revoked'
               /\ \A r \in Procs \ {q} : Busy(r)' => k \notin Brought(op'[r])
    <3>1. q # p /\ Busy(q) /\ k \in Brought(op[q])
      BY <1>6, <2>2
    <3>2. k <= gen /\ k \notin Registered(file) /\ k \notin revoked
      BY <3>1 DEF BroughtNew
    <3>3. k \notin Brought(e)
      BY <1>1, <3>1 DEF BroughtNew
    <3>4. \A r \in Procs \ {q} : Busy(r)' => k \notin Brought(op'[r])
      BY <1>6, <3>1 DEF BroughtNew
    <3> QED  BY <1>2, <1>3, <1>4, <3>2, <3>3, <3>4
  <2> QED  BY <2>1, <2>2 DEF BroughtNew
<1>8. RevokedUnused'
  <2>1. Brought(e) \cap revoked = {}
    BY <1>1 DEF BroughtNew
  <2>2. Registered(file)' \cap revoked = {}
    BY <1>2, <2>1 DEF RevokedUnused
  <2> QED  BY <1>2, <1>3, <2>2 DEF RevokedUnused
<1>9. AcceptFree'
  <2> SUFFICES ASSUME NEW q \in Procs, Busy(q)', op'[q].kind = "accept"
               PROVE  /\ q = Daemon
                      /\ op'[q].key <= gen'
                      /\ \A a \in Addrs : file'.key[a] = op'[q].key
                                           => file'.device[a] = NoDevice
                      /\ \A r \in Procs : Busy(r)' => op'[q].key \notin Brought(op'[r])
    BY DEF AcceptFree
  <2>1. q # p /\ Busy(q) /\ op'[q] = op[q] /\ op[q].kind = "accept"
    BY <1>6
  <2>2. q = Daemon /\ op[q].key <= gen
    BY <2>1 DEF AcceptFree
  <2>3. e.kind \notin {"accept", "rotate"}
    BY <1>1, <2>1, <2>2 DEF AcceptFree, RotateByDaemon
  <2>4. op[q].key \notin Brought(e)
    BY <1>1, <2>1 DEF AcceptFree
  <2>5. op[q].key # NoKey
    BY <2>1, OpFields DEF EditsTyped, Keys, NoKey
  <2>6. ASSUME NEW a \in Addrs, file'.key[a] = op[q].key
        PROVE  file'.device[a] = NoDevice
    <3>1. file'.key[a] = file.key[a] /\ file'.device[a] = file.device[a]
      BY <1>1, <2>3, <2>4, <2>5, <2>6, EditedPeers
    <3> QED  BY <2>1, <2>6, <3>1 DEF AcceptFree
  <2>7. \A r \in Procs : Busy(r)' => op[q].key \notin Brought(op'[r])
    BY <1>6, <2>1 DEF AcceptFree
  <2> QED  BY <1>3, <2>1, <2>2, <2>6, <2>7
<1> QED  BY <1>6, <1>7, <1>8, <1>9

\* The first halves: what each kind of edit takes from the file.
LEMMA InviteInv == ASSUME Inv, NEW p \in Procs, BeginInvite(p) PROVE Inv'
<1>1. PICK a \in Addrs, l \in Labels :
         /\ gen < MaxKey /\ gen' = gen + 1
         /\ Begin(p, [kind |-> "append", addr |-> a, key |-> gen + 1, label |-> l])
  BY DEF BeginInvite
<1> DEFINE e == [kind |-> "append", addr |-> a, key |-> gen + 1, label |-> l]
<1>2. gen + 1 \in Keys /\ gen' \in 0 .. MaxKey /\ gen' >= gen
  BY <1>1, ConfigAssumption DEF Inv, TypeOK, Keys
<1>3. e \in Ops
  BY <1>2 DEF Ops
<1>4. e.kind = "append" /\ Brought(e) = {gen + 1}
  BY DEF Brought
<1>5. Begin(p, e)
  BY <1>1
<1> HIDE DEF e
<1> QED  BY <1>1, <1>2, <1>3, <1>4, <1>5, BeginInv

LEMMA RotateInv == ASSUME Inv, NEW p \in Procs, BeginRotate(p) PROVE Inv'
<1>1. PICK a \in Addrs :
         /\ p = Daemon /\ file.key[a] # NoKey /\ gen < MaxKey /\ gen' = gen + 1
         /\ Begin(p, [kind |-> "rotate", key |-> file.key[a], new |-> gen + 1])
  BY DEF BeginRotate
<1> DEFINE e == [kind |-> "rotate", key |-> file.key[a], new |-> gen + 1]
<1>2. gen + 1 \in Keys /\ gen' \in 0 .. MaxKey /\ gen' >= gen
  BY <1>1, ConfigAssumption DEF Inv, TypeOK, Keys
<1>3. file.key[a] \in Keys
  BY <1>1, DocFields DEF Inv, TypeOK
<1>4. e \in Ops
  BY <1>2, <1>3 DEF Ops
<1>5. e.kind = "rotate" /\ Brought(e) = {gen + 1}
  BY DEF Brought
<1>6. Begin(p, e)
  BY <1>1
<1> HIDE DEF e
<1> QED  BY <1>1, <1>2, <1>4, <1>5, <1>6, BeginInv

LEMMA AcceptInv == ASSUME Inv, NEW p \in Procs, BeginAccept(p) PROVE Inv'
<1>1. PICK a \in Addrs, v \in Devices :
         /\ p = Daemon /\ file.key[a] # NoKey /\ file.device[a] = NoDevice
         /\ Begin(p, [kind |-> "accept", key |-> file.key[a], device |-> v])
         /\ gen' = gen
  BY DEF BeginAccept
<1> DEFINE e == [kind |-> "accept", key |-> file.key[a], device |-> v]
<1>2. file.key[a] \in Keys /\ file.key[a] \in Registered(file)
  BY <1>1, DocFields DEF Inv, TypeOK, Registered
<1>3. \A b \in Addrs : file.key[b] = file.key[a] => file.device[b] = NoDevice
  BY <1>1 DEF Inv, TypeOK, Valid
<1>4. e \in Ops /\ e.kind = "accept" /\ e.key = file.key[a] /\ Brought(e) = {}
  BY <1>2 DEF Ops, Brought
<1>5. gen' \in 0 .. MaxKey /\ gen' >= gen
  BY <1>1, ConfigAssumption DEF Inv, TypeOK
<1>6. Begin(p, e)
  BY <1>1
<1> HIDE DEF e
<1> QED  BY <1>1, <1>2, <1>3, <1>4, <1>5, <1>6, BeginInv

\* The other kinds bring no key and bind no device.
LEMMA PlainInv ==
    ASSUME Inv, NEW p \in Procs, NEW e \in Ops, Begin(p, e), gen' = gen,
           e.kind \notin {"append", "rotate", "accept"}
    PROVE  Inv'
<1>1. gen' \in 0 .. MaxKey /\ gen' >= gen
  BY ConfigAssumption DEF Inv, TypeOK
<1>2. Brought(e) = {}
  BY DEF Brought
<1> QED  BY <1>1, <1>2, BeginInv

LEMMA OtherInv ==
    ASSUME Inv, NEW p \in Procs,
           \/ BeginRemove(p) \/ BeginLabel(p) \/ BeginApprove(p) \/ BeginRecord(p)
           \/ BeginDeny(p) \/ BeginRule(p) \/ BeginGroup(p)
    PROVE  Inv'
<1>1. /\ \A a \in Addrs : file.key[a] # NoKey => file.key[a] \in Keys
      /\ Registered(file) \subseteq Keys
      /\ file.acl \in Acls /\ file.acl.deny \in SUBSET Pairs
  BY DocFields DEF Inv, TypeOK, Registered, Acls
<1>2. CASE BeginRemove(p)
  <2>1. PICK a \in Addrs :
           /\ file.key[a] # NoKey /\ gen' = gen
           /\ Begin(p, [kind |-> "remove", addr |-> a, key |-> file.key[a],
                        deny |-> file.acl.deny])
    BY <1>2 DEF BeginRemove
  <2>2. [kind |-> "remove", addr |-> a, key |-> file.key[a],
         deny |-> file.acl.deny] \in Ops
    BY <1>1, <2>1 DEF Ops
  <2> QED  BY <2>1, <2>2, PlainInv
<1>3. CASE BeginLabel(p)
  <2>1. PICK a \in Addrs, l \in Labels :
           /\ file.key[a] # NoKey /\ gen' = gen
           /\ Begin(p, [kind |-> "label", key |-> file.key[a], label |-> l])
    BY <1>3 DEF BeginLabel
  <2>2. [kind |-> "label", key |-> file.key[a], label |-> l] \in Ops
    BY <1>1, <2>1 DEF Ops
  <2> QED  BY <2>1, <2>2, PlainInv
<1>4. CASE BeginApprove(p)
  <2>1. PICK a \in Addrs :
           /\ file.key[a] # NoKey /\ gen' = gen
           /\ Begin(p, [kind |-> "approve", key |-> file.key[a]])
    BY <1>4 DEF BeginApprove
  <2>2. [kind |-> "approve", key |-> file.key[a]] \in Ops
    BY <1>1, <2>1 DEF Ops
  <2> QED  BY <2>1, <2>2, PlainInv
<1>5. CASE BeginRecord(p)
  <2>1. PICK k \in Registered(file), l \in Labels :
           gen' = gen /\ Begin(p, [kind |-> "record", key |-> k, label |-> l])
    BY <1>5 DEF BeginRecord
  <2>2. [kind |-> "record", key |-> k, label |-> l] \in Ops
    BY <1>1 DEF Ops
  <2> QED  BY <2>1, <2>2, PlainInv
<1>6. CASE BeginDeny(p)
  <2>1. PICK d \in SUBSET Pairs : gen' = gen /\ Begin(p, [kind |-> "deny", deny |-> d])
    BY <1>6 DEF BeginDeny
  <2>2. [kind |-> "deny", deny |-> d] \in Ops
    BY DEF Ops
  <2> QED  BY <2>1, <2>2, PlainInv
<1>7. ASSUME NEW on \in SUBSET Keys, NEW off \in SUBSET Keys, NEW member \in SUBSET Keys,
             Begin(p, Policy(on, off, member)), gen' = gen
      PROVE  Inv'
  <2>1. Revised(file.acl, on, off, member) \in Acls
    BY <1>1, AclTypes
  <2>2. Policy(on, off, member) \in Ops /\ Policy(on, off, member).kind = "policy"
    BY <2>1 DEF Policy, Ops
  <2> QED  BY <1>7, <2>2, PlainInv
<1>8. CASE BeginRule(p)
  <2>1. PICK k \in Registered(file) :
           /\ gen' = gen
           /\ Begin(p, Policy({k}, {}, {})) \/ Begin(p, Policy({}, {k}, {}))
    BY <1>8 DEF BeginRule
  <2>2. {k} \in SUBSET Keys /\ {} \in SUBSET Keys
    BY <1>1
  <2> QED  BY <1>7, <2>1, <2>2
<1>9. CASE BeginGroup(p)
  <2>1. PICK k \in Registered(file) : gen' = gen /\ Begin(p, Policy({}, {}, {k}))
    BY <1>9 DEF BeginGroup
  <2>2. {k} \in SUBSET Keys /\ {} \in SUBSET Keys
    BY <1>1
  <2> QED  BY <1>7, <2>1, <2>2
<1> QED  BY <1>2, <1>3, <1>4, <1>5, <1>6, <1>8, <1>9

LEMMA StepInv == Inv /\ [Next]_vars => Inv'
<1> SUFFICES ASSUME Inv, [Next]_vars PROVE Inv'
  OBVIOUS
<1>1. CASE UNCHANGED vars
  <2>1. Valid(file)' /\ Registered(file)' = Registered(file)
    BY <1>1 DEF Inv, TypeOK, Valid, Registered, vars
  <2>2. TypeOK'
    BY <1>1, <2>1 DEF Inv, TypeOK, vars
  <2>3. \A q \in Procs : Busy(q)' <=> Busy(q)
    BY <1>1 DEF Busy, vars
  <2>4. /\ EditsTyped' /\ LoadedCurrent' /\ BroughtNew' /\ RevokedUnused'
        /\ AcceptFree' /\ RotateByDaemon'
    BY <1>1, <2>1, <2>3 DEF Inv, vars, EditsTyped, LoadedCurrent, BroughtNew, RevokedUnused,
       AcceptFree, RotateByDaemon
  <2> QED  BY <2>2, <2>4 DEF Inv
<1>2. ASSUME NEW p \in Procs, Step(p) PROVE Inv'
  BY <1>2, InviteInv, RotateInv, AcceptInv, OtherInv, LockInv, WriteInv, UnwrittenInv DEF Step
<1> QED  BY <1>1, <1>2 DEF Next

\* Every pending edit is sound in every reachable state, whoever interleaves
\* with whom: the reason why the lock and the fresh keys are enough.
THEOREM EditsSound == Spec => []Inv
<1> QED  BY InitInv, StepInv, PTL DEF Spec

\* host.toml keeps its type and passes Config::validate, and the lock has one
\* holder, for any number of processes and edits.
THEOREM TypeCorrect == Spec => []TypeOK
<1>1. Inv => TypeOK
  BY DEF Inv
<1> QED  BY <1>1, EditsSound, PTL

\* No peer, record or enabled rule ever names a key whose peer was removed: an
\* edit that waited for the lock does not bring the member back.
THEOREM RevokedStaysGone == Spec => []RevokedGone
<1>1. Inv => RevokedGone
  <2> SUFFICES ASSUME Inv PROVE RevokedGone
    OBVIOUS
  <2>1. file.acl.rule \subseteq Registered(file) /\ {r[2] : r \in file.record} \subseteq Registered(file)
    BY DEF Inv, TypeOK, Valid
  <2> QED  BY <2>1 DEF Inv, RevokedUnused, RevokedGone
<1> QED  BY <1>1, EditsSound, PTL

\* A step that ends an edit and changes the file is a write of that edit.
LEMMA WhoWrites ==
    ASSUME Inv, [Next]_vars, file' # file
    PROVE  \E p \in Procs : Write(p) /\ \A q \in Procs \ {p} : pc'[q] = pc[q]
<1>1. PICK p \in Procs : Step(p)
  BY DEF Next, vars
<1>2. Write(p)
  BY <1>1 DEF Step, BeginInvite, BeginRemove, BeginRotate, BeginLabel, BeginAccept,
     BeginApprove, BeginRecord, BeginDeny, BeginRule, BeginGroup, Begin, Lock, Refuse,
     WriteCrash
<1>3. \A q \in Procs \ {p} : pc'[q] = pc[q]
  BY <1>2 DEF Write, Done, Inv, TypeOK
<1> QED  BY <1>2, <1>3

\* Whatever an edit had read before it got the lock, the peers and records it
\* writes are its own change applied to those in the file: no edit is lost.
THEOREM NoPeerLost == Spec => PeersKept
<1> DEFINE Kept == \A p \in Procs :
         (pc[p] = "locked" /\ pc'[p] = "idle" /\ file' # file)
            => Members(file') = Members(Edited(Refreshed(op[p], file), file))
<1>1. Inv /\ [Next]_vars => Kept
  <2> SUFFICES ASSUME Inv, [Next]_vars, NEW p \in Procs, pc[p] = "locked",
                      pc'[p] = "idle", file' # file
               PROVE  Members(file') = Members(Edited(Refreshed(op[p], file), file))
    OBVIOUS
  <2>1. Write(p)
    BY WhoWrites
  <2> QED  BY <2>1, WriteFacts, RefreshedPeers
<1> QED  BY <1>1, EditsSound, PTL DEF Spec, PeersKept

\* A device that took an invite keeps its peer until the peer is removed.
THEOREM DeviceStays == Spec => DeviceBound
<1> DEFINE Stays == \A a \in Addrs :
         (file.device[a] # NoDevice /\ file'.device[a] # file.device[a])
            => file'.key[a] = NoKey
<1>1. Inv /\ [Next]_vars => Stays
  <2> SUFFICES ASSUME Inv, [Next]_vars, NEW a \in Addrs, file.device[a] # NoDevice,
                      file'.device[a] # file.device[a]
               PROVE  file'.key[a] = NoKey
    OBVIOUS
  <2>1. PICK p \in Procs : Write(p)
    BY WhoWrites
  <2>2. /\ op[p] \in Ops /\ Busy(p) /\ file \in Documents /\ Valid(file)
        /\ Found(op[p], file) /\ file' = Edited(op[p], file)
    BY <2>1, WriteFacts
  <2>3. op[p].kind # "accept"
    BY <2>2, EditedPeers DEF Inv, AcceptFree
  <2> QED  BY <2>2, <2>3, EditedPeers
<1> QED  BY <1>1, EditsSound, PTL DEF Spec, DeviceBound

-----------------------------------------------------------------------------
(* The direct path.  Between the halves of a cycle the ledger's subnets    *)
(* are those the cycle works with, unless another ledger landed.           *)

PathPhases == [end : D!Endpoint, phase : {"none", "trying", "direct"}, quiet : BOOLEAN,
               late : BOOLEAN]

PathTyped ==
    /\ dirLedger \in D!Ledger /\ got \in D!Ledger /\ state \in PathPhases
    /\ step \in {"idle", "routes"} /\ dev \in {"absent", "probe", "routed"}
    /\ hostPeer \in BOOLEAN /\ leaked \in BOOLEAN /\ dirCrossed \in BOOLEAN
    /\ hostNets \subseteq Subnets /\ extra \subseteq Subnets

CycleLedger == step = "routes" /\ ~dirCrossed => got.nets = dirLedger.nets

PathInv == PathTyped /\ CycleLedger /\ D!RelayKept /\ D!HostPeerRetried

\* What the manager decides in the first half of a cycle.
PathMoves == D!Gone \/ D!Rebind \/ D!Establish \/ D!Fail \/ D!Add \/ D!KeepPath

LEMMA WantedIs == PathTyped => D!Wanted \in D!Endpoint
BY DEF PathTyped, D!Wanted, D!Ledger, D!Endpoint

LEMMA ForgetKeeps ==
    ASSUME PathInv, NEW ok \in BOOLEAN, D!Forget(ok)
    PROVE  /\ state' \in PathPhases /\ dev' \in {"absent", "probe", "routed"}
           /\ leaked' \in BOOLEAN /\ D!RelayKept'
<1>1. dev \in {"absent", "probe", "routed"}
  BY DEF PathInv, PathTyped
<1>2. /\ state' = D!Idle /\ dev' = IF ok THEN "absent" ELSE dev
      /\ leaked' = (~ok /\ dev # "absent")
  BY DEF D!Forget, D!AfterRemove
<1>3. D!Idle \in PathPhases
  BY DEF D!Idle, PathPhases, D!Endpoint
<1>4. leaked' \in BOOLEAN
  BY <1>2
<1>5. D!RelayKept'
  BY <1>1, <1>2 DEF D!RelayKept
<1> QED  BY <1>1, <1>2, <1>3, <1>4, <1>5

LEMMA ProbeKeeps ==
    ASSUME NEW end \in D!Endpoint, NEW quiet \in BOOLEAN, NEW ok \in BOOLEAN,
           NEW before \in {"absent", "probe", "routed"}, NEW wasFresh, NEW wasLeaked \in BOOLEAN,
           D!Probe(end, quiet, ok, before, wasFresh, wasLeaked), before = "routed" => wasLeaked
    PROVE  /\ state' \in PathPhases /\ dev' \in {"absent", "probe", "routed"}
           /\ leaked' \in BOOLEAN /\ D!RelayKept'
<1> DEFINE trying == [end |-> end, phase |-> "trying", quiet |-> quiet, late |-> FALSE]
<1>1. /\ state' = IF ok THEN trying ELSE D!Idle
      /\ dev' = IF ok THEN "probe" ELSE before
      /\ leaked' = (wasLeaked /\ ~ok)
  BY DEF D!Probe
<1>2. D!Idle \in PathPhases /\ trying \in PathPhases
  BY DEF D!Idle, PathPhases, D!Endpoint
<1> HIDE DEF trying
<1>3. leaked' \in BOOLEAN
  BY <1>1
<1>4. D!RelayKept'
  BY <1>1 DEF D!RelayKept
<1> QED  BY <1>1, <1>2, <1>3, <1>4

LEMMA OutcomeIs == ASSUME NEW n \in Nat, NEW r \in D!Outcomes(n), NEW i \in 1 .. n
                   PROVE  r[i] \in BOOLEAN
BY DEF D!Outcomes

LEMMA PathStep ==
    ASSUME PathInv, PathMoves
    PROVE  /\ state' \in PathPhases /\ dev' \in {"absent", "probe", "routed"}
           /\ leaked' \in BOOLEAN /\ D!RelayKept'
<1>1. PathTyped /\ D!RelayKept
  BY DEF PathInv
<1>2. D!Wanted \in D!Endpoint
  BY <1>1, WantedIs
<1>3. CASE D!Gone \/ D!Fail
  <2>1. PICK r \in D!Outcomes(1) : D!Forget(r[1])
    BY <1>3 DEF D!Gone, D!Fail
  <2>2. r[1] \in BOOLEAN
    BY OutcomeIs
  <2> QED  BY <2>1, <2>2, ForgetKeeps
<1>4. CASE D!Rebind
  <2>1. PICK r \in D!Outcomes(2) :
          D!Probe(D!Wanted, FALSE, r[2], D!AfterRemove(r[1]), fresh /\ ~r[1], ~r[1])
    BY <1>4 DEF D!Rebind
  <2>2. r[1] \in BOOLEAN /\ r[2] \in BOOLEAN
    BY OutcomeIs
  <2>3. /\ D!AfterRemove(r[1]) \in {"absent", "probe", "routed"}
        /\ D!AfterRemove(r[1]) = "routed" => ~r[1]
    BY <1>1, <2>2 DEF D!AfterRemove, PathTyped
  <2>4. (~r[1]) \in BOOLEAN
    BY <2>2
  <2> QED  BY <1>2, <2>1, <2>2, <2>3, <2>4, ProbeKeeps
<1>5. CASE D!Add
  <2> DEFINE quiet == D!Kept.end = D!Wanted
             want == D!Wanted
  <2>1. PICK r \in D!Outcomes(1) : D!Probe(want, quiet, r[1], dev, fresh, leaked)
    BY <1>5 DEF D!Add
  <2>2. quiet \in BOOLEAN /\ want \in D!Endpoint
    BY <1>2
  <2> HIDE DEF quiet, want
  <2>3. r[1] \in BOOLEAN
    BY OutcomeIs
  <2>4. state.phase = "none"
    BY <1>5 DEF D!Add
  <2>5. dev \in {"absent", "probe", "routed"} /\ leaked \in BOOLEAN
    BY <1>1 DEF PathTyped
  <2>6. dev = "routed" => leaked
    BY <1>1, <2>4 DEF D!RelayKept
  <2> QED  BY <2>1, <2>2, <2>3, <2>5, <2>6, ProbeKeeps
<1>6. CASE D!Establish
  <2> DEFINE up == [state EXCEPT !.phase = "direct", !.quiet = FALSE, !.late = FALSE]
  <2>1. /\ \/ state' = up /\ dev' = "routed"
           \/ state' = state /\ dev' = dev
        /\ leaked' = leaked
    BY <1>6 DEF D!Establish
  <2>2. up \in PathPhases /\ up.phase = "direct"
    BY <1>1 DEF PathTyped, PathPhases
  <2> HIDE DEF up
  <2>3. D!RelayKept'
    BY <1>1, <2>1, <2>2 DEF D!RelayKept
  <2> QED  BY <1>1, <2>1, <2>2, <2>3 DEF PathTyped
<1>7. CASE D!KeepPath
  BY <1>1, <1>7 DEF D!KeepPath, PathTyped, D!RelayKept
<1> QED  BY <1>3, <1>4, <1>5, <1>6, <1>7 DEF PathMoves

LEMMA DirectKeeps == PathInv /\ D!DirNext => PathInv'
<1> SUFFICES ASSUME PathInv, D!DirNext PROVE PathInv'
  OBVIOUS
<1>1. PathTyped /\ CycleLedger /\ D!RelayKept /\ D!HostPeerRetried
  BY DEF PathInv
<1>2. CASE D!LedgerArrives
  <2>1. /\ hostPeer /\ dirLedger' \in D!Ledger /\ dirCrossed' = (dirCrossed \/ step = "routes")
        /\ UNCHANGED <<state, dev, leaked, step, got, hostPeer, hostNets, extra>>
    BY <1>2 DEF D!LedgerArrives, D!pathVars, D!hostVars
  <2> QED  BY <1>1, <2>1 DEF PathInv, PathTyped, CycleLedger, D!RelayKept, D!HostPeerRetried
<1>3. CASE D!EndpointAges
  <2>1. /\ dirLedger' = [dirLedger EXCEPT !.end = D!None]
        /\ UNCHANGED <<state, dev, leaked, step, got, hostPeer, hostNets, extra, dirCrossed>>
    BY <1>3 DEF D!EndpointAges, D!pathVars, D!hostVars
  <2>2. dirLedger' \in D!Ledger /\ dirLedger'.nets = dirLedger.nets
    BY <1>1, <2>1 DEF PathTyped, D!Ledger, D!Endpoint
  <2> QED  BY <1>1, <2>1, <2>2
           DEF PathInv, PathTyped, CycleLedger, D!RelayKept, D!HostPeerRetried
<1>4. CASE D!Configure \/ D!Handshake
  <2>1. UNCHANGED <<dirLedger, state, dev, leaked, step, got, hostPeer, hostNets, extra,
                    dirCrossed>>
    BY <1>4 DEF D!Configure, D!Handshake, D!pathVars, D!hostVars
  <2> QED  BY <1>1, <2>1 DEF PathInv, PathTyped, CycleLedger, D!RelayKept, D!HostPeerRetried
<1>5. CASE D!Elapse
  <2> DEFINE s == [state EXCEPT !.late = TRUE]
  <2>1. /\ state' = s \/ state' = state
        /\ UNCHANGED <<dirLedger, dev, leaked, step, got, hostPeer, hostNets, extra, dirCrossed>>
    BY <1>5 DEF D!Elapse, D!hostVars
  <2>2. s \in PathPhases /\ s.phase = state.phase
    BY <1>1 DEF PathTyped, PathPhases
  <2> HIDE DEF s
  <2>3. state' \in PathPhases /\ state'.phase = state.phase
    BY <1>1, <2>1, <2>2 DEF PathTyped
  <2> QED  BY <1>1, <2>1, <2>3
           DEF PathInv, PathTyped, CycleLedger, D!RelayKept, D!HostPeerRetried
<1>6. CASE D!TickDirect
  <2>1. /\ step' = "routes" /\ got' = dirLedger /\ PathMoves
        /\ UNCHANGED <<dirLedger, hostPeer, hostNets, extra, dirCrossed>>
    BY <1>6 DEF D!TickDirect, PathMoves, D!hostVars
  <2>2. /\ state' \in PathPhases /\ dev' \in {"absent", "probe", "routed"}
        /\ leaked' \in BOOLEAN /\ D!RelayKept'
    BY <2>1, PathStep
  <2> QED  BY <1>1, <2>1, <2>2 DEF PathInv, PathTyped, CycleLedger, D!HostPeerRetried
<1>7. CASE D!TickRoutes
  <2>1. /\ step = "routes" /\ step' = "idle"
        /\ UNCHANGED <<dirLedger, state, dev, leaked, got, dirCrossed>>
        /\ \/ /\ got.nets # extra
              /\ \E r \in D!Outcomes(2) : D!RebindHost(r) /\ (r[1] \/ r[2])
           \/ UNCHANGED <<hostPeer, hostNets, extra>>
    BY <1>7 DEF D!TickRoutes, D!pathVars
  <2>2. got.nets \subseteq Subnets
    BY <1>1 DEF PathTyped, D!Ledger
  <2>3. CASE UNCHANGED <<hostPeer, hostNets, extra>>
    BY <1>1, <2>1, <2>3 DEF PathInv, PathTyped, CycleLedger, D!RelayKept, D!HostPeerRetried
  <2>4. CASE /\ got.nets # extra
             /\ \E r \in D!Outcomes(2) : D!RebindHost(r) /\ (r[1] \/ r[2])
    <3>1. PICK r \in D!Outcomes(2) : D!RebindHost(r) /\ (r[1] \/ r[2])
      BY <2>4
    <3>2. r[1] \in BOOLEAN /\ r[2] \in BOOLEAN
      BY OutcomeIs
    <3>3. /\ hostPeer' = IF r[1] THEN r[2] ELSE hostPeer
          /\ hostNets' = IF r[1] THEN IF r[2] THEN got.nets ELSE {} ELSE hostNets
          /\ extra' = IF r[1] /\ r[2] THEN got.nets ELSE extra
      BY <3>1 DEF D!RebindHost
    <3>4. hostPeer' \in BOOLEAN /\ hostNets' \subseteq Subnets /\ extra' \subseteq Subnets
      BY <1>1, <2>2, <3>2, <3>3 DEF PathTyped
    <3>5. ~dirCrossed => got.nets = dirLedger.nets
      BY <1>1, <2>1 DEF CycleLedger
    <3>6. D!HostPeerRetried'
      BY <1>1, <2>1, <2>4, <3>1, <3>2, <3>3, <3>5 DEF D!HostPeerRetried
    <3> QED  BY <1>1, <2>1, <3>4, <3>6 DEF PathInv, PathTyped, CycleLedger, D!RelayKept
  <2> QED  BY <2>1, <2>3, <2>4
<1> QED  BY <1>2, <1>3, <1>4, <1>5, <1>6, <1>7 DEF D!DirNext

LEMMA PathInit == HostInit => PathInv
<1> SUFFICES ASSUME HostInit PROVE PathInv
  OBVIOUS
<1>1. D!DirInit
  BY DEF HostInit
<1>2. dirLedger \in D!Ledger /\ got \in D!Ledger /\ dirLedger.nets = {} /\ got.nets = {}
  BY <1>1 DEF D!DirInit, D!Ledger, D!Endpoint
<1>3. state \in PathPhases
  BY <1>1 DEF D!DirInit, D!Idle, PathPhases, D!Endpoint
<1> QED  BY <1>1, <1>2, <1>3
         DEF D!DirInit, PathInv, PathTyped, CycleLedger, D!RelayKept, D!HostPeerRetried

(* Traffic leaves the relay only for a direct path, whatever calls fail    *)
(* and handshakes come late (DirectManager::tick, drop_peer), and a host's *)
(* peer that could not be put back differs from what was applied, so the   *)
(* next cycle tries again (rebind_host_peer).                              *)
THEOREM DirectPathsSound == HostSpec => []PathsSound
<1>2. PathInv /\ [HostNext]_allVars => PathInv'
  <2> SUFFICES ASSUME PathInv, [HostNext]_allVars PROVE PathInv'
    OBVIOUS
  <2>1. D!DirNext \/ UNCHANGED directState
    BY DEF HostNext, EditsStep, RequestsStep, SessionStep, TunnelsStep, DirectStep, allVars
  <2>2. CASE UNCHANGED directState
    BY <2>2 DEF directState, PathInv, PathTyped, CycleLedger, D!RelayKept, D!HostPeerRetried
  <2> QED  BY <2>1, <2>2, DirectKeeps
<1>3. PathInv => PathsSound
  BY DEF PathInv, PathsSound
<1> QED  BY PathInit, <1>2, <1>3, PTL DEF HostSpec

-----------------------------------------------------------------------------
(* The session.  A connection that registered is the registry's as long as *)
(* nobody told it to close; one that was accepted while its member awaits  *)
(* approval is isolated, and no distribution says that a member awaits     *)
(* approval before it has said Hello.                                      *)

Entries == [st : S!Statuses, rev : 1 .. MaxRev]
ConnStates == [at : {"none", "hello", "accepted", "registered", "run", "drain", "done", "rtt",
                     "end"},
               iso : BOOLEAN, fresh : BOOLEAN, out : BOOLEAN, close : BOOLEAN]

SessionTyped ==
    /\ sessFile \in Entries /\ needs \in BOOLEAN
    /\ tick = << >> \/ \E d \in Entries : tick = <<d>>
    /\ dist \in [st : S!Statuses, rev : 0 .. MaxRev]
    /\ sessConn \in [S!Conns -> ConnStates]
    /\ reg \in 0 .. MaxConns /\ opened \in 0 .. MaxConns

InRegistry == \A n \in S!Conns :
    sessConn[n].at \in {"registered", "run"} /\ ~sessConn[n].close => reg = n

Awaiting ==
    /\ sessFile.st = "awaiting" => needs
    /\ sessFile.st = "pending" => /\ dist.st # "awaiting"
                                  /\ tick # << >> => tick[1].st # "awaiting"

AcceptedApart == \A n \in S!Conns :
    /\ sessConn[n].at \in {"accepted", "registered"}
    /\ needs /\ sessFile.st \in {"pending", "awaiting"}
    => sessConn[n].iso

SessionInv == SessionTyped /\ InRegistry /\ Awaiting /\ AcceptedApart /\ S!WindowCloses

LEMMA SessionIs == /\ MaxConns \in Nat /\ MaxRev \in Nat \ {0} /\ S!Conns = 1 .. MaxConns
                   /\ S!NoConn \in ConnStates /\ S!NoConn.at = "none"
                   /\ S!NoConn.close = FALSE /\ S!NoConn.fresh = FALSE
BY HostAssumption DEF S!SessionAssumption, S!Conns, S!NoConn, ConnStates

\* A step of one connection, with the file and the distribution as they are.
LEMMA ConnMoves ==
    ASSUME SessionInv, NEW n \in S!Conns, NEW r \in ConnStates,
           sessConn' = [sessConn EXCEPT ![n] = r],
           UNCHANGED <<sessFile, needs, tick, dist>>,
           reg' \in 0 .. MaxConns, opened' \in 0 .. MaxConns,
           r.at \in {"accepted", "registered"} =>
             sessConn[n].at \in {"accepted", "registered"} /\ r.iso = sessConn[n].iso,
           r.at = "run" /\ ~r.fresh /\ dist.st = "awaiting" /\ sessFile.st = "awaiting" => r.iso,
           r.at \in {"registered", "run"} /\ ~r.close => reg' = n,
           reg' = reg \/ reg = n
    PROVE  SessionInv'
<1>1. SessionTyped /\ InRegistry /\ Awaiting /\ AcceptedApart /\ S!WindowCloses
  BY DEF SessionInv
<1>2. /\ sessConn' \in [S!Conns -> ConnStates] /\ sessConn'[n] = r
      /\ \A m \in S!Conns : m # n => sessConn'[m] = sessConn[m]
  BY <1>1 DEF SessionTyped
<1>3. SessionTyped'
  BY <1>1, <1>2 DEF SessionTyped
<1>4. InRegistry'
  BY <1>1, <1>2 DEF InRegistry
<1>5. Awaiting'
  BY <1>1 DEF Awaiting
<1>6. AcceptedApart'
  BY <1>1, <1>2 DEF AcceptedApart
<1>7. S!WindowCloses'
  BY <1>1, <1>2 DEF S!WindowCloses
<1> QED  BY <1>3, <1>4, <1>5, <1>6, <1>7 DEF SessionInv

\* A step that ends at a state of its own: hello, drain, done, rtt or end.
LEMMA ConnLeaves ==
    ASSUME SessionInv, NEW n \in S!Conns, NEW r \in ConnStates,
           sessConn' = [sessConn EXCEPT ![n] = r],
           r.at \notin {"accepted", "registered", "run"},
           UNCHANGED <<sessFile, needs, tick, dist>>, opened' \in 0 .. MaxConns,
           reg' = reg \/ (reg = n /\ reg' = 0)
    PROVE  SessionInv'
<1>1. reg \in 0 .. MaxConns /\ 0 \in 0 .. MaxConns
  BY SessionIs DEF SessionInv, SessionTyped
<1>2. reg' \in 0 .. MaxConns /\ (reg' = reg \/ reg = n)
  BY <1>1
<1> QED  BY <1>2, ConnMoves

\* S!Step leaves the connection with nothing but its place.
LEMMA StepIs ==
    ASSUME SessionInv, NEW n \in S!Conns,
           NEW to \in {"drain", "done", "rtt", "end"},
           sessConn' = [sessConn EXCEPT ![n] = [S!NoConn EXCEPT !.at = to]],
           UNCHANGED <<sessFile, needs, tick, dist, opened>>,
           reg' = reg \/ (reg = n /\ reg' = 0)
    PROVE  SessionInv'
<1> DEFINE r == [S!NoConn EXCEPT !.at = to]
<1>1. r \in ConnStates /\ r.at = to
  BY DEF S!NoConn, ConnStates
<1>2. sessConn' = [sessConn EXCEPT ![n] = r]
  OBVIOUS
<1> HIDE DEF r
<1>3. opened' \in 0 .. MaxConns
  BY DEF SessionInv, SessionTyped
<1> QED  BY <1>1, <1>2, <1>3, ConnLeaves

\* The file moves on while the connections stay.
LEMMA FileOfSession ==
    ASSUME SessionInv, sessFile' \in Entries, sessFile'.st = sessFile.st \/
             (sessFile'.st \in {"joined", "gone"}),
           UNCHANGED <<needs, tick, dist, sessConn, reg, opened>>
    PROVE  SessionInv'
BY DEF SessionInv, SessionTyped, InRegistry, Awaiting, AcceptedApart, S!WindowCloses

LEMMA FileEdits ==
    ASSUME SessionInv, S!Approve \/ S!Remove \/ S!EditOther PROVE SessionInv'
<1>1. sessFile \in Entries
  BY DEF SessionInv, SessionTyped
<1> DEFINE joined == [sessFile EXCEPT !.st = "joined"]
           gone == [sessFile EXCEPT !.st = "gone"]
           later == [sessFile EXCEPT !.rev = sessFile.rev + 1]
<1>2. /\ joined \in Entries /\ joined.st = "joined" /\ gone \in Entries /\ gone.st = "gone"
  BY <1>1 DEF Entries, S!Statuses
<1>3. ASSUME sessFile.rev < MaxRev PROVE later \in Entries /\ later.st = sessFile.st
  <2>1. sessFile.rev + 1 \in 1 .. MaxRev
    BY <1>1, <1>3, SessionIs DEF Entries
  <2> QED  BY <1>1, <2>1 DEF Entries
<1>4. /\ \/ sessFile' = joined
         \/ sessFile' = gone
         \/ sessFile.rev < MaxRev /\ sessFile' = later
      /\ UNCHANGED <<needs, tick, dist, sessConn, reg, opened>>
  BY DEF S!Approve, S!Remove, S!EditOther, S!member
<1> HIDE DEF joined, gone, later
<1>5. sessFile' \in Entries /\ (sessFile'.st = sessFile.st \/ sessFile'.st \in {"joined", "gone"})
  BY <1>2, <1>3, <1>4
<1> QED  BY <1>4, <1>5, FileOfSession

\* A tick marks connections: those to be told of the removal, and those to look again.
LEMMA Marked ==
    ASSUME SessionTyped, sessConn' \in [S!Conns -> ConnStates],
           \A n \in S!Conns : /\ sessConn'[n].at = sessConn[n].at
                              /\ sessConn'[n].iso = sessConn[n].iso
                              /\ sessConn'[n].close = sessConn[n].close,
           UNCHANGED <<sessFile, needs, reg>>
    PROVE  (InRegistry => InRegistry') /\ (AcceptedApart => AcceptedApart')
BY DEF InRegistry, AcceptedApart

LEMMA LoadKeeps == SessionInv /\ S!Load => SessionInv'
<1> SUFFICES ASSUME SessionInv, S!Load PROVE SessionInv'
  OBVIOUS
<1> DEFINE told(n) == [sessConn[n] EXCEPT !.out = TRUE]
           Tell(n) == ~noticed /\ sessFile.st = "gone" /\ reg = n
<1>1. SessionTyped /\ InRegistry /\ Awaiting /\ AcceptedApart /\ S!WindowCloses
  BY DEF SessionInv
<1>2. /\ tick' = <<sessFile>>
      /\ sessConn' = [n \in S!Conns |-> IF Tell(n) THEN told(n) ELSE sessConn[n]]
      /\ UNCHANGED <<sessFile, needs, dist, reg, opened>>
  BY DEF S!Load, S!member
<1>3. \A n \in S!Conns :
        /\ sessConn[n] \in ConnStates /\ told(n) \in ConnStates
        /\ told(n).at = sessConn[n].at /\ told(n).iso = sessConn[n].iso
        /\ told(n).close = sessConn[n].close /\ told(n).fresh = sessConn[n].fresh
  BY <1>1 DEF SessionTyped, ConnStates
<1> HIDE DEF told, Tell
<1>4. /\ sessConn' \in [S!Conns -> ConnStates]
      /\ \A n \in S!Conns : /\ sessConn'[n].at = sessConn[n].at
                            /\ sessConn'[n].iso = sessConn[n].iso
                            /\ sessConn'[n].close = sessConn[n].close
                            /\ sessConn'[n].fresh = sessConn[n].fresh
  BY <1>2, <1>3
<1>5. tick'[1] = sessFile /\ sessFile \in Entries
  BY <1>1, <1>2 DEF SessionTyped
<1>6. SessionTyped'
  BY <1>1, <1>2, <1>4, <1>5 DEF SessionTyped
<1>7. InRegistry' /\ AcceptedApart'
  BY <1>1, <1>2, <1>4, Marked
<1>8. Awaiting'
  BY <1>1, <1>2, <1>5 DEF Awaiting
<1>9. S!WindowCloses'
  BY <1>1, <1>2, <1>4 DEF S!WindowCloses
<1> QED  BY <1>6, <1>7, <1>8, <1>9 DEF SessionInv

LEMMA PublishKeeps == ASSUME SessionInv, NEW aged \in BOOLEAN, S!Publish(aged) PROVE SessionInv'
<1> DEFINE woken(n) == [sessConn[n] EXCEPT !.fresh = TRUE]
           Wake(n) == (aged \/ dist' # dist) /\ sessConn[n].at = "run"
<1>1. SessionTyped /\ InRegistry /\ Awaiting /\ AcceptedApart /\ S!WindowCloses
  BY DEF SessionInv
<1>2. /\ tick # << >> /\ tick' = << >> /\ dist' = tick[1]
      /\ sessConn' = [n \in S!Conns |-> IF Wake(n) THEN woken(n) ELSE sessConn[n]]
      /\ UNCHANGED <<sessFile, needs, reg, opened>>
  BY DEF S!Publish, S!member
<1>3. \A n \in S!Conns :
        /\ sessConn[n] \in ConnStates /\ woken(n) \in ConnStates
        /\ woken(n).at = sessConn[n].at /\ woken(n).iso = sessConn[n].iso
        /\ woken(n).close = sessConn[n].close /\ woken(n).fresh = TRUE
  BY <1>1 DEF SessionTyped, ConnStates
<1> HIDE DEF woken
<1>4. /\ sessConn' \in [S!Conns -> ConnStates]
      /\ \A n \in S!Conns : /\ sessConn'[n].at = sessConn[n].at
                            /\ sessConn'[n].iso = sessConn[n].iso
                            /\ sessConn'[n].close = sessConn[n].close
  BY <1>2, <1>3
<1>5. \A n \in S!Conns : sessConn[n].at = "run" /\ ~sessConn'[n].fresh
                         => dist' = dist /\ sessConn'[n] = sessConn[n]
  BY <1>2, <1>3
<1>6. dist' \in [st : S!Statuses, rev : 0 .. MaxRev]
  <2>1. PICK d \in Entries : tick = <<d>>
    BY <1>1, <1>2 DEF SessionTyped
  <2>2. dist' = d
    BY <1>2, <2>1
  <2> QED  BY <2>2, SessionIs DEF Entries
<1>7. SessionTyped'
  BY <1>1, <1>2, <1>4, <1>6 DEF SessionTyped
<1>8. InRegistry' /\ AcceptedApart'
  BY <1>1, <1>2, <1>4, Marked
<1>9. Awaiting'
  BY <1>1, <1>2 DEF Awaiting
<1>10. S!WindowCloses'
  BY <1>1, <1>2, <1>4, <1>5 DEF S!WindowCloses
<1> QED  BY <1>7, <1>8, <1>9, <1>10 DEF SessionInv

LEMMA MemberMoves ==
    ASSUME SessionInv, S!Connect \/ S!MemberDrop \/ S!MemberRead \/ S!MemberEof
    PROVE  SessionInv'
<1>1. SessionTyped
  BY DEF SessionInv
<1>2. CASE S!Connect
  <2> DEFINE n == opened + 1
             r == [sessConn[n] EXCEPT !.at = "hello"]
  <2>1. /\ opened < MaxConns /\ opened' = n
        /\ sessConn' = [sessConn EXCEPT ![n].at = "hello"]
        /\ UNCHANGED <<sessFile, needs, tick, dist, reg>>
    BY <1>2 DEF S!Connect, S!hostFile
  <2>2. n \in S!Conns /\ n \in 0 .. MaxConns
    BY <1>1, <2>1, SessionIs DEF SessionTyped
  <2> HIDE DEF n
  <2>3. sessConn[n] \in ConnStates /\ sessConn \in [S!Conns -> ConnStates]
    BY <1>1, <2>2 DEF SessionTyped
  <2>4. r \in ConnStates /\ r.at = "hello"
    BY <2>3 DEF ConnStates
  <2>5. sessConn' = [sessConn EXCEPT ![n] = r]
    BY <2>1, <2>2, <2>3
  <2> HIDE DEF r
  <2> QED  BY <2>1, <2>2, <2>4, <2>5, ConnLeaves
<1>3. CASE S!MemberDrop \/ S!MemberRead \/ S!MemberEof
  <2>1. UNCHANGED <<sessFile, needs, tick, dist, sessConn, reg, opened>>
    BY <1>3 DEF S!MemberDrop, S!MemberRead, S!MemberEof, S!hostFile
  <2> QED  BY <2>1 DEF SessionInv, SessionTyped, InRegistry, Awaiting, AcceptedApart,
                       S!WindowCloses
<1> QED  BY <1>2, <1>3

\* Hello: who waits for approval is isolated before anything is sent.
LEMMA AcceptKeeps == ASSUME SessionInv, NEW n \in S!Conns, S!AcceptInvite(n) PROVE SessionInv'
<1>1. SessionTyped /\ InRegistry /\ Awaiting /\ AcceptedApart /\ S!WindowCloses
  BY DEF SessionInv
<1>2. /\ sessConn[n] \in ConnStates /\ sessConn \in [S!Conns -> ConnStates]
      /\ sessFile \in Entries /\ needs \in BOOLEAN
  BY <1>1 DEF SessionTyped
<1>3. sessConn[n].at = "hello" /\ UNCHANGED <<needs, tick, dist, reg, opened>>
  BY DEF S!AcceptInvite, S!member
<1>4. CASE sessFile.st = "gone"
  <2> DEFINE r == [sessConn[n] EXCEPT !.at = "end"]
  <2>1. sessConn' = [sessConn EXCEPT ![n].at = "end"] /\ UNCHANGED sessFile
    BY <1>4 DEF S!AcceptInvite
  <2>2. sessConn' = [sessConn EXCEPT ![n] = r]
    BY <1>2, <2>1
  <2>3. r \in ConnStates /\ r.at = "end"
    BY <1>2 DEF ConnStates
  <2>4. opened' \in 0 .. MaxConns
    BY <1>1, <1>3 DEF SessionTyped
  <2> HIDE DEF r
  <2> QED  BY <1>3, <2>1, <2>2, <2>3, <2>4, ConnLeaves
<1>5. CASE sessFile.st # "gone"
  <2> DEFINE r == [sessConn[n] EXCEPT !.at = "accepted", !.iso = S!Isolated]
             joined == IF sessFile.st # "pending" THEN sessFile.st
                       ELSE IF needs THEN "awaiting" ELSE "joined"
             f == [sessFile EXCEPT !.st = joined]
  <2>1. /\ sessConn' = [sessConn EXCEPT ![n].at = "accepted", ![n].iso = S!Isolated]
        /\ sessFile' = f
    BY <1>5 DEF S!AcceptInvite
  <2>2. S!Isolated \in BOOLEAN
    BY <1>2 DEF S!Isolated
  <2>3. sessConn' = [sessConn EXCEPT ![n] = r]
    BY <1>2, <2>1
  <2>4. r \in ConnStates /\ r.at = "accepted" /\ r.iso = S!Isolated
    BY <1>2, <2>2 DEF ConnStates
  <2>5. joined \in S!Statuses
    BY <1>2 DEF Entries, S!Statuses
  <2>6. f \in Entries /\ f.st = joined
    BY <1>2, <2>5 DEF Entries
  <2> HIDE DEF r, f
  <2>7. /\ sessConn' \in [S!Conns -> ConnStates] /\ sessConn'[n] = r
        /\ \A m \in S!Conns : m # n => sessConn'[m] = sessConn[m]
    BY <1>2, <2>3, <2>4
  <2>8. SessionTyped'
    BY <1>1, <1>3, <2>1, <2>6, <2>7 DEF SessionTyped
  <2>9. InRegistry'
    BY <1>1, <1>3, <2>4, <2>7 DEF InRegistry
  <2>10. joined \in {"pending", "awaiting"} => sessFile.st \in {"pending", "awaiting"}
    OBVIOUS
  <2>11. joined # "pending" /\ (joined = "awaiting" => needs)
    BY <1>1 DEF Awaiting
  <2> HIDE DEF joined
  <2>12. Awaiting'
    BY <1>3, <2>1, <2>6, <2>11 DEF Awaiting
  <2>13. AcceptedApart'
    <3> SUFFICES ASSUME NEW m \in S!Conns, sessConn'[m].at \in {"accepted", "registered"},
                        needs, sessFile'.st \in {"pending", "awaiting"}
                 PROVE  sessConn'[m].iso
      BY <1>3 DEF AcceptedApart
    <3>1. sessFile.st \in {"pending", "awaiting"}
      BY <2>1, <2>6, <2>10
    <3>2. CASE m = n
      BY <2>4, <2>7, <3>1, <3>2 DEF S!Isolated
    <3>3. CASE m # n
      BY <1>1, <2>7, <3>1, <3>3 DEF AcceptedApart
    <3> QED  BY <3>2, <3>3
  <2>14. S!WindowCloses'
    <3> SUFFICES ASSUME NEW m \in S!Conns, sessConn'[m].at = "run", ~sessConn'[m].fresh,
                        dist.st = "awaiting", sessFile'.st = "awaiting"
                 PROVE  sessConn'[m].iso
      BY <1>3 DEF S!WindowCloses
    <3>1. m # n /\ sessConn'[m] = sessConn[m]
      BY <2>4, <2>7
    <3>2. sessFile.st = "awaiting"
      <4>1. sessFile.st \in {"pending", "awaiting"}
        BY <2>1, <2>6, <2>10
      <4>2. sessFile.st # "pending"
        BY <1>1 DEF Awaiting
      <4> QED  BY <4>1, <4>2
    <3> QED  BY <1>1, <3>1, <3>2 DEF S!WindowCloses
  <2> QED  BY <2>8, <2>9, <2>12, <2>13, <2>14 DEF SessionInv
<1> QED  BY <1>4, <1>5

\* The newer connection takes the place of the older, which is told to close.
LEMMA RegisterKeeps == ASSUME SessionInv, NEW n \in S!Conns, S!Register(n) PROVE SessionInv'
<1> DEFINE r == [sessConn[n] EXCEPT !.at = "registered"]
           closed(m) == [sessConn[m] EXCEPT !.close = TRUE]
<1>1. SessionTyped /\ InRegistry /\ Awaiting /\ AcceptedApart /\ S!WindowCloses
  BY DEF SessionInv
<1>2. /\ sessConn[n].at = "accepted" /\ reg' = n
      /\ sessConn' = [m \in S!Conns |-> IF m = n THEN r
                                        ELSE IF m = reg THEN closed(m) ELSE sessConn[m]]
      /\ UNCHANGED <<sessFile, needs, tick, dist, opened>>
  BY DEF S!Register, S!hostFile, S!member
<1>3. r \in ConnStates /\ r.at = "registered" /\ r.iso = sessConn[n].iso
  BY <1>1 DEF SessionTyped, ConnStates
<1>4. \A m \in S!Conns :
        /\ sessConn[m] \in ConnStates /\ closed(m) \in ConnStates
        /\ closed(m).at = sessConn[m].at /\ closed(m).iso = sessConn[m].iso
        /\ closed(m).close = TRUE /\ closed(m).fresh = sessConn[m].fresh
  BY <1>1 DEF SessionTyped, ConnStates
<1> HIDE DEF r, closed
<1>5. /\ sessConn' \in [S!Conns -> ConnStates] /\ sessConn'[n] = r
      /\ \A m \in S!Conns \ {n} :
           /\ sessConn'[m].at = sessConn[m].at /\ sessConn'[m].iso = sessConn[m].iso
           /\ sessConn'[m].fresh = sessConn[m].fresh
           /\ sessConn'[m].close = sessConn[m].close \/ sessConn'[m].close = TRUE
           /\ m = reg => sessConn'[m].close = TRUE
  BY <1>2, <1>3, <1>4
<1>6. n \in 0 .. MaxConns
  BY SessionIs
<1>7. SessionTyped'
  BY <1>1, <1>2, <1>5, <1>6 DEF SessionTyped
<1>8. InRegistry'
  <2> SUFFICES ASSUME NEW m \in S!Conns, sessConn'[m].at \in {"registered", "run"},
                      ~sessConn'[m].close
               PROVE  m = n
    BY <1>2 DEF InRegistry
  <2> SUFFICES ASSUME m # n PROVE FALSE
    OBVIOUS
  <2>1. sessConn[m].at \in {"registered", "run"} /\ ~sessConn[m].close /\ m # reg
    BY <1>5
  <2> QED  BY <1>1, <2>1 DEF InRegistry
<1>9. Awaiting'
  BY <1>1, <1>2 DEF Awaiting
<1>10. AcceptedApart'
  <2> SUFFICES ASSUME NEW m \in S!Conns, sessConn'[m].at \in {"accepted", "registered"},
                      needs, sessFile.st \in {"pending", "awaiting"}
               PROVE  sessConn'[m].iso
    BY <1>2 DEF AcceptedApart
  <2>1. sessConn[m].at \in {"accepted", "registered"} /\ sessConn'[m].iso = sessConn[m].iso
    BY <1>2, <1>3, <1>5
  <2> QED  BY <1>1, <2>1 DEF AcceptedApart
<1>11. S!WindowCloses'
  <2> SUFFICES ASSUME NEW m \in S!Conns, sessConn'[m].at = "run", ~sessConn'[m].fresh,
                      dist.st = "awaiting", sessFile.st = "awaiting"
               PROVE  sessConn'[m].iso
    BY <1>2 DEF S!WindowCloses
  <2>1. m # n
    BY <1>3, <1>5
  <2>2. sessConn[m].at = "run" /\ ~sessConn[m].fresh /\ sessConn'[m].iso = sessConn[m].iso
    BY <1>5, <2>1
  <2> QED  BY <1>1, <2>2 DEF S!WindowCloses
<1> QED  BY <1>7, <1>8, <1>9, <1>10, <1>11 DEF SessionInv

LEMMA BeginKeeps == ASSUME SessionInv, NEW n \in S!Conns, S!Begin(n) PROVE SessionInv'
<1> DEFINE r == [sessConn[n] EXCEPT !.at = "run", !.fresh = FALSE]
<1>1. SessionTyped /\ InRegistry /\ Awaiting /\ AcceptedApart
  BY DEF SessionInv
<1>2. sessConn[n] \in ConnStates /\ sessConn \in [S!Conns -> ConnStates]
  BY <1>1 DEF SessionTyped
<1>3. /\ sessConn[n].at = "registered"
      /\ sessConn' = [sessConn EXCEPT ![n].at = "run", ![n].fresh = FALSE]
      /\ UNCHANGED <<sessFile, needs, tick, dist, reg, opened>>
  BY DEF S!Begin, S!hostFile, S!member
<1>4. sessConn' = [sessConn EXCEPT ![n] = r]
  BY <1>2, <1>3
<1>5. /\ r \in ConnStates /\ r.at = "run" /\ r.iso = sessConn[n].iso
      /\ r.close = sessConn[n].close
  BY <1>2 DEF ConnStates
<1> HIDE DEF r
<1>6. sessFile.st = "awaiting" => r.iso
  BY <1>1, <1>3, <1>5 DEF Awaiting, AcceptedApart
<1>7. ~r.close => reg' = n
  BY <1>1, <1>3, <1>5 DEF InRegistry
<1>8. reg' \in 0 .. MaxConns /\ opened' \in 0 .. MaxConns
  BY <1>1, <1>3 DEF SessionTyped
<1> QED  BY <1>3, <1>4, <1>5, <1>6, <1>7, <1>8, ConnMoves

LEMMA WriterLedgerKeeps ==
    ASSUME SessionInv, NEW n \in S!Conns, S!WriterLedger(n) PROVE SessionInv'
<1> DEFINE iso == dist.st = "awaiting"
           r == [sessConn[n] EXCEPT !.fresh = FALSE, !.iso = iso]
<1>1. SessionTyped /\ InRegistry
  BY DEF SessionInv
<1>2. sessConn[n] \in ConnStates /\ sessConn \in [S!Conns -> ConnStates] /\ iso \in BOOLEAN
  BY <1>1 DEF SessionTyped
<1>3. /\ sessConn[n].at = "run"
      /\ sessConn' = [sessConn EXCEPT ![n].fresh = FALSE, ![n].iso = iso]
      /\ UNCHANGED <<sessFile, needs, tick, dist, reg, opened>>
  BY DEF S!WriterLedger, S!hostFile, S!member
<1>4. dist.st = "awaiting" => iso
  OBVIOUS
<1> HIDE DEF iso
<1>5. sessConn' = [sessConn EXCEPT ![n] = r]
  BY <1>2, <1>3
<1>6. /\ r \in ConnStates /\ r.at = "run" /\ r.iso = iso
      /\ r.close = sessConn[n].close
  BY <1>2, <1>3 DEF ConnStates
<1> HIDE DEF r
<1>7. ~r.close => reg' = n
  BY <1>1, <1>3, <1>6 DEF InRegistry
<1>8. reg' \in 0 .. MaxConns /\ opened' \in 0 .. MaxConns
  BY <1>1, <1>3 DEF SessionTyped
<1> QED  BY <1>3, <1>4, <1>5, <1>6, <1>7, <1>8, ConnMoves

LEMMA ConnEnds ==
    ASSUME SessionInv, NEW n \in S!Conns,
           \/ S!WriterRemoved(n) \/ S!Close(n) \/ S!DrainEnd(n) \/ S!TaskEnd(n)
           \/ S!Unregister(n) \/ S!Disconnected(n)
    PROVE  SessionInv'
<1>1. PICK to \in {"drain", "done", "rtt", "end"} :
        /\ sessConn' = [sessConn EXCEPT ![n] = [S!NoConn EXCEPT !.at = to]]
        /\ reg' = reg \/ (reg = n /\ reg' = 0)
        /\ UNCHANGED <<sessFile, needs, tick, dist, opened>>
  BY DEF S!WriterRemoved, S!Close, S!DrainEnd, S!TaskEnd, S!Unregister, S!Disconnected,
         S!Step, S!hostFile, S!member
<1> QED  BY <1>1, StepIs

LEMMA SessionKeeps == SessionInv /\ S!Next => SessionInv'
<1> SUFFICES ASSUME SessionInv, S!Next PROVE SessionInv'
  OBVIOUS
<1>1. CASE \E n \in S!Conns : S!HostConn(n)
  <2>1. PICK n \in S!Conns : S!HostConn(n)
    BY <1>1
  <2>2. CASE S!Ping(n)
    <3>1. UNCHANGED <<sessFile, needs, tick, dist, sessConn, reg, opened>>
      BY <2>2 DEF S!Ping, S!hostFile, S!member
    <3> QED  BY <3>1 DEF SessionInv, SessionTyped, InRegistry, Awaiting, AcceptedApart,
                         S!WindowCloses
  <2> QED  BY <2>1, <2>2, AcceptKeeps, RegisterKeeps, BeginKeeps, WriterLedgerKeeps, ConnEnds
           DEF S!HostConn
<1>2. CASE \E aged \in BOOLEAN : S!Publish(aged)
  BY <1>2, PublishKeeps
<1>3. CASE S!Approve \/ S!Remove \/ S!EditOther
  BY <1>3, FileEdits
<1>4. CASE S!Load
  BY <1>4, LoadKeeps
<1>5. CASE S!Connect \/ S!MemberDrop \/ S!MemberRead \/ S!MemberEof
  BY <1>5, MemberMoves
<1> QED  BY <1>1, <1>2, <1>3, <1>4, <1>5 DEF S!Next

LEMMA SessionInit == HostInit => SessionInv
<1> SUFFICES ASSUME HostInit PROVE SessionInv
  OBVIOUS
<1>1. S!Init
  BY DEF HostInit
<1>2. sessFile \in Entries /\ sessFile.st = "pending"
  BY <1>1, SessionIs DEF S!Init, Entries, S!Statuses
<1>3. dist \in [st : S!Statuses, rev : 0 .. MaxRev] /\ dist.st = "gone"
  BY <1>1, SessionIs DEF S!Init, S!NoLedger, S!Statuses
<1>4. sessConn \in [S!Conns -> ConnStates] /\ \A n \in S!Conns : sessConn[n].at = "none"
  BY <1>1, SessionIs DEF S!Init
<1> QED  BY <1>1, <1>2, <1>3, <1>4, SessionIs
         DEF S!Init, SessionInv, SessionTyped, InRegistry, Awaiting, AcceptedApart,
             S!WindowCloses

-----------------------------------------------------------------------------
(* The requests.  A write under way was prepared against the file of its   *)
(* number of writes: as long as that number stands, what was found free is *)
(* free.  An administrator's request that is past its check has not been   *)
(* counted against it yet.                                                 *)

Names == [Askers -> Labels \cup {NoLabel}]
HostFiles == [here : SUBSET Askers, waiting : SUBSET Askers, admin : SUBSET Askers,
              invite : SUBSET Askers, name : Names, dns : Names, record : SUBSET Labels,
              subnet : SUBSET Askers, set : R!Settings, groups : SUBSET Groups,
              rules : SUBSET Groups]
Checked == [at : {"checked"}, op : R!AllOps, actor : Askers, target : Askers]
PlansOf(actors) ==
    [at : {"write"}, op : R!AllOps, actor : actors, target : Askers, label : Labels,
     group : Groups, ver : Nat, set : R!Settings, groups : SUBSET Groups,
     rules : SUBSET Groups]

RequestsTyped ==
    /\ reqFile \in HostFiles /\ ver \in Nat /\ crossed \in BOOLEAN
    /\ after \in [Askers -> Nat]
    /\ DOMAIN job = R!Sides
    /\ job["daemon"] \in {R!Idle} \cup Checked \cup PlansOf(Askers)
    /\ job["ui"] \in {R!Idle} \cup PlansOf({"host"})

CountedOnce == \A m \in Askers : /\ after[m] =< 1
                                 /\ m \in reqFile.admin => after[m] = 0

PastItsCheck ==
    job["daemon"].at \in {"checked", "write"} /\ job["daemon"].op \in R!AdminOps
    => after[job["daemon"].actor] = 0

PreparedNow == \A p \in R!Sides : job[p].at = "write" =>
    /\ job[p].ver =< ver
    /\ job[p].ver = ver => R!Prepared(job[p].op, job[p].target, job[p].label, job[p].group)

RequestInv == RequestsTyped /\ CountedOnce /\ PastItsCheck /\ PreparedNow /\ R!LabelsApart

LEMMA RequestsAre == /\ First \subseteq Askers /\ "host" \notin Askers
                     /\ Asked \subseteq R!AllOps /\ EditedOps \subseteq R!AllOps
                     /\ R!Idle.at = "idle" /\ R!Sides = {"daemon", "ui"}
BY HostAssumption DEF R!RequestsAssumption, R!Idle, R!Sides

\* What a write leaves of the members, their DNS names and the records.
SameNames(f, g) == g.here = f.here /\ g.dns = f.dns /\ g.record = f.record

LEMMA MemberEdits ==
    ASSUME NEW f \in HostFiles, NEW m \in Askers, NEW label \in Labels
    PROVE  /\ R!Rename(f, m, label) \in HostFiles /\ SameNames(f, R!Rename(f, m, label))
           /\ R!ApproveMember(f, m) \in HostFiles /\ SameNames(f, R!ApproveMember(f, m))
           /\ R!SetCanInvite(f, m) \in HostFiles /\ SameNames(f, R!SetCanInvite(f, m))
           /\ R!SetSubnets(f, m) \in HostFiles /\ SameNames(f, R!SetSubnets(f, m))
           /\ \A given \in BOOLEAN : /\ R!SetAdmin(f, m, given) \in HostFiles
                                     /\ SameNames(f, R!SetAdmin(f, m, given))
<1>1. R!Rename(f, m, label) \in HostFiles /\ SameNames(f, R!Rename(f, m, label))
  <2>1. [f.name EXCEPT ![m] = label] \in Names
    BY DEF HostFiles, Names
  <2> DEFINE n == [f.name EXCEPT ![m] = label]
  <2>2. R!Rename(f, m, label) = [f EXCEPT !.name = n]
    BY DEF R!Rename, HostFiles
  <2> HIDE DEF n
  <2>3. n \in Names
    BY <2>1 DEF n
  <2> QED  BY <2>2, <2>3 DEF HostFiles, SameNames
<1>2. R!ApproveMember(f, m) \in HostFiles /\ SameNames(f, R!ApproveMember(f, m))
  BY DEF R!ApproveMember, HostFiles, SameNames
<1>3. R!SetCanInvite(f, m) \in HostFiles /\ SameNames(f, R!SetCanInvite(f, m))
  BY DEF R!SetCanInvite, HostFiles, SameNames
<1>4. R!SetSubnets(f, m) \in HostFiles /\ SameNames(f, R!SetSubnets(f, m))
  BY DEF R!SetSubnets, HostFiles, SameNames
<1>5. ASSUME NEW given \in BOOLEAN
      PROVE  R!SetAdmin(f, m, given) \in HostFiles /\ SameNames(f, R!SetAdmin(f, m, given))
  BY DEF R!SetAdmin, HostFiles, SameNames
<1> QED  BY <1>1, <1>2, <1>3, <1>4, <1>5

LEMMA WholeEdits ==
    ASSUME NEW f \in HostFiles, NEW set \in R!Settings, NEW g \in SUBSET Groups,
           NEW rules \in SUBSET Groups
    PROVE  /\ R!WriteSettings(f, set) \in HostFiles /\ SameNames(f, R!WriteSettings(f, set))
           /\ R!WritePolicy(f, g, rules) \in HostFiles /\ SameNames(f, R!WritePolicy(f, g, rules))
BY DEF R!WriteSettings, R!WritePolicy, HostFiles, SameNames

LEMMA RecordEdits ==
    ASSUME NEW f \in HostFiles, NEW label \in Labels
    PROVE  /\ R!AddRecord(f, label) \in HostFiles /\ R!RemoveRecord(f, label) \in HostFiles
           /\ R!AddRecord(f, label).here = f.here /\ R!RemoveRecord(f, label).here = f.here
           /\ R!AddRecord(f, label).dns = f.dns /\ R!RemoveRecord(f, label).dns = f.dns
           /\ R!AddRecord(f, label).record = f.record \cup {label}
           /\ R!RemoveRecord(f, label).record = f.record \ {label}
BY DEF R!AddRecord, R!RemoveRecord, HostFiles

\* One field of a document changed.
LEMMA OneField ==
    ASSUME NEW f \in HostFiles, NEW a \in SUBSET Askers, NEW n \in Names
    PROVE  /\ [f EXCEPT !.here = a] \in HostFiles /\ [f EXCEPT !.waiting = a] \in HostFiles
           /\ [f EXCEPT !.admin = a] \in HostFiles /\ [f EXCEPT !.invite = a] \in HostFiles
           /\ [f EXCEPT !.subnet = a] \in HostFiles
           /\ [f EXCEPT !.name = n] \in HostFiles /\ [f EXCEPT !.dns = n] \in HostFiles
BY DEF HostFiles

LEMMA NameEdits ==
    ASSUME NEW f \in HostFiles, NEW m \in Askers, NEW label \in Labels, NEW approval \in BOOLEAN
    PROVE  /\ R!SetDnsName(f, m, label) \in HostFiles
           /\ R!AddInvited(f, m, label, approval) \in HostFiles
           /\ R!RemoveMember(f, m) \in HostFiles
           /\ R!SetDnsName(f, m, label).here = f.here
           /\ R!AddInvited(f, m, label, approval).here = f.here \cup {m}
           /\ R!RemoveMember(f, m).here = f.here \ {m}
           /\ R!SetDnsName(f, m, label).dns = [f.dns EXCEPT ![m] = label]
           /\ R!AddInvited(f, m, label, approval).dns = [f.dns EXCEPT ![m] = label]
           /\ R!RemoveMember(f, m).dns = [f.dns EXCEPT ![m] = NoLabel]
           /\ R!SetDnsName(f, m, label).record = f.record
           /\ R!AddInvited(f, m, label, approval).record = f.record
           /\ R!RemoveMember(f, m).record = f.record
<1> DEFINE d == [f.dns EXCEPT ![m] = label]
           e == [f.dns EXCEPT ![m] = NoLabel]
           n == [f.name EXCEPT ![m] = NoLabel]
<1>1. d \in Names /\ e \in Names /\ n \in Names
  BY DEF HostFiles, Names
<1>2. R!SetDnsName(f, m, label) = [f EXCEPT !.dns = d]
  BY DEF R!SetDnsName, HostFiles
<1> DEFINE w == IF approval THEN f.waiting \cup {m} ELSE f.waiting
           here == f.here \ {m}
           waiting == f.waiting \ {m}
           admin == f.admin \ {m}
           invite == f.invite \ {m}
           subnet == f.subnet \ {m}
           more == f.here \cup {m}
<1>3. R!AddInvited(f, m, label, approval)
        = [f EXCEPT !.here = more, !.dns = d, !.waiting = w]
  BY DEF R!AddInvited, HostFiles
<1>4. R!RemoveMember(f, m)
        = [f EXCEPT !.here = here, !.waiting = waiting, !.admin = admin,
                    !.invite = invite, !.subnet = subnet, !.name = n, !.dns = e]
  BY DEF R!RemoveMember, HostFiles
<1>a. /\ f.here \in SUBSET Askers /\ f.waiting \in SUBSET Askers /\ f.admin \in SUBSET Askers
      /\ f.invite \in SUBSET Askers /\ f.name \in Names /\ f.record \in SUBSET Labels
      /\ f.subnet \in SUBSET Askers /\ f.set \in R!Settings
      /\ f.groups \in SUBSET Groups /\ f.rules \in SUBSET Groups
  BY DEF HostFiles
<1>b. /\ more \in SUBSET Askers /\ w \in SUBSET Askers /\ here \in SUBSET Askers
      /\ waiting \in SUBSET Askers /\ admin \in SUBSET Askers
      /\ invite \in SUBSET Askers /\ subnet \in SUBSET Askers
  BY <1>a
<1> HIDE DEF d, e, n, w, here, waiting, admin, invite, subnet, more
<1>5. /\ R!SetDnsName(f, m, label) \in HostFiles /\ R!SetDnsName(f, m, label).here = f.here
      /\ R!SetDnsName(f, m, label).dns = d /\ R!SetDnsName(f, m, label).record = f.record
  BY <1>1, <1>2 DEF HostFiles
<1>6. /\ R!AddInvited(f, m, label, approval) \in HostFiles
      /\ R!AddInvited(f, m, label, approval).here = more
      /\ R!AddInvited(f, m, label, approval).dns = d
      /\ R!AddInvited(f, m, label, approval).record = f.record
  <2> DEFINE f1 == [f EXCEPT !.here = more]
             f2 == [f1 EXCEPT !.dns = d]
             f3 == [f2 EXCEPT !.waiting = w]
  <2>1. R!AddInvited(f, m, label, approval) = f3
    BY <1>3, Zenon
  <2>2. f1 \in HostFiles
    BY <1>1, <1>b, OneField
  <2>3. f2 \in HostFiles
    <3> HIDE DEF f1
    <3> QED  BY <1>1, <1>b, <2>2, OneField
  <2>4. f3 \in HostFiles
    <3> HIDE DEF f2
    <3> QED  BY <1>1, <1>b, <2>3, OneField
  <2>5. /\ R!AddInvited(f, m, label, approval).here = more
        /\ R!AddInvited(f, m, label, approval).dns = d
        /\ R!AddInvited(f, m, label, approval).record = f.record
    BY <1>3 DEF HostFiles
  <2> QED  BY <2>1, <2>4, <2>5, Zenon
<1>7. /\ R!RemoveMember(f, m) \in HostFiles /\ R!RemoveMember(f, m).here = here
      /\ R!RemoveMember(f, m).dns = e /\ R!RemoveMember(f, m).record = f.record
  <2> DEFINE f1 == [f EXCEPT !.here = here]
             f2 == [f1 EXCEPT !.waiting = waiting]
             f3 == [f2 EXCEPT !.admin = admin]
             f4 == [f3 EXCEPT !.invite = invite]
             f5 == [f4 EXCEPT !.subnet = subnet]
             f6 == [f5 EXCEPT !.name = n]
             f7 == [f6 EXCEPT !.dns = e]
  <2>1. R!RemoveMember(f, m) = f7
    BY <1>4, Zenon
  <2>2. f1 \in HostFiles
    BY <1>1, <1>b, OneField
  <2>3. f2 \in HostFiles
    <3> HIDE DEF f1
    <3> QED  BY <1>1, <1>b, <2>2, OneField
  <2>4. f3 \in HostFiles
    <3> HIDE DEF f2
    <3> QED  BY <1>1, <1>b, <2>3, OneField
  <2>5. f4 \in HostFiles
    <3> HIDE DEF f3
    <3> QED  BY <1>1, <1>b, <2>4, OneField
  <2>6. f5 \in HostFiles
    <3> HIDE DEF f4
    <3> QED  BY <1>1, <1>b, <2>5, OneField
  <2>7. f6 \in HostFiles
    <3> HIDE DEF f5
    <3> QED  BY <1>1, <1>b, <2>6, OneField
  <2>8. f7 \in HostFiles
    <3> HIDE DEF f6
    <3> QED  BY <1>1, <1>b, <2>7, OneField
  <2>9. /\ R!RemoveMember(f, m).here = here /\ R!RemoveMember(f, m).dns = e
        /\ R!RemoveMember(f, m).record = f.record
    BY <1>4 DEF HostFiles
  <2> QED  BY <2>1, <2>8, <2>9, Zenon
<1> QED  BY <1>5, <1>6, <1>7 DEF d, e, here, more

\* A plan of which only what the edit reads is known.
PlanLike(j) ==
    /\ j.op \in R!AllOps /\ j.target \in Askers /\ j.label \in Labels /\ j.group \in Groups
    /\ j.set \in R!Settings /\ j.groups \in SUBSET Groups /\ j.rules \in SUBSET Groups

NamingOps == {"dns_name", "set_dns", "remove", "invite", "record_add", "record_remove"}

LEMMA OtherOps ==
    ASSUME NEW j, PlanLike(j), j.op \notin NamingOps, NEW f \in HostFiles
    PROVE  R!Written(f, j) \in HostFiles /\ SameNames(f, R!Written(f, j))
<1> DEFINE Good(g) == g \in HostFiles /\ SameNames(f, g)
<1>1. /\ Good(R!Rename(f, j.target, j.label)) /\ Good(R!ApproveMember(f, j.target))
      /\ Good(R!SetCanInvite(f, j.target)) /\ Good(R!SetSubnets(f, j.target))
  BY MemberEdits DEF PlanLike
<1>2. \A given \in BOOLEAN : Good(R!SetAdmin(f, j.target, given))
  BY MemberEdits DEF PlanLike
<1>3. \A set \in R!Settings : Good(R!WriteSettings(f, set))
  <2>1. \A set \in R!Settings : \A g \in SUBSET Groups : Good(R!WriteSettings(f, set))
    BY WholeEdits
  <2> QED  BY <2>1 DEF PlanLike
<1>4. \A g, rules \in SUBSET Groups : Good(R!WritePolicy(f, g, rules))
  BY WholeEdits DEF PlanLike
<1>5. /\ [j.set EXCEPT !.approval = ~@] \in R!Settings
      /\ [j.set EXCEPT !.invites = ~@] \in R!Settings
  BY DEF PlanLike, R!Settings
<1>6. /\ j.groups \cup {j.group} \in SUBSET Groups /\ j.rules \cup {j.group} \in SUBSET Groups
      /\ j.groups \ {j.group} \in SUBSET Groups /\ j.rules \ {j.group} \in SUBSET Groups
  BY DEF PlanLike
<1> DEFINE set1 == [j.set EXCEPT !.approval = ~@]
           set2 == [j.set EXCEPT !.invites = ~@]
           g1 == j.groups \cup {j.group}
           g2 == j.groups \ {j.group}
           r1 == j.rules \cup {j.group}
           r2 == j.rules \ {j.group}
<1>7. CASE j.op \in {"display_name", "rename"}
  <2>1. R!Written(f, j) = R!Rename(f, j.target, j.label)
    BY <1>7 DEF R!Written
  <2> QED  BY <1>1, <2>1
<1>8. CASE j.op = "approve"
  <2>1. R!Written(f, j) = R!ApproveMember(f, j.target)
    BY <1>8 DEF R!Written
  <2> QED  BY <1>1, <2>1
<1>9. CASE j.op = "can_invite"
  <2>1. R!Written(f, j) = R!SetCanInvite(f, j.target)
    BY <1>9 DEF R!Written
  <2> QED  BY <1>1, <2>1
<1>10. CASE j.op \in {"grant", "revoke"}
  <2> DEFINE given == j.op = "grant"
  <2>1. R!Written(f, j) = R!SetAdmin(f, j.target, given)
    BY <1>10 DEF R!Written
  <2>2. given \in BOOLEAN
    OBVIOUS
  <2> HIDE DEF given, Good
  <2> QED  BY <1>2, <2>1, <2>2 DEF Good
<1>11. CASE j.op = "subnets"
  <2>1. R!Written(f, j) = R!SetSubnets(f, j.target)
    BY <1>11 DEF R!Written
  <2> QED  BY <1>1, <2>1
<1>12. CASE j.op = "set_approval"
  <2>1. R!Written(f, j) = R!WriteSettings(f, set1)
    BY <1>12 DEF R!Written
  <2> HIDE DEF set1, Good
  <2> QED  BY <1>3, <1>5, <2>1 DEF Good, set1
<1>13. CASE j.op = "set_invites"
  <2>1. R!Written(f, j) = R!WriteSettings(f, set2)
    BY <1>13 DEF R!Written
  <2> HIDE DEF set2, Good
  <2> QED  BY <1>3, <1>5, <2>1 DEF Good, set2
<1>14. CASE j.op = "group_create"
  <2>1. R!Written(f, j) = R!WritePolicy(f, g1, r1)
    BY <1>14 DEF R!Written
  <2> QED  BY <1>4, <1>6, <2>1
<1>15. CASE j.op = "group_delete"
  <2>1. R!Written(f, j) = R!WritePolicy(f, g2, r2)
    BY <1>15 DEF R!Written
  <2> QED  BY <1>4, <1>6, <2>1
<1> HIDE DEF Good
<1>16. j.op \in {"display_name", "rename", "approve", "can_invite", "grant", "revoke",
                 "subnets", "set_approval", "set_invites", "group_create", "group_delete"}
  BY DEF PlanLike, NamingOps, R!AllOps, R!OwnOps, R!AdminOps, R!TargetOps, R!SettingOps,
         R!RecordOps, R!GroupOps
<1> QED  BY <1>7, <1>8, <1>9, <1>10, <1>11, <1>12, <1>13, <1>14, <1>15, <1>16

LEMMA NamingWritten ==
    ASSUME NEW j, NEW f
    PROVE  /\ j.op \in {"dns_name", "set_dns"} =>
                R!Written(f, j) = R!SetDnsName(f, j.target, j.label)
           /\ j.op = "remove" => R!Written(f, j) = R!RemoveMember(f, j.target)
           /\ j.op = "invite" =>
                R!Written(f, j) = R!AddInvited(f, j.target, j.label, j.set.approval)
           /\ j.op = "record_add" => R!Written(f, j) = R!AddRecord(f, j.label)
           /\ j.op = "record_remove" => R!Written(f, j) = R!RemoveRecord(f, j.label)
<1>1. ASSUME j.op \in {"dns_name", "set_dns"}
      PROVE  R!Written(f, j) = R!SetDnsName(f, j.target, j.label)
  BY <1>1 DEF R!Written
<1>2. ASSUME j.op = "remove" PROVE R!Written(f, j) = R!RemoveMember(f, j.target)
  BY <1>2 DEF R!Written
<1>3. ASSUME j.op = "invite"
      PROVE  R!Written(f, j) = R!AddInvited(f, j.target, j.label, j.set.approval)
  BY <1>3 DEF R!Written
<1>4. ASSUME j.op = "record_add" PROVE R!Written(f, j) = R!AddRecord(f, j.label)
  BY <1>4 DEF R!Written
<1>5. ASSUME j.op = "record_remove" PROVE R!Written(f, j) = R!RemoveRecord(f, j.label)
  BY <1>5 DEF R!Written
<1> QED  BY <1>1, <1>2, <1>3, <1>4, <1>5

LEMMA WrittenTyped ==
    ASSUME NEW j, PlanLike(j), NEW f \in HostFiles
    PROVE  R!Written(f, j) \in HostFiles
<1>1. j.set.approval \in BOOLEAN
  BY DEF PlanLike, R!Settings
<1>2. /\ R!SetDnsName(f, j.target, j.label) \in HostFiles
      /\ R!AddInvited(f, j.target, j.label, j.set.approval) \in HostFiles
      /\ R!RemoveMember(f, j.target) \in HostFiles
      /\ R!AddRecord(f, j.label) \in HostFiles /\ R!RemoveRecord(f, j.label) \in HostFiles
  BY <1>1, NameEdits, RecordEdits DEF PlanLike
<1> QED  BY <1>2, NamingWritten, OtherOps DEF NamingOps

\* What LabelsApart says of a file.
ApartIn(f) == \A m \in f.here : f.dns[m] # NoLabel =>
                  /\ f.dns[m] \notin f.record
                  /\ \A n \in f.here \ {m} : f.dns[n] # f.dns[m]

LEMMA FreeIsNoName ==
    ASSUME NEW label, NEW except, R!LabelFree(label, except)
    PROVE  /\ label \notin reqFile.record
           /\ \A n \in reqFile.here \ except :
                reqFile.dns[n] # NoLabel => reqFile.dns[n] # label
BY DEF R!LabelFree, R!taken_dns_labels, R!peer_dns_label

\* An edit that is written against the file it was prepared from keeps the
\* names apart.
LEMMA StaysApart ==
    ASSUME NEW j, PlanLike(j), reqFile \in HostFiles, ApartIn(reqFile),
           R!Prepared(j.op, j.target, j.label, j.group)
    PROVE  ApartIn(R!Written(reqFile, j))
<1> DEFINE t == j.target
           g == R!Written(reqFile, j)
<1>0. /\ t \in Askers /\ j.label \in Labels /\ j.set.approval \in BOOLEAN
      /\ reqFile.dns \in [Askers -> Labels \cup {NoLabel}] /\ reqFile.here \subseteq Askers
  BY DEF PlanLike, R!Settings, HostFiles, Names
<1> DEFINE l == j.label
           a == j.set.approval
<1>7. /\ R!SetDnsName(reqFile, t, l).here = reqFile.here
      /\ R!AddInvited(reqFile, t, l, a).here = reqFile.here \cup {t}
      /\ R!RemoveMember(reqFile, t).here = reqFile.here \ {t}
      /\ R!SetDnsName(reqFile, t, l).dns = [reqFile.dns EXCEPT ![t] = l]
      /\ R!AddInvited(reqFile, t, l, a).dns = [reqFile.dns EXCEPT ![t] = l]
      /\ R!RemoveMember(reqFile, t).dns = [reqFile.dns EXCEPT ![t] = NoLabel]
      /\ R!SetDnsName(reqFile, t, l).record = reqFile.record
      /\ R!AddInvited(reqFile, t, l, a).record = reqFile.record
      /\ R!RemoveMember(reqFile, t).record = reqFile.record
  <2> HIDE DEF t, l, a
  <2>1. t \in Askers /\ l \in Labels /\ a \in BOOLEAN
    BY <1>0 DEF t, l, a
  <2> QED  BY <2>1, NameEdits
<1>1. CASE j.op \in {"dns_name", "set_dns"}
  <2>1. g = R!SetDnsName(reqFile, t, j.label)
    BY <1>1, NamingWritten
  <2>2. /\ g.here = reqFile.here /\ g.dns = [reqFile.dns EXCEPT ![t] = j.label]
        /\ g.record = reqFile.record
    BY <1>7, <2>1
  <2>3. R!LabelFree(j.label, {t})
    BY <1>1 DEF R!Prepared
  <2>4. /\ j.label \notin reqFile.record
        /\ \A n \in reqFile.here \ {t} : reqFile.dns[n] # NoLabel => reqFile.dns[n] # j.label
    BY <2>3, FreeIsNoName
  <2> HIDE DEF g, t
  <2> QED  BY <1>0, <2>2, <2>4 DEF ApartIn, g
<1>2. CASE j.op = "remove"
  <2>1. g = R!RemoveMember(reqFile, t)
    BY <1>2, NamingWritten
  <2>2. /\ g.here = reqFile.here \ {t} /\ g.dns = [reqFile.dns EXCEPT ![t] = NoLabel]
        /\ g.record = reqFile.record
    BY <1>7, <2>1
  <2> HIDE DEF g, t
  <2> QED  BY <1>0, <2>2 DEF ApartIn, g
<1>3. CASE j.op = "invite"
  <2>1. g = R!AddInvited(reqFile, t, j.label, j.set.approval)
    BY <1>3, NamingWritten
  <2>2. /\ g.here = reqFile.here \cup {t} /\ g.dns = [reqFile.dns EXCEPT ![t] = j.label]
        /\ g.record = reqFile.record
    BY <1>7, <2>1
  <2>3. R!LabelFree(j.label, {})
    BY <1>3 DEF R!Prepared
  <2>4. /\ j.label \notin reqFile.record
        /\ \A n \in reqFile.here \ {} : reqFile.dns[n] # NoLabel => reqFile.dns[n] # j.label
    BY <2>3, FreeIsNoName
  <2> HIDE DEF g, t
  <2> QED  BY <1>0, <2>2, <2>4 DEF ApartIn, g
<1>4. CASE j.op = "record_add"
  <2>1. g = R!AddRecord(reqFile, j.label)
    BY <1>4, NamingWritten
  <2>2. /\ g.here = reqFile.here /\ g.dns = reqFile.dns
        /\ g.record = reqFile.record \cup {j.label}
    BY <1>0, <2>1, RecordEdits
  <2>3. R!LabelFree(j.label, {})
    BY <1>4 DEF R!Prepared
  <2>4. \A n \in reqFile.here \ {} : reqFile.dns[n] # NoLabel => reqFile.dns[n] # j.label
    BY <2>3, FreeIsNoName
  <2> HIDE DEF g, t
  <2> QED  BY <1>0, <2>2, <2>4 DEF ApartIn, g
<1>5. CASE j.op = "record_remove"
  <2>1. g = R!RemoveRecord(reqFile, j.label)
    BY <1>5, NamingWritten
  <2>2. /\ g.here = reqFile.here /\ g.dns = reqFile.dns
        /\ g.record = reqFile.record \ {j.label}
    BY <1>0, <2>1, RecordEdits
  <2> HIDE DEF g, t
  <2> QED  BY <1>0, <2>2 DEF ApartIn, g
<1>6. CASE j.op \notin NamingOps
  <2>1. SameNames(reqFile, g)
    BY <1>6, OtherOps
  <2> HIDE DEF g, t
  <2> QED  BY <2>1 DEF SameNames, ApartIn, g
<1> QED  BY <1>1, <1>2, <1>3, <1>4, <1>5, <1>6 DEF NamingOps

LEMMA ApartIs == R!LabelsApart <=> crossed \/ ApartIn(reqFile)
BY DEF R!LabelsApart, ApartIn

LEMMA PlanIsPlan ==
    ASSUME NEW p \in R!Sides, RequestsTyped, job[p].at = "write"
    PROVE  PlanLike(job[p]) /\ job[p].ver \in Nat /\ job[p].actor \in Askers \cup {"host"}
BY RequestsAre DEF RequestsTyped, PlanLike, PlansOf, Checked, R!Idle

LEMMA FileTyped ==
    ASSUME reqFile \in HostFiles
    PROVE  /\ reqFile.set \in R!Settings /\ reqFile.groups \in SUBSET Groups
           /\ reqFile.rules \in SUBSET Groups
BY DEF HostFiles

\* A plan made now.
LEMMA PlanNow ==
    ASSUME reqFile \in HostFiles, ver \in Nat, NEW what \in R!AllOps, NEW actor,
           NEW t \in Askers, NEW label \in Labels, NEW g \in Groups
    PROVE  LET j == R!Plan(what, actor, t, label, g) IN
           /\ j \in PlansOf({actor}) /\ j.at = "write" /\ j.op = what /\ j.actor = actor
           /\ j.target = t /\ j.label = label /\ j.group = g /\ j.ver = ver
BY FileTyped DEF R!Plan, PlansOf

LEMMA RequestReceived ==
    ASSUME RequestInv, NEW m \in Askers, NEW t \in Askers, NEW what \in Asked,
           R!Receive(m, what, t)
    PROVE  RequestInv'
<1> DEFINE r == [at |-> "checked", op |-> what, actor |-> m, target |-> t]
<1>1. /\ job' = [job EXCEPT !["daemon"] = r]
      /\ reqFile' = reqFile /\ ver' = ver /\ crossed' = crossed /\ after' = after
      /\ R!May(m, what, t)
  BY DEF R!Receive
<1>2. what \in R!AllOps
  BY RequestsAre
<1>3. r \in Checked /\ r.at = "checked" /\ r.op = what /\ r.actor = m
  BY <1>2 DEF Checked
<1>4. what \in R!AdminOps => m \in reqFile.admin
  BY <1>1 DEF R!May, R!MayAdminister
<1> HIDE DEF r
<1>5. job'["daemon"] = r /\ job'["ui"] = job["ui"] /\ DOMAIN job' = R!Sides
  BY <1>1, RequestsAre DEF RequestInv, RequestsTyped
<1>6. RequestsTyped'
  BY <1>1, <1>3, <1>5 DEF RequestInv, RequestsTyped
<1>7. CountedOnce'
  BY <1>1 DEF RequestInv, CountedOnce
<1>8. PastItsCheck'
  BY <1>1, <1>3, <1>4, <1>5 DEF RequestInv, CountedOnce, PastItsCheck
<1>9. PreparedNow'
  <2> SUFFICES ASSUME NEW p \in R!Sides, job'[p].at = "write"
               PROVE  /\ job[p].ver =< ver /\ job'[p] = job[p]
                      /\ job[p].ver = ver => R!Prepared(job[p].op, job[p].target,
                                                        job[p].label, job[p].group)
    BY <1>1 DEF PreparedNow, R!Prepared, R!LabelFree, R!NameFree, R!taken_dns_labels,
                R!peer_dns_label
  <2>1. p = "ui"
    BY <1>3, <1>5, RequestsAre
  <2> QED  BY <1>5, <2>1 DEF RequestInv, PreparedNow
<1>10. R!LabelsApart'
  BY <1>1 DEF RequestInv, R!LabelsApart
<1> QED  BY <1>6, <1>7, <1>8, <1>9, <1>10 DEF RequestInv

\* A plan is put at a process while nothing is written.
LEMMA PlanStands ==
    ASSUME RequestInv, NEW q \in R!Sides, NEW r,
           job' = [job EXCEPT ![q] = r], reqFile' = reqFile, ver' = ver,
           r.at = "write" => /\ r.ver = ver
                             /\ R!Prepared(r.op, r.target, r.label, r.group)
    PROVE  PreparedNow'
<1>1. \A p \in R!Sides : job'[p] = IF p = q THEN r ELSE job[p]
  BY DEF RequestInv, RequestsTyped
<1> SUFFICES ASSUME NEW p \in R!Sides, job'[p].at = "write"
             PROVE  /\ job'[p].ver =< ver
                    /\ job'[p].ver = ver => R!Prepared(job'[p].op, job'[p].target,
                                                       job'[p].label, job'[p].group)
  BY DEF PreparedNow, R!Prepared, R!LabelFree, R!NameFree, R!taken_dns_labels,
         R!peer_dns_label
<1>2. CASE p = q
  <2>1. job'[p] = r /\ ver \in Nat
    BY <1>1, <1>2 DEF RequestInv, RequestsTyped
  <2> QED  BY <2>1
<1>3. CASE p # q
  <2>1. job'[p] = job[p]
    BY <1>1, <1>3
  <2> QED  BY <2>1 DEF RequestInv, PreparedNow
<1> QED  BY <1>2, <1>3

LEMMA RequestPrepared ==
    ASSUME RequestInv, NEW label \in Labels, NEW g \in Groups, R!Prepare(label, g)
    PROVE  RequestInv'
<1> DEFINE j == job["daemon"]
           r == R!Plan(j.op, j.actor, j.target, label, g)
           ok == R!Prepared(j.op, j.target, label, g)
<1>1. /\ j.at = "checked"
      /\ job' = [job EXCEPT !["daemon"] = IF ok THEN r ELSE R!Idle]
      /\ reqFile' = reqFile /\ ver' = ver /\ crossed' = crossed /\ after' = after
  BY DEF R!Prepare
<1>2. j \in Checked
  BY <1>1, RequestsAre DEF RequestInv, RequestsTyped, PlansOf
<1>3. j.op \in R!AllOps /\ j.actor \in Askers /\ j.target \in Askers
  BY <1>2 DEF Checked
<1>4. /\ r \in PlansOf({j.actor}) /\ r.at = "write" /\ r.op = j.op /\ r.actor = j.actor
      /\ r.target = j.target /\ r.label = label /\ r.group = g /\ r.ver = ver
  BY <1>3, PlanNow DEF RequestInv, RequestsTyped
<1>5. r \in PlansOf(Askers)
  <2> HIDE DEF r
  <2> QED  BY <1>3, <1>4 DEF PlansOf
<1>6. ok => R!Prepared(r.op, r.target, r.label, r.group)
  <2> HIDE DEF r
  <2> QED  BY <1>4
<1> DEFINE s == IF ok THEN r ELSE R!Idle
<1>7. s \in {R!Idle} \cup PlansOf(Askers)
  BY <1>5
<1>8. s.at = "write" => s.ver = ver /\ R!Prepared(s.op, s.target, s.label, s.group)
  <2> HIDE DEF r, ok
  <2> QED  BY <1>4, <1>6, RequestsAre
<1>9. s.at \in {"checked", "write"} => s.op = j.op /\ s.actor = j.actor
  <2> HIDE DEF r, ok
  <2> QED  BY <1>4, RequestsAre
<1>10. job' = [job EXCEPT !["daemon"] = s]
  BY <1>1
<1> HIDE DEF s, r, ok, j
<1>11. job'["daemon"] = s /\ job'["ui"] = job["ui"] /\ DOMAIN job' = R!Sides
  BY <1>10, RequestsAre DEF RequestInv, RequestsTyped
<1>12. RequestsTyped'
  BY <1>1, <1>7, <1>11 DEF RequestInv, RequestsTyped
<1>13. CountedOnce'
  BY <1>1 DEF RequestInv, CountedOnce
<1>14. PastItsCheck'
  BY <1>1, <1>9, <1>11 DEF RequestInv, PastItsCheck, j
<1>15. PreparedNow'
  BY <1>1, <1>8, <1>10, PlanStands, RequestsAre
<1>16. R!LabelsApart'
  BY <1>1 DEF RequestInv, R!LabelsApart
<1> QED  BY <1>12, <1>13, <1>14, <1>15, <1>16 DEF RequestInv

LEMMA RequestEdited ==
    ASSUME RequestInv, NEW what \in EditedOps, NEW t \in Askers, NEW label \in Labels,
           NEW g \in Groups, R!Edit(what, t, label, g)
    PROVE  RequestInv'
<1> DEFINE r == R!Plan(what, "host", t, label, g)
<1>1. /\ job' = [job EXCEPT !["ui"] = r] /\ R!Prepared(what, t, label, g)
      /\ reqFile' = reqFile /\ ver' = ver /\ crossed' = crossed /\ after' = after
  BY DEF R!Edit
<1>2. what \in R!AllOps
  BY RequestsAre
<1>3. /\ r \in PlansOf({"host"}) /\ r.at = "write" /\ r.op = what /\ r.target = t
      /\ r.label = label /\ r.group = g /\ r.ver = ver
  BY <1>2, PlanNow DEF RequestInv, RequestsTyped
<1> HIDE DEF r
<1>4. job'["ui"] = r /\ job'["daemon"] = job["daemon"] /\ DOMAIN job' = R!Sides
  BY <1>1, RequestsAre DEF RequestInv, RequestsTyped
<1>5. RequestsTyped'
  BY <1>1, <1>3, <1>4 DEF RequestInv, RequestsTyped
<1>6. CountedOnce'
  BY <1>1 DEF RequestInv, CountedOnce
<1>7. PastItsCheck'
  BY <1>1, <1>4 DEF RequestInv, PastItsCheck
<1>8. PreparedNow'
  <2>1. R!Prepared(r.op, r.target, r.label, r.group)
    BY <1>1, <1>3
  <2> QED  BY <1>1, <1>3, <2>1, PlanStands, RequestsAre
<1>9. R!LabelsApart'
  BY <1>1 DEF RequestInv, R!LabelsApart
<1> QED  BY <1>5, <1>6, <1>7, <1>8, <1>9 DEF RequestInv

LEMMA RequestWritten ==
    ASSUME RequestInv, NEW p \in R!Sides, R!Write(p)
    PROVE  RequestInv'
<1> DEFINE j == job[p]
<1>1. j.at = "write" /\ job' = [job EXCEPT ![p] = R!Idle]
  BY DEF R!Write
<1>2. \A q \in R!Sides : job'[q] = IF q = p THEN R!Idle ELSE job[q]
  BY <1>1 DEF RequestInv, RequestsTyped
<1>3. PlanLike(j) /\ j.ver \in Nat /\ j.ver =< ver /\ ver \in Nat
  BY <1>1, PlanIsPlan DEF RequestInv, PreparedNow, RequestsTyped
<1>4. \A q \in R!Sides : job'[q].at \in {"checked", "write"} => q # p /\ job'[q] = job[q]
  BY <1>2, RequestsAre
<1>5. /\ DOMAIN job' = R!Sides /\ job'["ui"] \in {R!Idle} \cup PlansOf({"host"})
      /\ job'["daemon"] \in {R!Idle} \cup Checked \cup PlansOf(Askers)
  BY <1>1, <1>2, RequestsAre DEF RequestInv, RequestsTyped
<1>6. CASE ~ R!Found(j)
  <2>1. UNCHANGED <<reqFile, ver, crossed, after>>
    BY <1>6 DEF R!Write
  <2>2. RequestsTyped'
    BY <1>5, <2>1 DEF RequestInv, RequestsTyped
  <2>3. CountedOnce'
    BY <2>1 DEF RequestInv, CountedOnce
  <2>4. PastItsCheck'
    BY <1>4, <2>1, RequestsAre DEF RequestInv, PastItsCheck
  <2>5. PreparedNow'
    <3>1. R!Idle.at # "write"
      BY RequestsAre
    <3> QED  BY <1>1, <2>1, <3>1, PlanStands
  <2>6. R!LabelsApart'
    BY <2>1 DEF RequestInv, R!LabelsApart
  <2> QED  BY <2>2, <2>3, <2>4, <2>5, <2>6 DEF RequestInv
<1>7. CASE R!Found(j)
  <2>1. /\ reqFile' = R!Written(reqFile, j) /\ ver' = ver + 1
        /\ crossed' = (crossed \/ j.ver # ver)
        /\ after' = [m \in Askers |->
                       IF m \in reqFile'.admin \/ m \notin reqFile'.here THEN 0
                       ELSE IF j.actor = m /\ j.op \in R!AdminOps THEN after[m] + 1
                       ELSE after[m]]
    BY <1>7 DEF R!Write
  <2> HIDE DEF j
  <2>2. reqFile' \in HostFiles
    BY <1>3, <2>1, WrittenTyped DEF RequestInv, RequestsTyped
  <2>3. \A m \in Askers : j.actor = m /\ j.op \in R!AdminOps => after[m] = 0
    <3>1. p = "ui" => j.actor = "host"
      <4>1. job["ui"].at = "write" => job["ui"].actor = "host"
        BY RequestsAre DEF RequestInv, RequestsTyped, PlansOf
      <4> QED  BY <1>1, <4>1 DEF j
    <3>2. p = "daemon" => (j.op \in R!AdminOps => after[j.actor] = 0)
      BY <1>1 DEF RequestInv, PastItsCheck, j
    <3> QED  BY <3>1, <3>2, RequestsAre
  <2>4. \A m \in Askers : after[m] \in Nat /\ after[m] =< 1
    BY DEF RequestInv, RequestsTyped, CountedOnce
  <2>5. \A m \in Askers : /\ after'[m] \in Nat /\ after'[m] =< 1
                          /\ m \in reqFile'.admin => after'[m] = 0
    BY <2>1, <2>3, <2>4
  <2>6. after' \in [Askers -> Nat]
    BY <2>1, <2>5
  <2>7. RequestsTyped'
    <3>1. ver' \in Nat
      BY <1>3, <2>1
    <3>2. crossed' \in BOOLEAN
      BY <2>1 DEF RequestInv, RequestsTyped
    <3> QED  BY <1>5, <2>2, <2>6, <3>1, <3>2 DEF RequestsTyped
  <2>8. CountedOnce'
    BY <2>5 DEF CountedOnce
  <2>9. PastItsCheck'
    <3> SUFFICES ASSUME job'["daemon"].at \in {"checked", "write"},
                        job'["daemon"].op \in R!AdminOps
                 PROVE  after'[job'["daemon"].actor] = 0
      BY DEF PastItsCheck
    <3>1. p = "ui" /\ job'["daemon"] = job["daemon"]
      BY <1>4, RequestsAre
    <3>2. job["daemon"].actor \in Askers
      BY <3>1, RequestsAre DEF RequestInv, RequestsTyped, Checked, PlansOf
    <3>3. after[job["daemon"].actor] = 0
      BY <3>1 DEF RequestInv, PastItsCheck
    <3>4. job["ui"].at = "write" => job["ui"].actor = "host"
      BY RequestsAre DEF RequestInv, RequestsTyped, PlansOf
    <3>5. j.actor = "host"
      BY <1>1, <3>1, <3>4 DEF j
    <3> QED  BY <2>1, <3>1, <3>2, <3>3, <3>5, RequestsAre
  <2>10. PreparedNow'
    <3>1. \A q \in R!Sides : job'[q].at = "write" =>
            job'[q].ver \in Nat /\ job'[q].ver =< ver
      <4> TAKE q \in R!Sides
      <4> HAVE job'[q].at = "write"
      <4>1. job'[q] = job[q]
        BY <1>4
      <4> QED  BY <4>1, PlanIsPlan DEF RequestInv, PreparedNow
    <3>2. \A q \in R!Sides : job'[q].at = "write" =>
            job'[q].ver =< ver' /\ job'[q].ver # ver'
      BY <1>3, <2>1, <3>1
    <3> QED  BY <3>2 DEF PreparedNow
  <2>11. R!LabelsApart'
    <3>1. CASE crossed'
      BY <3>1 DEF R!LabelsApart
    <3>2. CASE ~ crossed'
      <4>1. ~ crossed /\ j.ver = ver
        BY <2>1, <3>2
      <4>2. R!Prepared(j.op, j.target, j.label, j.group)
        BY <1>1, <4>1 DEF RequestInv, PreparedNow, j
      <4>3. ApartIn(reqFile)
        BY <4>1, ApartIs DEF RequestInv
      <4>4. ApartIn(R!Written(reqFile, j))
        BY <1>3, <4>2, <4>3, StaysApart DEF RequestInv, RequestsTyped
      <4>5. ApartIn(reqFile)'
        BY <2>1, <4>4 DEF ApartIn
      <4> QED  BY <4>5 DEF ApartIn, R!LabelsApart
    <3> QED  BY <3>1, <3>2
  <2> QED  BY <2>7, <2>8, <2>9, <2>10, <2>11 DEF RequestInv
<1> QED  BY <1>6, <1>7

LEMMA RequestKeeps == RequestInv /\ R!Next => RequestInv'
BY RequestReceived, RequestPrepared, RequestEdited, RequestWritten DEF R!Next

LEMMA RequestStays == RequestInv /\ UNCHANGED requestsState => RequestInv'
<1> SUFFICES ASSUME RequestInv, UNCHANGED requestsState PROVE RequestInv'
  OBVIOUS
<1>1. /\ reqFile' = reqFile /\ job' = job /\ ver' = ver /\ crossed' = crossed
      /\ after' = after
  BY DEF requestsState
<1>2. RequestsTyped'
  BY <1>1 DEF RequestInv, RequestsTyped
<1>3. CountedOnce'
  BY <1>1 DEF RequestInv, CountedOnce
<1>4. PastItsCheck'
  BY <1>1 DEF RequestInv, PastItsCheck
<1>5. PreparedNow'
  BY <1>1 DEF RequestInv, PreparedNow, R!Prepared, R!LabelFree, R!NameFree,
              R!taken_dns_labels, R!peer_dns_label
<1>6. R!LabelsApart'
  BY <1>1 DEF RequestInv, R!LabelsApart
<1> QED  BY <1>2, <1>3, <1>4, <1>5, <1>6 DEF RequestInv

LEMMA RequestInit == HostInit => RequestInv
<1> SUFFICES ASSUME HostInit PROVE RequestInv
  OBVIOUS
<1>1. R!Init
  BY DEF HostInit
<1> DEFINE none == [m \in Askers |-> NoLabel]
           s == [approval |-> FALSE, invites |-> TRUE]
<1>2. none \in Names /\ s \in R!Settings
  BY DEF Names, R!Settings
<1>3. reqFile = [here |-> First, waiting |-> {}, admin |-> {}, invite |-> {},
                 name |-> none, dns |-> none, record |-> {}, subnet |-> {}, set |-> s,
                 groups |-> {}, rules |-> {}]
  BY <1>1 DEF R!Init
<1>4. \A m \in Askers : none[m] = NoLabel
  OBVIOUS
<1> HIDE DEF none, s
<1>5. reqFile \in HostFiles /\ reqFile.dns = none /\ reqFile.here = First
  BY <1>2, <1>3, RequestsAre DEF HostFiles
<1>6. /\ DOMAIN job = R!Sides /\ job["daemon"] = R!Idle /\ job["ui"] = R!Idle
      /\ ver = 0 /\ crossed = FALSE /\ after = [m \in Askers |-> 0]
  BY <1>1, RequestsAre DEF R!Init
<1>7. RequestsTyped
  BY <1>5, <1>6 DEF RequestsTyped
<1>8. CountedOnce
  BY <1>6 DEF CountedOnce
<1>9. PastItsCheck /\ PreparedNow
  BY <1>6, RequestsAre DEF PastItsCheck, PreparedNow
<1>10. R!LabelsApart
  BY <1>4, <1>5, RequestsAre DEF R!LabelsApart
<1> QED  BY <1>7, <1>8, <1>9, <1>10 DEF RequestInv

\* ControlSound: labels stay apart unless two processes overlap, one late write of a
\* withdrawn administrator, a true registry, and an isolation that comes back
\* (set_peer_dns_name, apply_admin_op, register_connection, host_writer).
THEOREM ControlStaysSound == HostSpec => []ControlSound
<1>1. HostInit => RequestInv /\ SessionInv
  BY RequestInit, SessionInit
<1>2. RequestInv /\ SessionInv /\ [HostNext]_allVars => (RequestInv /\ SessionInv)'
  <2> SUFFICES ASSUME RequestInv, SessionInv, [HostNext]_allVars
               PROVE  (RequestInv /\ SessionInv)'
    OBVIOUS
  <2>1. R!Next \/ UNCHANGED requestsState
    BY DEF HostNext, EditsStep, RequestsStep, SessionStep, TunnelsStep, DirectStep, allVars
  <2>2. S!Next \/ UNCHANGED sessionState
    BY DEF HostNext, EditsStep, RequestsStep, SessionStep, TunnelsStep, DirectStep, allVars
  <2>3. RequestInv'
    BY <2>1, RequestKeeps, RequestStays
  <2>4. SessionInv'
    <3>1. CASE UNCHANGED sessionState
      <4>1. UNCHANGED <<sessFile, needs, tick, dist, sessConn, reg, opened>>
        BY <3>1 DEF sessionState
      <4> QED  BY <4>1 DEF SessionInv, SessionTyped, InRegistry, Awaiting, AcceptedApart,
                           S!WindowCloses
    <3> QED  BY <2>2, <3>1, SessionKeeps
  <2> QED  BY <2>3, <2>4
<1>3. RequestInv /\ SessionInv => ControlSound
  BY DEF RequestInv, CountedOnce, SessionInv, InRegistry, ControlSound, R!OneLateWrite,
         S!RegistryTrue
<1> QED  BY <1>1, <1>2, <1>3, PTL DEF HostSpec

-----------------------------------------------------------------------------
(* The tunnels.  The table is locked from the checks of a start to its     *)
(* insertion, so what was checked still holds when the tunnel is listed.   *)
(* An interface of this process belongs to a live task of that interface's *)
(* name.  An end that nothing disturbed finds no start under way and every *)
(* live task among those it waits for.                                     *)

Jobs == [at : {"idle", "check", "wait", "up", "insert"}, net : Nets \cup {0},
         name : IfNames \cup {0}, made : T!Tunnels \cup {0}, tries : Nat]
Tasks == [net : Nets \cup {0}, name : IfNames \cup {0},
          at : {"none", "run", "down", "tear", "end"}, stop : {"no", "asked", "awaited"}]
AliveAt == {"run", "down", "tear"}
GoodJobs == {j \in Jobs : /\ j.at # "idle" => j.net \in Nets
                          /\ j.at \in {"up", "insert"} => j.name \in IfNames
                          /\ j.at = "insert" => j.made \in T!Tunnels}
GoodTasks == {t \in Tasks : t.at \in AliveAt => t.name \in IfNames}

\* Networks whose subnets overlap.
Meets(n, m) == {n, m} \in {{1, 3}}

TunTyped ==
    /\ serving \in {"serve", "closing", "drained", "ended"}
    /\ table \in [Nets -> T!Tunnels \cup {0}]
    /\ startJob \in [T!Starters -> GoodJobs]
    /\ tun \in [T!Tunnels -> GoodTasks]
    /\ nextTunnel \in Nat \ {0} /\ kernel \in [IfNames -> 0 .. T!Left]
    /\ book \subseteq Nets /\ raced \in BOOLEAN /\ rough \in BOOLEAN

\* A start past its checks holds the table, and the checks still hold.
Starting == \A p \in T!Starters : startJob[p].at \in {"up", "insert"} =>
    /\ tableLock = p /\ table[startJob[p].net] = 0
    /\ \A m \in Nets : table[m] # 0 => /\ ~Meets(startJob[p].net, m)
                                       /\ tun[table[m]].name # startJob[p].name
    /\ startJob[p].at = "insert" => /\ startJob[p].made < nextTunnel
                                    /\ tun[startJob[p].made].name = startJob[p].name

\* Tunnels are numbered in the order they are made, and one that is listed was made.
Numbered == /\ \A i \in T!Tunnels : i >= nextTunnel => tun[i].at = "none"
            /\ \A n \in Nets : table[n] < nextTunnel

Apart == \A n, m \in Nets : n # m /\ table[n] # 0 /\ table[m] # 0 =>
             /\ ~Meets(n, m) /\ tun[table[n]].name # tun[table[m]].name

Owned == \A x \in IfNames : kernel[x] \in T!Tunnels =>
             tun[kernel[x]].at \in AliveAt /\ tun[kernel[x]].name = x

\* As long as no tunnel came up beside one of its interface.
Alone == ~raced =>
    /\ \A i, j \in T!Tunnels : tun[i].at \in AliveAt /\ tun[j].at \in AliveAt /\ i # j
                               => tun[i].name # tun[j].name
    /\ \A i \in T!Tunnels : tun[i].at = "run" => kernel[tun[i].name] = i

\* As long as no end came beside a start or a stop.
Calm == ~rough =>
    /\ \A x \in IfNames : kernel[x] # T!Left
    /\ serving # "serve" => \A p \in T!Starters : startJob[p].at = "idle"
    /\ serving = "closing" => \A i \in T!Tunnels : tun[i].at \in AliveAt =>
                                  \E n \in Nets : table[n] = i
    /\ serving = "drained" => \A i \in T!Tunnels : tun[i].at \in AliveAt =>
                                  tun[i].stop = "awaited"
    /\ serving = "ended" => /\ \A i \in T!Tunnels : tun[i].at \notin AliveAt
                            /\ \A x \in IfNames : kernel[x] = 0

TunnelInv == TunTyped /\ Starting /\ Numbered /\ Apart /\ Owned /\ Alone /\ Calm

LEMMA TunnelsAre ==
    /\ MaxTunnels \in Nat /\ T!None = 0 /\ T!Tunnels = 1 .. MaxTunnels
    /\ T!Left = MaxTunnels + 1 /\ T!Left \notin T!Tunnels /\ 0 \notin T!Tunnels
    /\ T!Starters = {"ui", "auto"} /\ "free" \notin T!Starters
    /\ IfNames \subseteq Nat /\ 0 \notin IfNames /\ FixedName \in IfNames
BY HostAssumption DEF T!LifecycleAssumption, T!None, T!Tunnels, T!Left, T!Starters

LEMMA RecordsAre ==
    /\ T!NoJob \in GoodJobs /\ T!NoJob.at = "idle"
    /\ T!Finished \in GoodTasks /\ T!Finished.at = "end"
    /\ T!NoTunnel \in GoodTasks /\ T!NoTunnel.at = "none"
BY TunnelsAre DEF GoodJobs, Jobs, GoodTasks, Tasks, AliveAt, T!NoJob, T!Finished, T!NoTunnel

LEMMA AliveIs == ASSUME TunTyped, NEW i \in T!Tunnels
                 PROVE  i \in T!Alive <=> tun[i].at \in AliveAt
<1>1. tun[i].at \in {"none", "run", "down", "tear", "end"}
  BY DEF TunTyped, GoodTasks, Tasks
<1> QED  BY <1>1 DEF T!Alive, AliveAt

LEMMA ListedIs == ASSUME NEW n \in Nets PROVE n \in T!Listed <=> table[n] # 0
BY TunnelsAre DEF T!Listed

LEMMA MinOf == ASSUME NEW Set \in SUBSET Nat, Set # {} PROVE T!Min(Set) \in Set
<1>1. PICK x \in Set : \A y \in Set : <<y, x>> \notin OpToRel(<, Nat)
  BY WFMin, NatLessThanWellFounded, Zenon
<1>2. \A y \in Set : y < x => <<y, x>> \in OpToRel(<, Nat)
  <2>1. \A y \in Set : y \in Nat /\ x \in Nat
    OBVIOUS
  <2> QED  BY <2>1, Zenon DEF OpToRel
<1>3. \A y \in Set : ~(y < x)
  BY <1>1, <1>2
<1>4. \A y \in Set : y \in Nat /\ x \in Nat
  OBVIOUS
<1>5. \A y \in Set : x =< y
  BY <1>3, <1>4
<1> QED  BY <1>5 DEF T!Min

\* plan_interface: the name is free, and no listed network overlaps.
LEMMA PlannedIs ==
    ASSUME NEW n \in Nets, T!Planned(n)
    PROVE  /\ T!NameFor(n) \in IfNames /\ table[n] = 0
           /\ \A m \in Nets : table[m] # 0 => /\ ~Meets(n, m)
                                              /\ tun[table[m]].name # T!NameFor(n)
<1>1. T!NameFor(n) \in IfNames /\ T!NameFor(n) \notin T!Used
  <2>1. CASE n \in Fixed
    BY <2>1, TunnelsAre DEF T!NameFor, T!Planned
  <2>2. CASE n \notin Fixed
    <3> DEFINE Unused == IfNames \ T!Used
    <3>1. Unused \in SUBSET Nat /\ Unused # {}
      BY TunnelsAre DEF T!Planned
    <3>2. T!NameFor(n) = T!Min(Unused)
      BY <2>2 DEF T!NameFor
    <3> HIDE DEF Unused
    <3>3. T!NameFor(n) \in Unused
      BY <3>1, <3>2, MinOf
    <3> QED  BY <3>3 DEF Unused
  <2> QED  BY <2>1, <2>2
<1>2. \A m \in Nets : table[m] # 0 => tun[table[m]].name \in T!Used
  BY ListedIs DEF T!Used
<1>3. \A m \in Nets : table[m] # 0 => ~Meets(n, m)
  BY ListedIs DEF T!Planned, T!Overlaps, Meets
<1>4. table[n] = 0
  BY TunnelsAre DEF T!Planned
<1> QED  BY <1>1, <1>2, <1>3, <1>4

\* A step of a starter that leaves the table and the tunnels alone and does not
\* pass the checks.
LEMMA StarterMoves ==
    ASSUME TunnelInv, NEW p \in T!Starters, NEW r \in GoodJobs,
           startJob' = [startJob EXCEPT ![p] = r], r.at \notin {"up", "insert"},
           serving = "serve" \/ startJob[p].at # "idle",
           UNCHANGED <<serving, table, tableLock, tun, nextTunnel, kernel, book, raced, rough>>
    PROVE  TunnelInv'
<1>1. /\ startJob' \in [T!Starters -> GoodJobs]
      /\ \A q \in T!Starters : startJob'[q] = IF q = p THEN r ELSE startJob[q]
  BY DEF TunnelInv, TunTyped
<1>2. TunTyped'
  BY <1>1 DEF TunnelInv, TunTyped
<1>3. Starting'
  BY <1>1 DEF TunnelInv, Starting
<1>4. Numbered' /\ Apart' /\ Owned' /\ Alone'
  BY DEF TunnelInv, Numbered, Apart, Owned, Alone
<1>5. Calm'
  BY <1>1 DEF TunnelInv, Calm
<1> QED  BY <1>2, <1>3, <1>4, <1>5 DEF TunnelInv

\* One field of a starter's record changed.
LEMMA JobField ==
    ASSUME NEW j \in Jobs,
           NEW at \in {"idle", "check", "wait", "up", "insert"}, NEW x \in IfNames \cup {0},
           NEW i \in T!Tunnels \cup {0}, NEW t \in Nat, NEW n \in Nets \cup {0}
    PROVE  /\ [j EXCEPT !.at = at] \in Jobs /\ [j EXCEPT !.name = x] \in Jobs
           /\ [j EXCEPT !.made = i] \in Jobs /\ [j EXCEPT !.tries = t] \in Jobs
           /\ [j EXCEPT !.net = n] \in Jobs
BY DEF Jobs

LEMMA FailedIs ==
    ASSUME TunTyped, NEW p \in T!Starters, startJob[p].at # "idle", T!Failed(p)
    PROVE  \E r \in GoodJobs : /\ startJob' = [startJob EXCEPT ![p] = r]
                               /\ r.at \notin {"up", "insert"}
<1> DEFINE j == startJob[p]
           k == j.tries + 1
           s == [j EXCEPT !.at = "check", !.name = T!None, !.tries = k]
           r == IF p = "auto" /\ k < T!Attempts THEN s ELSE T!NoJob
<1>1. j \in GoodJobs
  BY DEF TunTyped
<1>2. j \in Jobs /\ j.net \in Nets /\ k \in Nat /\ 0 \in T!Tunnels \cup {0}
  BY <1>1 DEF GoodJobs, Jobs
<1>3. s \in Jobs
  <2> DEFINE a == [j EXCEPT !.at = "check"]
             b == [a EXCEPT !.name = 0]
             c == [b EXCEPT !.tries = k]
  <2> HIDE DEF j, k
  <2>1. s = c
    BY TunnelsAre, Zenon
  <2>2. a \in Jobs
    BY <1>2, JobField
  <2>3. b \in Jobs
    <3> HIDE DEF a
    <3> QED  BY <1>2, <2>2, JobField
  <2>4. c \in Jobs
    <3> HIDE DEF b
    <3> QED  BY <1>2, <2>3, JobField
  <2> QED  BY <2>1, <2>4, Zenon
<1>4. s.at = "check" /\ s.net = j.net
  <2> HIDE DEF j, k
  <2> QED  BY <1>2 DEF Jobs
<1>5. startJob' = [startJob EXCEPT ![p] = r]
  BY Zenon DEF T!Failed
<1>6. r \in GoodJobs /\ r.at \notin {"up", "insert"}
  <2> HIDE DEF s
  <2> QED  BY <1>2, <1>3, <1>4, RecordsAre DEF GoodJobs
<1> QED  BY <1>5, <1>6

LEMMA AskKeeps == ASSUME TunnelInv, NEW n \in Nets, T!Ask(n) PROVE TunnelInv'
<1> DEFINE r == [T!NoJob EXCEPT !.at = "wait", !.net = n]
           a == [T!NoJob EXCEPT !.at = "wait"]
           b == [a EXCEPT !.net = n]
<1>1. r = b
  BY Zenon
<1>2. T!NoJob \in Jobs
  BY RecordsAre DEF GoodJobs
<1>3. a \in Jobs
  BY <1>2, JobField
<1>4. b \in Jobs
  <2> HIDE DEF a
  <2> QED  BY <1>3, JobField
<1>5. r.at = "wait" /\ r.net = n
  BY <1>2 DEF Jobs
<1>6. r \in GoodJobs
  <2> HIDE DEF r, b
  <2> QED  BY <1>1, <1>4, <1>5 DEF GoodJobs
<1>7. startJob' = [startJob EXCEPT !["ui"] = r]
  BY DEF T!Ask
<1> HIDE DEF r
<1> QED  BY <1>5, <1>6, <1>7, StarterMoves, TunnelsAre DEF T!Ask

LEMMA CheckKeeps == ASSUME TunnelInv, T!Check PROVE TunnelInv'
<1> DEFINE j == startJob["auto"]
           s == [j EXCEPT !.at = "wait"]
           done == table[j.net] # T!None
           r == IF done THEN T!NoJob ELSE s
<1>1. j \in GoodJobs /\ j.at = "check"
  BY TunnelsAre DEF T!Check, TunnelInv, TunTyped
<1>2. s \in GoodJobs /\ s.at = "wait"
  BY <1>1 DEF GoodJobs, Jobs
<1>3. startJob' = [startJob EXCEPT !["auto"] = r]
  BY TunnelsAre DEF T!Check, T!At, TunnelInv, TunTyped
<1>4. r \in GoodJobs /\ r.at \notin {"up", "insert"}
  BY <1>2, RecordsAre
<1> HIDE DEF r
<1> QED  BY <1>1, <1>3, <1>4, StarterMoves, TunnelsAre DEF T!Check

\* No start is past its checks while nobody holds the table.
LEMMA NobodyStarts ==
    ASSUME TunnelInv, tableLock = "free", NEW p \in T!Starters
    PROVE  startJob[p].at \notin {"up", "insert"}
BY TunnelsAre DEF TunnelInv, Starting

LEMMA EnterKeeps == ASSUME TunnelInv, NEW p \in T!Starters, T!Enter(p) PROVE TunnelInv'
<1> DEFINE j == startJob[p]
<1>1. j \in GoodJobs /\ j.at = "wait" /\ j.net \in Nets /\ tableLock = "free"
  BY DEF T!Enter, TunnelInv, TunTyped, GoodJobs
<1>2. UNCHANGED <<serving, table, tun, nextTunnel, kernel, book, raced, rough>>
  BY DEF T!Enter
<1>3. CASE ~ T!Planned(j.net)
  <2>1. T!Failed(p) /\ UNCHANGED tableLock
    BY <1>3 DEF T!Enter
  <2>2. PICK r \in GoodJobs : /\ startJob' = [startJob EXCEPT ![p] = r]
                              /\ r.at \notin {"up", "insert"}
    BY <1>1, <2>1, FailedIs DEF TunnelInv
  <2> QED  BY <1>1, <1>2, <2>1, <2>2, StarterMoves
<1>4. CASE T!Planned(j.net)
  <2> DEFINE x == T!NameFor(j.net)
             a == [j EXCEPT !.at = "up"]
             r == [j EXCEPT !.at = "up", !.name = x]
  <2>1. /\ x \in IfNames /\ table[j.net] = 0
        /\ \A m \in Nets : table[m] # 0 => /\ ~Meets(j.net, m)
                                           /\ tun[table[m]].name # x
    BY <1>1, <1>4, PlannedIs
  <2>2. tableLock' = p /\ startJob' = [startJob EXCEPT ![p].at = "up", ![p].name = x]
    BY <1>4 DEF T!Enter
  <2> HIDE DEF x
  <2>3. startJob' = [startJob EXCEPT ![p] = r]
    BY <2>2 DEF TunnelInv, TunTyped
  <2>4. r \in GoodJobs /\ r.at = "up" /\ r.net = j.net /\ r.name = x
    <3> HIDE DEF j
    <3>1. j \in Jobs
      BY <1>1 DEF GoodJobs
    <3>2. r = [a EXCEPT !.name = x]
      BY Zenon
    <3>3. a \in Jobs
      BY <3>1, JobField
    <3>4. r \in Jobs
      <4> HIDE DEF a
      <4>1. x \in IfNames \cup {0}
        BY <2>1
      <4>2. [a EXCEPT !.name = x] \in Jobs
        BY <3>3, <4>1, JobField
      <4> QED  BY <3>2, <4>2, Zenon
    <3>5. r.at = "up" /\ r.net = j.net /\ r.name = x
      BY <3>1 DEF Jobs
    <3> HIDE DEF r
    <3> QED  BY <1>1, <2>1, <3>4, <3>5 DEF GoodJobs
  <2> HIDE DEF r
  <2>5. /\ startJob' \in [T!Starters -> GoodJobs]
        /\ \A q \in T!Starters : startJob'[q] = IF q = p THEN r ELSE startJob[q]
    BY <2>3, <2>4 DEF TunnelInv, TunTyped
  <2>6. TunTyped'
    BY <1>2, <2>5 DEF TunnelInv, TunTyped
  <2>7. Starting'
    <3>1. \A q \in T!Starters : startJob'[q].at \in {"up", "insert"} => q = p
      BY <1>1, <2>5, NobodyStarts
    <3>2. startJob'[p] = r
      BY <2>5
    <3> QED  BY <1>2, <2>1, <2>2, <2>4, <3>1, <3>2 DEF Starting
  <2>8. Numbered' /\ Apart' /\ Owned' /\ Alone'
    BY <1>2 DEF TunnelInv, Numbered, Apart, Owned, Alone
  <2>9. Calm'
    <3>1. serving # "serve" => rough
      BY <1>1 DEF TunnelInv, Calm
    <3>2. ~rough => serving = "serve" /\ serving' = "serve"
      BY <1>2, <3>1
    <3> QED  BY <1>2, <3>2 DEF TunnelInv, Calm
  <2> QED  BY <2>6, <2>7, <2>8, <2>9 DEF TunnelInv
<1> QED  BY <1>3, <1>4

\* The start that is past its checks is the only one.
LEMMA OneStarts ==
    ASSUME TunnelInv, NEW p \in T!Starters, startJob[p].at \in {"up", "insert"}
    PROVE  /\ \A q \in T!Starters : startJob[q].at \in {"up", "insert"} => q = p
           /\ serving # "serve" => rough
BY DEF TunnelInv, Starting, Calm

\* A new task is numbered next; nothing that is listed or owned changes.
LEMMA OthersStay ==
    ASSUME TunnelInv, NEW t \in GoodTasks, nextTunnel =< MaxTunnels,
           tun' = [tun EXCEPT ![nextTunnel] = t]
    PROVE  /\ nextTunnel \in T!Tunnels /\ tun' \in [T!Tunnels -> GoodTasks]
           /\ tun[nextTunnel].at = "none"
           /\ \A i \in T!Tunnels : tun'[i] = IF i = nextTunnel THEN t ELSE tun[i]
           /\ \A n \in Nets : table[n] # 0 => tun'[table[n]] = tun[table[n]]
           /\ \A x \in IfNames : kernel[x] \in T!Tunnels => kernel[x] # nextTunnel
<1>1. nextTunnel \in T!Tunnels /\ tun \in [T!Tunnels -> GoodTasks]
  BY TunnelsAre DEF TunnelInv, TunTyped
<1>2. tun[nextTunnel].at = "none"
  BY <1>1, TunnelsAre DEF TunnelInv, Numbered
<1>3. \A n \in Nets : table[n] # 0 => table[n] \in T!Tunnels /\ table[n] # nextTunnel
  BY TunnelsAre DEF TunnelInv, Numbered, TunTyped
<1>4. \A x \in IfNames : kernel[x] \in T!Tunnels => kernel[x] # nextTunnel
  BY <1>2 DEF TunnelInv, Owned, AliveAt
<1>5. /\ tun' \in [T!Tunnels -> GoodTasks]
      /\ \A i \in T!Tunnels : tun'[i] = IF i = nextTunnel THEN t ELSE tun[i]
  BY <1>1
<1> QED  BY <1>1, <1>2, <1>3, <1>4, <1>5

LEMMA BringUpKeeps == ASSUME TunnelInv, NEW p \in T!Starters, T!BringUp(p) PROVE TunnelInv'
<1> DEFINE j == startJob[p]
           x == j.name
           i == nextTunnel
           t == [net |-> j.net, name |-> x, at |-> "run", stop |-> "no"]
           a == [j EXCEPT !.at = "insert"]
           r == [j EXCEPT !.at = "insert", !.made = i]
<1>1. /\ j.at = "up" /\ i =< MaxTunnels /\ kernel[x] = 0
      /\ kernel' = [kernel EXCEPT ![x] = i] /\ nextTunnel' = i + 1
      /\ tun' = [tun EXCEPT ![i] = t]
      /\ startJob' = [startJob EXCEPT ![p] = r]
      /\ raced' = (raced \/ \E k \in T!Alive : tun[k].name = x)
      /\ UNCHANGED <<serving, table, tableLock, book, rough>>
  BY TunnelsAre DEF T!BringUp, TunnelInv, TunTyped
<1>2. /\ j \in GoodJobs /\ j \in Jobs /\ j.net \in Nets /\ x \in IfNames
      /\ i \in Nat /\ i # 0
  BY <1>1 DEF TunnelInv, TunTyped, GoodJobs
<1>3. t \in GoodTasks /\ t.at = "run" /\ t.name = x
  <2> HIDE DEF j
  <2> QED  BY <1>2 DEF GoodTasks, Tasks
<1>4. i \in T!Tunnels
  BY <1>1, <1>2, TunnelsAre
<1>5. r \in GoodJobs /\ r.at = "insert" /\ r.net = j.net /\ r.name = x /\ r.made = i
  <2> HIDE DEF j, i, x
  <2>0. x = j.name
    BY DEF x
  <2>1. r = [a EXCEPT !.made = i]
    BY Zenon
  <2>2. a \in Jobs
    BY <1>2, JobField
  <2>3. [a EXCEPT !.made = i] \in Jobs
    <3> HIDE DEF a
    <3> QED  BY <1>4, <2>2, JobField
  <2>4. r.at = "insert" /\ r.net = j.net /\ r.name = x /\ r.made = i
    BY <1>2, <2>0 DEF Jobs
  <2>5. r \in Jobs
    BY <2>1, <2>3, Zenon
  <2> HIDE DEF r
  <2> QED  BY <1>2, <1>4, <2>4, <2>5 DEF GoodJobs
<1> HIDE DEF t, r
<1>6. /\ tun' \in [T!Tunnels -> GoodTasks] /\ tun[i].at = "none"
      /\ \A k \in T!Tunnels : tun'[k] = IF k = i THEN t ELSE tun[k]
      /\ \A n \in Nets : table[n] # 0 => tun'[table[n]] = tun[table[n]]
      /\ \A y \in IfNames : kernel[y] \in T!Tunnels => kernel[y] # i
  BY <1>1, <1>3, OthersStay
<1>7. /\ startJob' \in [T!Starters -> GoodJobs]
      /\ \A q \in T!Starters : startJob'[q] = IF q = p THEN r ELSE startJob[q]
  BY <1>1, <1>5 DEF TunnelInv, TunTyped
<1>8. /\ kernel' \in [IfNames -> 0 .. T!Left]
      /\ \A y \in IfNames : kernel'[y] = IF y = x THEN i ELSE kernel[y]
  <2> HIDE DEF i, x
  <2>1. kernel \in [IfNames -> 0 .. T!Left] /\ i \in 0 .. T!Left
    BY <1>4, TunnelsAre DEF TunnelInv, TunTyped
  <2> HIDE DEF j
  <2>2. kernel' = [kernel EXCEPT ![x] = i]
    BY <1>1
  <2> QED  BY <2>1, <2>2
<1>9. tableLock = p /\ table[j.net] = 0
      /\ \A m \in Nets : table[m] # 0 => ~Meets(j.net, m) /\ tun[table[m]].name # x
  BY <1>1 DEF TunnelInv, Starting
<1> HIDE DEF j, x, i
<1>10. TunTyped'
  <2>1. nextTunnel' \in Nat \ {0} /\ raced' \in BOOLEAN
    BY <1>1, <1>2 DEF TunnelInv, TunTyped
  <2> QED  BY <1>1, <1>6, <1>7, <1>8, <2>1 DEF TunnelInv, TunTyped
<1>11. Starting'
  <2>1. \A q \in T!Starters : startJob'[q].at \in {"up", "insert"} => q = p
    BY <1>1, <1>7, OneStarts DEF j
  <2>2. startJob'[p] = r /\ i < nextTunnel' /\ tun'[i].name = x
    BY <1>1, <1>2, <1>3, <1>4, <1>6, <1>7
  <2> QED  BY <1>1, <1>5, <1>6, <1>9, <2>1, <2>2 DEF Starting
<1>12. Numbered'
  <2>1. \A k \in T!Tunnels : k >= i + 1 => k # i /\ k >= i
    BY <1>2, TunnelsAre
  <2>2. \A n \in Nets : table[n] < i /\ table[n] \in Nat
    BY TunnelsAre DEF TunnelInv, Numbered, TunTyped, i
  <2>3. \A n \in Nets : table[n] < i + 1
    BY <1>2, <2>2
  <2> QED  BY <1>1, <1>6, <2>1, <2>3 DEF TunnelInv, Numbered, i
<1>13. Apart'
  BY <1>1, <1>6 DEF TunnelInv, Apart
<1>14. Owned'
  <2> SUFFICES ASSUME NEW y \in IfNames, kernel'[y] \in T!Tunnels
               PROVE  tun'[kernel'[y]].at \in AliveAt /\ tun'[kernel'[y]].name = y
    BY DEF Owned
  <2>1. CASE y = x
    BY <1>3, <1>4, <1>6, <1>8, <2>1 DEF AliveAt
  <2>2. CASE y # x
    BY <1>6, <1>8, <2>2 DEF TunnelInv, Owned
  <2> QED  BY <2>1, <2>2
<1>15. Alone'
  <2> SUFFICES ASSUME ~raced' PROVE Alone'
    BY DEF Alone
  <2>1. ~raced /\ \A k \in T!Tunnels : tun[k].at \in AliveAt => tun[k].name # x
    BY <1>1, AliveIs DEF TunnelInv
  <2>2. \A k, l \in T!Tunnels : tun'[k].at \in AliveAt /\ tun'[l].at \in AliveAt /\ k # l
                                => tun'[k].name # tun'[l].name
    BY <1>3, <1>6, <2>1 DEF TunnelInv, Alone
  <2>3. \A k \in T!Tunnels : tun'[k].at = "run" => kernel'[tun'[k].name] = k
    <3> TAKE k \in T!Tunnels
    <3> HAVE tun'[k].at = "run"
    <3>1. CASE k = i
      BY <1>2, <1>3, <1>6, <1>8, <3>1
    <3>2. CASE k # i
      <4>1. tun'[k] = tun[k] /\ tun[k] \in GoodTasks
        BY <1>6, <3>2 DEF TunnelInv, TunTyped
      <4>2. tun[k].name \in IfNames /\ tun[k].name # x /\ kernel[tun[k].name] = k
        BY <2>1, <4>1 DEF TunnelInv, Alone, GoodTasks, AliveAt
      <4> QED  BY <1>8, <4>1, <4>2
    <3> QED  BY <3>1, <3>2
  <2> QED  BY <2>2, <2>3 DEF Alone
<1>16. Calm'
  <2>1. serving # "serve" => rough
    BY <1>1, OneStarts DEF j
  <2>2. \A y \in IfNames : kernel'[y] = T!Left => kernel[y] = T!Left
    BY <1>4, <1>8, TunnelsAre
  <2> QED  BY <1>1, <2>1, <2>2 DEF TunnelInv, Calm
<1> QED  BY <1>10, <1>11, <1>12, <1>13, <1>14, <1>15, <1>16 DEF TunnelInv

LEMMA BringUpFailsKeeps ==
    ASSUME TunnelInv, NEW p \in T!Starters, T!BringUpFails(p) PROVE TunnelInv'
<1> DEFINE t == T!Finished
           i == nextTunnel
<1>1. /\ startJob[p].at = "up" /\ i =< MaxTunnels /\ nextTunnel' = i + 1
      /\ tun' = [tun EXCEPT ![i] = t] /\ T!Failed(p) /\ tableLock' = "free"
      /\ UNCHANGED <<serving, table, kernel, book, raced, rough>>
  BY DEF T!BringUpFails
<1>2. t \in GoodTasks /\ t.at = "end" /\ i \in Nat /\ i # 0
  BY RecordsAre DEF TunnelInv, TunTyped
<1> HIDE DEF t
<1>3. /\ tun' \in [T!Tunnels -> GoodTasks] /\ tun[i].at = "none" /\ i \in T!Tunnels
      /\ \A k \in T!Tunnels : tun'[k] = IF k = i THEN t ELSE tun[k]
      /\ \A n \in Nets : table[n] # 0 => tun'[table[n]] = tun[table[n]]
      /\ \A y \in IfNames : kernel[y] \in T!Tunnels => kernel[y] # i
  BY <1>1, <1>2, OthersStay
<1>4. PICK r \in GoodJobs : /\ startJob' = [startJob EXCEPT ![p] = r]
                            /\ r.at \notin {"up", "insert"}
  <2>1. startJob[p].at # "idle"
    BY <1>1
  <2> QED  BY <1>1, <2>1, FailedIs DEF TunnelInv
<1>5. /\ startJob' \in [T!Starters -> GoodJobs]
      /\ \A q \in T!Starters : startJob'[q] = IF q = p THEN r ELSE startJob[q]
  BY <1>4 DEF TunnelInv, TunTyped
<1> HIDE DEF i
<1>6. TunTyped'
  <2>1. nextTunnel' \in Nat \ {0}
    BY <1>1, <1>2
  <2> QED  BY <1>1, <1>3, <1>5, <2>1 DEF TunnelInv, TunTyped
<1>7. Starting'
  <2>1. \A q \in T!Starters : startJob'[q].at \notin {"up", "insert"}
    BY <1>1, <1>4, <1>5, OneStarts
  <2> QED  BY <2>1 DEF Starting
<1>8. Numbered'
  <2>1. \A k \in T!Tunnels : k >= i + 1 => k # i /\ k >= i
    BY <1>2, TunnelsAre
  <2>2. \A n \in Nets : table[n] < i /\ table[n] \in Nat
    BY TunnelsAre DEF TunnelInv, Numbered, TunTyped, i
  <2>3. \A n \in Nets : table[n] < i + 1
    BY <1>2, <2>2
  <2> QED  BY <1>1, <1>3, <2>1, <2>3 DEF TunnelInv, Numbered, i
<1>9. Apart'
  BY <1>1, <1>3 DEF TunnelInv, Apart
<1>10. Owned'
  BY <1>1, <1>3 DEF TunnelInv, Owned
<1>11. Alone'
  BY <1>1, <1>2, <1>3 DEF TunnelInv, Alone, AliveAt
<1>12. Calm'
  BY <1>1, OneStarts DEF TunnelInv, Calm
<1> QED  BY <1>6, <1>7, <1>8, <1>9, <1>10, <1>11, <1>12 DEF TunnelInv

LEMMA MeetsBoth == \A n, m : Meets(n, m) = Meets(m, n)
<1>1. \A n, m : {n, m} = {m, n}
  OBVIOUS
<1> QED  BY <1>1, Zenon DEF Meets

LEMMA InsertKeeps == ASSUME TunnelInv, NEW p \in T!Starters, T!Insert(p) PROVE TunnelInv'
<1> DEFINE j == startJob[p]
           i == j.made
<1>1. /\ j.at = "insert" /\ table' = [table EXCEPT ![j.net] = i] /\ tableLock' = "free"
      /\ startJob' = [startJob EXCEPT ![p] = T!NoJob] /\ book' = book \cup {j.net}
      /\ UNCHANGED <<serving, tun, nextTunnel, kernel, raced, rough>>
  BY DEF T!Insert
<1>2. j \in GoodJobs /\ j.net \in Nets /\ i \in T!Tunnels
  BY <1>1 DEF TunnelInv, TunTyped, GoodJobs
<1>3. /\ i < nextTunnel /\ tun[i].name = j.name /\ table[j.net] = 0
      /\ \A m \in Nets : table[m] # 0 => ~Meets(j.net, m) /\ tun[table[m]].name # j.name
  BY <1>1 DEF TunnelInv, Starting
<1> HIDE DEF j, i
<1>4. /\ table' \in [Nets -> T!Tunnels \cup {0}]
      /\ \A n \in Nets : table'[n] = IF n = j.net THEN i ELSE table[n]
  BY <1>1, <1>2 DEF TunnelInv, TunTyped
<1>5. /\ startJob' \in [T!Starters -> GoodJobs]
      /\ \A q \in T!Starters : startJob'[q] = IF q = p THEN T!NoJob ELSE startJob[q]
  BY <1>1, RecordsAre DEF TunnelInv, TunTyped
<1>6. TunTyped'
  <2>1. book' \subseteq Nets
    BY <1>1, <1>2 DEF TunnelInv, TunTyped
  <2> QED  BY <1>1, <1>4, <1>5, <2>1 DEF TunnelInv, TunTyped
<1>7. Starting'
  <2>1. \A q \in T!Starters : startJob'[q].at \notin {"up", "insert"}
    BY <1>1, <1>5, OneStarts, RecordsAre DEF j
  <2> QED  BY <2>1 DEF Starting
<1>8. Numbered'
  BY <1>1, <1>3, <1>4 DEF TunnelInv, Numbered
<1>9. Apart'
  BY <1>1, <1>3, <1>4, MeetsBoth DEF TunnelInv, Apart
<1>10. Owned' /\ Alone'
  BY <1>1 DEF TunnelInv, Owned, Alone
<1>11. Calm'
  BY <1>1, OneStarts DEF TunnelInv, Calm, j
<1> QED  BY <1>6, <1>7, <1>8, <1>9, <1>10, <1>11 DEF TunnelInv

\* Tasks go on or end, and tunnels leave the table.
LEMMA TasksGoOn ==
    ASSUME TunnelInv, tun' \in [T!Tunnels -> GoodTasks],
           \A i \in T!Tunnels : /\ tun'[i].name = tun[i].name
                                /\ tun[i].at = "none" => tun'[i].at = "none",
           \A n \in Nets : table'[n] \in {0, table[n]},
           UNCHANGED <<startJob, tableLock, nextTunnel>>
    PROVE  Starting' /\ Numbered' /\ Apart'
<1>1. \A n \in Nets : table[n] # 0 => table[n] \in T!Tunnels
  BY DEF TunnelInv, TunTyped
<1>2. \A n \in Nets : table'[n] # 0 => /\ table'[n] = table[n] /\ table[n] # 0
                                       /\ tun'[table'[n]].name = tun[table[n]].name
  BY <1>1
<1>3. Starting'
  <2> SUFFICES ASSUME NEW p \in T!Starters, startJob[p].at \in {"up", "insert"}
               PROVE  /\ tableLock = p /\ table'[startJob[p].net] = 0
                      /\ \A m \in Nets : table'[m] # 0 =>
                           /\ ~Meets(startJob[p].net, m)
                           /\ tun'[table'[m]].name # startJob[p].name
                      /\ startJob[p].at = "insert" =>
                           /\ startJob[p].made < nextTunnel
                           /\ tun'[startJob[p].made].name = startJob[p].name
    BY DEF Starting
  <2>1. startJob[p].net \in Nets /\ table[startJob[p].net] = 0 /\ tableLock = p
    BY DEF TunnelInv, TunTyped, GoodJobs, Starting
  <2>2. startJob[p].at = "insert" => startJob[p].made \in T!Tunnels
    BY DEF TunnelInv, TunTyped, GoodJobs
  <2>3. table'[startJob[p].net] = 0
    BY <2>1
  <2> QED  BY <1>2, <2>1, <2>2, <2>3 DEF TunnelInv, Starting
<1>4. Numbered'
  <2>1. \A n \in Nets : table'[n] < nextTunnel
    <3>1. \A n \in Nets : table[n] < nextTunnel /\ 0 < nextTunnel
      BY DEF TunnelInv, Numbered, TunTyped
    <3> QED  BY <3>1
  <2> QED  BY <2>1 DEF TunnelInv, Numbered
<1>5. Apart'
  BY <1>2 DEF TunnelInv, Apart
<1> QED  BY <1>3, <1>4, <1>5

\* The state, or the stop flag, of a task changed.
LEMMA TaskAt ==
    ASSUME NEW t \in Tasks, NEW at \in {"none", "run", "down", "tear", "end"}
    PROVE  /\ [t EXCEPT !.at = at] \in Tasks
           /\ [t EXCEPT !.at = at].name = t.name /\ [t EXCEPT !.at = at].at = at
           /\ [t EXCEPT !.at = at].stop = t.stop
BY DEF Tasks

LEMMA TaskStop ==
    ASSUME NEW t \in Tasks, NEW stop \in {"no", "asked", "awaited"}
    PROVE  /\ [t EXCEPT !.stop = stop] \in Tasks
           /\ [t EXCEPT !.stop = stop].name = t.name
           /\ [t EXCEPT !.stop = stop].at = t.at /\ [t EXCEPT !.stop = stop].stop = stop
BY DEF Tasks

LEMMA StopKeeps == ASSUME TunnelInv, NEW n \in Nets, T!Stop(n) PROVE TunnelInv'
<1> DEFINE i == table[n]
           t == [tun[i] EXCEPT !.stop = "asked"]
<1>1. /\ serving = "serve" /\ tun' = [tun EXCEPT ![i].stop = "asked"] /\ i # 0
      /\ table' = [table EXCEPT ![n] = 0]
      /\ UNCHANGED <<serving, tableLock, startJob, nextTunnel, kernel, book, raced, rough>>
  BY TunnelsAre DEF T!Stop
<1>2. i \in T!Tunnels /\ tun[i] \in GoodTasks /\ tun[i] \in Tasks
  BY <1>1 DEF TunnelInv, TunTyped, GoodTasks
<1>3. tun' = [tun EXCEPT ![i] = t]
  BY <1>1, <1>2 DEF TunnelInv, TunTyped
<1>4. t \in Tasks /\ t.name = tun[i].name /\ t.at = tun[i].at
  BY <1>2, TaskStop
<1> HIDE DEF t, i
<1>5. t \in GoodTasks
  BY <1>2, <1>4 DEF GoodTasks
<1>6. /\ tun' \in [T!Tunnels -> GoodTasks]
      /\ \A k \in T!Tunnels : tun'[k] = IF k = i THEN t ELSE tun[k]
  BY <1>2, <1>3, <1>5 DEF TunnelInv, TunTyped
<1>7. \A k \in T!Tunnels : tun'[k].name = tun[k].name /\ tun'[k].at = tun[k].at
  BY <1>4, <1>6
<1>8. /\ table' \in [Nets -> T!Tunnels \cup {0}] /\ \A m \in Nets : table'[m] \in {0, table[m]}
  BY <1>1 DEF TunnelInv, TunTyped
<1>9. TunTyped'
  BY <1>1, <1>6, <1>8 DEF TunnelInv, TunTyped
<1>10. Starting' /\ Numbered' /\ Apart'
  BY <1>1, <1>6, <1>7, <1>8, TasksGoOn
<1>11. Owned' /\ Alone'
  BY <1>1, <1>7 DEF TunnelInv, Owned, Alone
<1>12. Calm'
  BY <1>1 DEF TunnelInv, Calm
<1> QED  BY <1>9, <1>10, <1>11, <1>12 DEF TunnelInv

\* A step of a live task: it touches the interface of its own name alone.
LEMMA TaskWorks ==
    ASSUME TunnelInv, NEW i \in T!Tunnels, NEW t \in Tasks, NEW c \in {0, i, kernel[tun[i].name]},
           tun[i].at \in AliveAt, t.name = tun[i].name, t.at # "none",
           tun' = [tun EXCEPT ![i] = t],
           kernel' = [kernel EXCEPT ![tun[i].name] = c],
           t.at \notin AliveAt => c = 0, t.at = "run" => c = i,
           t.at \in AliveAt => t.stop = tun[i].stop,
           UNCHANGED <<serving, table, tableLock, startJob, nextTunnel, book, raced, rough>>
    PROVE  TunnelInv'
<1> DEFINE x == tun[i].name
<1>1. tun[i] \in GoodTasks /\ x \in IfNames
  BY DEF TunnelInv, TunTyped, GoodTasks
<1>2. kernel \in [IfNames -> 0 .. T!Left] /\ c \in 0 .. T!Left
  <2>1. kernel \in [IfNames -> 0 .. T!Left]
    BY DEF TunnelInv, TunTyped
  <2>2. kernel[tun[i].name] \in 0 .. T!Left
    BY <1>1, <2>1
  <2>3. 0 \in 0 .. T!Left /\ i \in 0 .. T!Left
    BY TunnelsAre
  <2> QED  BY <2>1, <2>2, <2>3
<1> HIDE DEF x
<1>3. /\ kernel' \in [IfNames -> 0 .. T!Left]
      /\ \A y \in IfNames : kernel'[y] = IF y = x THEN c ELSE kernel[y]
  BY <1>1, <1>2 DEF x
<1>4. t \in GoodTasks
  BY <1>1 DEF GoodTasks, x
<1>5. /\ tun' \in [T!Tunnels -> GoodTasks]
      /\ \A k \in T!Tunnels : tun'[k] = IF k = i THEN t ELSE tun[k]
  BY <1>4 DEF TunnelInv, TunTyped
<1>6. TunTyped'
  BY <1>3, <1>5 DEF TunnelInv, TunTyped
<1>7. \A k \in T!Tunnels : /\ tun'[k].name = tun[k].name
                           /\ tun[k].at = "none" => tun'[k].at = "none"
                           /\ tun'[k].at \in AliveAt => tun[k].at \in AliveAt
  BY <1>5 DEF AliveAt
<1>8. Starting' /\ Numbered' /\ Apart'
  <2>1. \A n \in Nets : table'[n] \in {0, table[n]}
    OBVIOUS
  <2> QED  BY <1>5, <1>7, <2>1, TasksGoOn
<1>9. Owned'
  <2> SUFFICES ASSUME NEW y \in IfNames, kernel'[y] \in T!Tunnels
               PROVE  tun'[kernel'[y]].at \in AliveAt /\ tun'[kernel'[y]].name = y
    BY DEF Owned
  <2>1. CASE kernel'[y] = kernel[y] /\ kernel[y] # i
    BY <1>5, <2>1 DEF TunnelInv, Owned
  <2>2. CASE kernel'[y] = i
    <3>1. y = x
      <4>1. CASE kernel[y] = i
        BY <4>1 DEF TunnelInv, Owned, x
      <4>2. CASE kernel[y] # i
        BY <1>3, <2>2, <4>2
      <4> QED  BY <4>1, <4>2
    <3>2. c = i
      BY <1>3, <2>2, <3>1
    <3>3. t.at \in AliveAt
      BY <3>2, TunnelsAre
    <3> QED  BY <1>5, <2>2, <3>1, <3>3 DEF x
  <2>3. kernel'[y] \in {0, i, kernel[y]}
    BY <1>3 DEF x
  <2> QED  BY <2>1, <2>2, <2>3, TunnelsAre
<1>10. Alone'
  <2> SUFFICES ASSUME ~raced PROVE Alone'
    BY DEF Alone
  <2>1. \A k \in T!Tunnels : tun'[k].at = "run" => kernel'[tun'[k].name] = k
    <3> TAKE k \in T!Tunnels
    <3> HAVE tun'[k].at = "run"
    <3>1. CASE k = i
      BY <1>1, <1>3, <1>5, <3>1 DEF x
    <3>2. CASE k # i
      <4>1. tun'[k] = tun[k] /\ tun[k] \in GoodTasks
        BY <1>5, <3>2 DEF TunnelInv, TunTyped
      <4>2. tun[k].name \in IfNames /\ tun[k].name # x /\ kernel[tun[k].name] = k
        BY <3>2, <4>1 DEF TunnelInv, Alone, GoodTasks, AliveAt, x
      <4> QED  BY <1>3, <4>1, <4>2
    <3> QED  BY <3>1, <3>2
  <2> QED  BY <1>7, <2>1 DEF TunnelInv, Alone
<1>11. Calm'
  <2> SUFFICES ASSUME ~rough PROVE Calm'
    BY DEF Calm
  <2>1. serving # "ended"
    BY DEF TunnelInv, Calm
  <2>2. \A y \in IfNames : kernel'[y] # T!Left
    BY <1>1, <1>3, TunnelsAre DEF TunnelInv, Calm, x
  <2>3. serving = "drained" => \A k \in T!Tunnels : tun'[k].at \in AliveAt =>
                                  tun'[k].stop = "awaited"
    BY <1>5 DEF TunnelInv, Calm
  <2> QED  BY <1>7, <2>1, <2>2, <2>3 DEF TunnelInv, Calm
<1> QED  BY <1>6, <1>8, <1>9, <1>10, <1>11 DEF TunnelInv

\* The task of a tunnel: what it does to its state, and to the interface.
LEMMA TaskSteps ==
    ASSUME TunnelInv, NEW i \in T!Tunnels, tun[i].at \in AliveAt,
           NEW at \in {"run", "down", "tear"}, T!Task(i, at),
           NEW c \in {0, i, kernel[tun[i].name]},
           kernel' = [kernel EXCEPT ![tun[i].name] = c], at = "run" => c = i,
           UNCHANGED <<serving, table, tableLock, startJob, nextTunnel, book, raced, rough>>
    PROVE  TunnelInv'
<1> DEFINE t == [tun[i] EXCEPT !.at = at]
<1>1. tun[i] \in Tasks
  BY DEF TunnelInv, TunTyped, GoodTasks
<1>2. t \in Tasks /\ t.name = tun[i].name /\ t.at = at /\ t.stop = tun[i].stop
  <2> DEFINE u == tun[i]
  <2>1. u \in Tasks /\ at \in {"none", "run", "down", "tear", "end"}
    BY <1>1
  <2> HIDE DEF u
  <2>2. LET v == [u EXCEPT !.at = at] IN
        v \in Tasks /\ v.name = u.name /\ v.at = at /\ v.stop = u.stop
    BY <2>1, TaskAt
  <2> QED  BY <2>2 DEF u
<1>3. tun' = [tun EXCEPT ![i] = t]
  BY <1>1 DEF T!Task, TunnelInv, TunTyped
<1> HIDE DEF t
<1>4. t.at \in AliveAt /\ t.at # "none"
  BY <1>2 DEF AliveAt
<1> QED  BY <1>2, <1>3, <1>4, TaskWorks

LEMMA KernelSame ==
    ASSUME TunTyped, NEW x, UNCHANGED kernel
    PROVE  kernel' = [kernel EXCEPT ![x] = kernel[x]]
BY DEF TunTyped

LEMMA TasksKeep ==
    ASSUME TunnelInv, NEW i \in T!Tunnels,
           \/ T!StopSeen(i) \/ T!SuperviseFails(i) \/ T!RestartDown(i) \/ T!RestartUp(i)
    PROVE  TunnelInv'
<1> DEFINE x == tun[i].name
           k == kernel[x]
<1>0. kernel' = kernel => kernel' = [kernel EXCEPT ![x] = k]
  BY KernelSame DEF TunnelInv
<1>1. CASE T!StopSeen(i) \/ T!SuperviseFails(i)
  <2>1. /\ tun[i].at \in AliveAt /\ T!Task(i, "tear") /\ kernel' = kernel
        /\ UNCHANGED <<serving, table, tableLock, startJob, nextTunnel, book, raced, rough>>
    BY <1>1 DEF T!StopSeen, T!SuperviseFails, AliveAt
  <2> QED  BY <1>0, <2>1, TaskSteps
<1>2. CASE T!RestartDown(i)
  <2>1. /\ tun[i].at \in AliveAt /\ T!Task(i, "down") /\ kernel' = [kernel EXCEPT ![x] = 0]
        /\ UNCHANGED <<serving, table, tableLock, startJob, nextTunnel, book, raced, rough>>
    BY <1>2, TunnelsAre DEF T!RestartDown, AliveAt
  <2> QED  BY <2>1, TaskSteps
<1>3. CASE T!RestartUp(i)
  <2>1. /\ tun[i].at \in AliveAt
        /\ UNCHANGED <<serving, table, tableLock, startJob, nextTunnel, book, raced, rough>>
    BY <1>3 DEF T!RestartUp, AliveAt
  <2>2. \/ /\ kernel' = [kernel EXCEPT ![x] = i]
           /\ T!Task(i, IF tun[i].stop # "no" THEN "tear" ELSE "run")
        \/ kernel' = kernel /\ T!Task(i, "tear")
    BY <1>3 DEF T!RestartUp
  <2>3. CASE kernel' = kernel /\ T!Task(i, "tear")
    BY <1>0, <2>1, <2>3, TaskSteps
  <2>4. CASE kernel' = [kernel EXCEPT ![x] = i] /\ T!Task(i, "tear")
    BY <2>1, <2>4, TaskSteps
  <2>5. CASE kernel' = [kernel EXCEPT ![x] = i] /\ T!Task(i, "run")
    BY <2>1, <2>5, TaskSteps
  <2> QED  BY <2>2, <2>3, <2>4, <2>5
<1> QED  BY <1>1, <1>2, <1>3

LEMMA TearDownKeeps == ASSUME TunnelInv, NEW i \in T!Tunnels, T!TearDown(i) PROVE TunnelInv'
<1> DEFINE t == [tun[i] EXCEPT !.at = "end", !.stop = "no"]
           a == [tun[i] EXCEPT !.at = "end"]
<1>1. /\ tun[i].at \in AliveAt
      /\ tun' = [tun EXCEPT ![i].at = "end", ![i].stop = "no"]
      /\ kernel' = [kernel EXCEPT ![tun[i].name] = 0]
      /\ UNCHANGED <<serving, table, tableLock, startJob, nextTunnel, book, raced, rough>>
  BY TunnelsAre DEF T!TearDown, AliveAt
<1>2. tun[i] \in Tasks
  BY DEF TunnelInv, TunTyped, GoodTasks
<1>3. tun' = [tun EXCEPT ![i] = t]
  BY <1>1 DEF TunnelInv, TunTyped
<1>4. t = [a EXCEPT !.stop = "no"]
  BY Zenon
<1>5. a \in Tasks /\ a.name = tun[i].name /\ a.at = "end"
  BY <1>2, TaskAt
<1>6. t \in Tasks /\ t.name = tun[i].name /\ t.at = "end"
  <2> HIDE DEF a, t
  <2> QED  BY <1>4, <1>5, TaskStop
<1> HIDE DEF t
<1>7. t.at \notin AliveAt /\ t.at # "run" /\ t.at # "none"
  BY <1>6 DEF AliveAt
<1> QED  BY <1>1, <1>3, <1>6, <1>7, TaskWorks

LEMMA CloseKeeps == ASSUME TunnelInv, T!Close PROVE TunnelInv'
<1>1. /\ serving' = "closing"
      /\ rough' = \/ rough \/ \E p \in T!Starters : startJob[p].at # "idle"
                  \/ T!Alive # {table[n] : n \in T!Listed}
      /\ UNCHANGED <<table, tableLock, startJob, tun, nextTunnel, kernel, book, raced>>
  <2>1. serving' = "closing"
    BY DEF T!Close
  <2>2. rough' = \/ rough \/ \E p \in T!Starters : startJob[p].at # "idle"
                 \/ T!Alive # {table[n] : n \in T!Listed}
    BY Zenon DEF T!Close
  <2>3. UNCHANGED <<table, tableLock, startJob, tun, nextTunnel, kernel, book, raced>>
    BY DEF T!Close
  <2> QED  BY <2>1, <2>2, <2>3, Zenon
<1>2. TunTyped'
  BY <1>1 DEF TunnelInv, TunTyped
<1>3. Starting' /\ Numbered' /\ Apart' /\ Owned' /\ Alone'
  BY <1>1 DEF TunnelInv, Starting, Numbered, Apart, Owned, Alone
<1>4. Calm'
  <2> SUFFICES ASSUME ~rough' PROVE Calm'
    BY DEF Calm
  <2>1. /\ ~rough /\ \A p \in T!Starters : startJob[p].at = "idle"
        /\ T!Alive = {table[n] : n \in T!Listed}
    BY <1>1
  <2>2. \A i \in T!Tunnels : tun[i].at \in AliveAt => \E n \in Nets : table[n] = i
    <3> TAKE i \in T!Tunnels
    <3> HAVE tun[i].at \in AliveAt
    <3>1. i \in T!Alive
      BY AliveIs DEF TunnelInv
    <3>2. PICK n \in T!Listed : table[n] = i
      BY <2>1, <3>1
    <3> QED  BY <3>2 DEF T!Listed
  <2> QED  BY <1>1, <2>1, <2>2 DEF TunnelInv, Calm
<1> QED  BY <1>2, <1>3, <1>4 DEF TunnelInv

LEMMA StopAllKeeps == ASSUME TunnelInv, T!StopAll PROVE TunnelInv'
<1> DEFINE Waited(i) == \E n \in T!Listed : table[n] = i
           u(i) == [tun[i] EXCEPT !.stop = "awaited"]
<1>1. /\ serving = "closing" /\ serving' = "drained"
      /\ tun' = [i \in T!Tunnels |-> IF Waited(i) THEN u(i) ELSE tun[i]]
      /\ table' = [n \in Nets |-> 0]
      /\ UNCHANGED <<tableLock, startJob, nextTunnel, kernel, book, raced, rough>>
  BY TunnelsAre DEF T!StopAll
<1>2. \A i \in T!Tunnels : tun[i] \in GoodTasks /\ tun[i] \in Tasks
  BY DEF TunnelInv, TunTyped, GoodTasks
<1>3. \A i \in T!Tunnels : /\ u(i) \in Tasks /\ u(i).name = tun[i].name
                           /\ u(i).at = tun[i].at /\ u(i).stop = "awaited"
  BY <1>2, TaskStop
<1>4. \A i \in T!Tunnels : u(i) \in GoodTasks
  <2> HIDE DEF u
  <2> QED  BY <1>2, <1>3 DEF GoodTasks
<1> HIDE DEF u, Waited
<1>5. /\ tun' \in [T!Tunnels -> GoodTasks]
      /\ \A i \in T!Tunnels : /\ tun'[i].name = tun[i].name /\ tun'[i].at = tun[i].at
                              /\ Waited(i) => tun'[i].stop = "awaited"
  BY <1>1, <1>2, <1>3, <1>4
<1>6. TunTyped'
  BY <1>1, <1>5 DEF TunnelInv, TunTyped
<1>7. Starting' /\ Numbered' /\ Apart'
  <2>1. \A n \in Nets : table'[n] \in {0, table[n]}
    BY <1>1
  <2> QED  BY <1>1, <1>5, <2>1, TasksGoOn
<1>8. Owned'
  BY <1>1, <1>5 DEF TunnelInv, Owned
<1>9. Alone'
  BY <1>1, <1>5 DEF TunnelInv, Alone
<1>10. Calm'
  <2> SUFFICES ASSUME ~rough PROVE Calm'
    BY <1>1 DEF Calm
  <2>1. \A i \in T!Tunnels : tun[i].at \in AliveAt => Waited(i)
    <3> TAKE i \in T!Tunnels
    <3> HAVE tun[i].at \in AliveAt
    <3>1. PICK n \in Nets : table[n] = i
      BY <1>1 DEF TunnelInv, Calm
    <3>2. n \in T!Listed
      BY <3>1, ListedIs, TunnelsAre
    <3> QED  BY <3>1, <3>2 DEF Waited
  <2> QED  BY <1>1, <1>5, <2>1 DEF TunnelInv, Calm
<1> QED  BY <1>6, <1>7, <1>8, <1>9, <1>10 DEF TunnelInv

\* The end of the process: only interfaces are left.
LEMMA ProcessEnds ==
    ASSUME TunnelInv, T!ProcessGone, rough' \in BOOLEAN,
           ~rough' => \A x \in IfNames : kernel[x] = 0,
           UNCHANGED <<nextTunnel, book, raced>>
    PROVE  TunnelInv'
<1>1. /\ serving' = "ended" /\ table' = [n \in Nets |-> 0]
      /\ startJob' = [p \in T!Starters |-> T!NoJob]
      /\ tun' = [i \in T!Tunnels |-> IF i \in T!Alive THEN T!Finished ELSE tun[i]]
      /\ kernel' = [x \in IfNames |-> IF kernel[x] = 0 THEN 0 ELSE T!Left]
  BY TunnelsAre DEF T!ProcessGone
<1>2. /\ tun' \in [T!Tunnels -> GoodTasks]
      /\ \A i \in T!Tunnels : /\ tun'[i].at \notin AliveAt
                              /\ tun[i].at = "none" => tun'[i].at = "none"
  <2>1. tun \in [T!Tunnels -> GoodTasks]
    BY DEF TunnelInv, TunTyped
  <2>2. \A i \in T!Tunnels : tun[i].at \in AliveAt <=> i \in T!Alive
    BY AliveIs DEF TunnelInv
  <2> QED  BY <1>1, <2>1, <2>2, RecordsAre DEF AliveAt
<1>3. /\ startJob' \in [T!Starters -> GoodJobs]
      /\ \A p \in T!Starters : startJob'[p].at = "idle"
  BY <1>1, RecordsAre
<1>4. /\ kernel' \in [IfNames -> 0 .. T!Left]
      /\ \A x \in IfNames : kernel'[x] \in {0, T!Left} /\ (kernel[x] = 0 => kernel'[x] = 0)
  BY <1>1, TunnelsAre
<1>5. TunTyped'
  BY <1>1, <1>2, <1>3, <1>4 DEF TunnelInv, TunTyped
<1>6. Starting'
  BY <1>3 DEF Starting
<1>7. Numbered'
  <2>1. 0 < nextTunnel
    BY DEF TunnelInv, TunTyped
  <2> QED  BY <1>1, <1>2, <2>1 DEF TunnelInv, Numbered
<1>8. Apart'
  BY <1>1 DEF Apart
<1>9. Owned'
  BY <1>4, TunnelsAre DEF Owned
<1>10. Alone'
  BY <1>2 DEF Alone, AliveAt
<1>11. Calm'
  BY <1>1, <1>2, <1>3, <1>4, TunnelsAre DEF Calm
<1> QED  BY <1>5, <1>6, <1>7, <1>8, <1>9, <1>10, <1>11 DEF TunnelInv

LEMMA EndsKeep == ASSUME TunnelInv, T!End \/ T!EndRoughly PROVE TunnelInv'
<1>1. CASE T!EndRoughly
  BY <1>1, ProcessEnds DEF T!EndRoughly
<1>2. CASE T!End
  <2>1. /\ serving = "drained" /\ \A i \in T!Alive : tun[i].stop # "awaited"
        /\ T!ProcessGone /\ UNCHANGED <<nextTunnel, book, raced, rough>>
    BY <1>2 DEF T!End
  <2>2. ASSUME ~rough, NEW x \in IfNames PROVE kernel[x] = 0
    <3>1. \A i \in T!Tunnels : tun[i].at \notin AliveAt
      BY <2>1, <2>2, AliveIs DEF TunnelInv, Calm
    <3>2. kernel[x] \notin T!Tunnels /\ kernel[x] # T!Left
      BY <2>2, <3>1 DEF TunnelInv, Owned, Calm
    <3>3. kernel[x] \in 0 .. T!Left
      BY DEF TunnelInv, TunTyped
    <3> QED  BY <3>2, <3>3, TunnelsAre
  <2>3. rough' \in BOOLEAN /\ rough' = rough
    BY <2>1 DEF TunnelInv, TunTyped
  <2> QED  BY <2>1, <2>2, <2>3, ProcessEnds
<1> QED  BY <1>1, <1>2

\* The entry that the daemon recovers when it begins.
LEMMA RecoveryIs ==
    ASSUME NEW b \in SUBSET Nets, NEW r \in T!Recovery(b)
    PROVE  r \in GoodJobs /\ r.at \in {"idle", "check"}
<1>1. CASE r = T!NoJob
  BY <1>1, RecordsAre
<1>2. CASE r # T!NoJob
  <2>1. PICK n \in b : r = [T!NoJob EXCEPT !.at = "check", !.net = n]
    BY <1>2 DEF T!Recovery
  <2> DEFINE a == [T!NoJob EXCEPT !.at = "check"]
  <2>2. r = [a EXCEPT !.net = n]
    BY <2>1, Zenon
  <2>3. T!NoJob \in Jobs /\ n \in Nets
    BY RecordsAre DEF GoodJobs
  <2>4. a \in Jobs
    BY <2>3, JobField
  <2>5. [a EXCEPT !.net = n] \in Jobs
    <3> HIDE DEF a
    <3> QED  BY <2>3, <2>4, JobField
  <2>6. r.at = "check" /\ r.net = n
    BY <2>1, <2>3 DEF Jobs
  <2> HIDE DEF a
  <2>7. r \in Jobs
    BY <2>2, <2>5, Zenon
  <2> QED  BY <2>3, <2>6, <2>7 DEF GoodJobs
<1> QED  BY <1>1, <1>2

LEMMA ServeKeeps == ASSUME TunnelInv, T!Serve PROVE TunnelInv'
<1>1. /\ serving' = "serve"
      /\ UNCHANGED <<table, tableLock, tun, nextTunnel, kernel, book, raced, rough>>
  BY DEF T!Serve
<1>2. PICK r \in T!Recovery(book) : startJob' = [startJob EXCEPT !["auto"] = r]
  BY DEF T!Serve
<1>3. r \in GoodJobs /\ r.at \in {"idle", "check"}
  BY RecoveryIs DEF TunnelInv, TunTyped
<1>4. /\ startJob' \in [T!Starters -> GoodJobs]
      /\ \A q \in T!Starters : startJob'[q] = IF q = "auto" THEN r ELSE startJob[q]
  BY <1>2, <1>3, TunnelsAre DEF TunnelInv, TunTyped
<1>5. TunTyped'
  BY <1>1, <1>4 DEF TunnelInv, TunTyped
<1>6. Starting'
  BY <1>1, <1>3, <1>4 DEF TunnelInv, Starting
<1>7. Numbered' /\ Apart' /\ Owned' /\ Alone'
  BY <1>1 DEF TunnelInv, Numbered, Apart, Owned, Alone
<1>8. Calm'
  BY <1>1 DEF TunnelInv, Calm
<1> QED  BY <1>5, <1>6, <1>7, <1>8 DEF TunnelInv

LEMMA TunnelKeeps == TunnelInv /\ T!Next => TunnelInv'
<1> SUFFICES ASSUME TunnelInv, T!Next PROVE TunnelInv'
  OBVIOUS
<1>1. CASE \E n \in Nets : T!Ask(n) \/ T!Stop(n)
  BY <1>1, AskKeeps, StopKeeps
<1>2. CASE \E p \in T!Starters : T!Enter(p) \/ T!BringUp(p) \/ T!BringUpFails(p) \/ T!Insert(p)
  BY <1>2, EnterKeeps, BringUpKeeps, BringUpFailsKeeps, InsertKeeps
<1>3. CASE \E i \in T!Tunnels : \/ T!StopSeen(i) \/ T!SuperviseFails(i) \/ T!RestartDown(i)
                                \/ T!RestartUp(i) \/ T!TearDown(i)
  BY <1>3, TasksKeep, TearDownKeeps
<1>4. CASE T!Check \/ T!Close \/ T!StopAll \/ T!End \/ T!EndRoughly \/ T!Serve
  BY <1>4, CheckKeeps, CloseKeeps, StopAllKeeps, EndsKeep, ServeKeeps
<1> QED  BY <1>1, <1>2, <1>3, <1>4 DEF T!Next

LEMMA TunnelInit == HostInit => TunnelInv
<1> SUFFICES ASSUME HostInit PROVE TunnelInv
  OBVIOUS
<1>1. T!Init
  BY DEF HostInit
<1>2. /\ serving = "serve" /\ table = [n \in Nets |-> 0] /\ book \subseteq Nets
      /\ tun = [i \in T!Tunnels |-> T!NoTunnel] /\ nextTunnel = 1
      /\ kernel = [x \in IfNames |-> 0] /\ raced = FALSE /\ rough = FALSE
  BY <1>1, TunnelsAre DEF T!Init
<1>3. PICK r \in T!Recovery(book) :
        startJob = [p \in T!Starters |-> IF p = "auto" THEN r ELSE T!NoJob]
  BY <1>1 DEF T!Init
<1>4. r \in GoodJobs /\ r.at \in {"idle", "check"}
  BY <1>2, RecoveryIs
<1>5. /\ startJob \in [T!Starters -> GoodJobs]
      /\ \A p \in T!Starters : startJob[p].at \notin {"up", "insert"}
  BY <1>3, <1>4, RecordsAre
<1>6. /\ tun \in [T!Tunnels -> GoodTasks] /\ \A i \in T!Tunnels : tun[i].at = "none"
  BY <1>2, RecordsAre
<1>7. /\ kernel \in [IfNames -> 0 .. T!Left] /\ \A x \in IfNames : kernel[x] = 0
  BY <1>2, TunnelsAre
<1>8. TunTyped
  <2>1. table \in [Nets -> T!Tunnels \cup {0}] /\ nextTunnel \in Nat \ {0}
    BY <1>2
  <2>2. serving \in {"serve", "closing", "drained", "ended"}
    BY <1>2
  <2>3. raced \in BOOLEAN /\ rough \in BOOLEAN
    BY <1>2
  <2> QED  BY <1>2, <1>5, <1>6, <1>7, <2>1, <2>2, <2>3 DEF TunTyped
<1>9. Starting /\ Numbered /\ Apart
  BY <1>2, <1>5, <1>6 DEF Starting, Numbered, Apart
<1>10. Owned /\ Alone
  BY <1>6, <1>7, TunnelsAre DEF Owned, Alone, AliveAt
<1>11. Calm
  BY <1>2, <1>7, TunnelsAre DEF Calm
<1> QED  BY <1>8, <1>9, <1>10, <1>11 DEF TunnelInv

\* TunnelsSound: listed tunnels apart, interfaces owned and kept, and nothing left
\* behind by an end of the daemon that nothing disturbed (plan_interface, tear_down,
\* serve, stop_all).
THEOREM TunnelsStaySound == HostSpec => []TunnelsSound
<1>1. TunnelInv /\ [HostNext]_allVars => TunnelInv'
  <2> SUFFICES ASSUME TunnelInv, [HostNext]_allVars PROVE TunnelInv'
    OBVIOUS
  <2>1. T!Next \/ UNCHANGED tunnelsState
    BY DEF HostNext, EditsStep, RequestsStep, SessionStep, TunnelsStep, DirectStep, allVars
  <2>2. CASE UNCHANGED tunnelsState
    <3>1. UNCHANGED <<serving, table, tableLock, startJob, tun, nextTunnel, kernel, book,
                      raced, rough>>
      BY <2>2 DEF tunnelsState
    <3>2. TunTyped'
      BY <3>1 DEF TunnelInv, TunTyped
    <3> QED  BY <3>1, <3>2 DEF TunnelInv, Starting, Numbered, Apart, Owned, Alone, Calm
  <2> QED  BY <2>1, <2>2, TunnelKeeps
<1>2. TunnelInv => TunnelsSound
  <2> SUFFICES ASSUME TunnelInv PROVE TunnelsSound
    OBVIOUS
  <2>1. T!TunnelsApart
    BY ListedIs DEF T!TunnelsApart, T!Listed, TunnelInv, Apart, Meets
  <2>2. T!DeviceOwned
    BY AliveIs DEF T!DeviceOwned, TunnelInv, Owned
  <2>3. T!DeviceKept
    BY DEF T!DeviceKept, TunnelInv, Alone
  <2>4. T!NothingLeft
    BY TunnelsAre DEF T!NothingLeft, TunnelInv, Calm
  <2> QED  BY <2>1, <2>2, <2>3, <2>4 DEF TunnelsSound
<1> QED  BY <1>1, <1>2, TunnelInit, PTL DEF HostSpec

-----------------------------------------------------------------------------
(* The types of all parts.  Beyond what the parts' invariants say of types *)
(* are the bounds: a request counts before it is written, a connection has *)
(* on the wire what its place allows, and failures stay within the budget. *)

\* The requests: rights, names and subnets are those of members.
WithinHere(f) == /\ f.waiting \subseteq f.here /\ f.admin \subseteq f.here
                 /\ f.invite \subseteq f.here /\ f.subnet \subseteq f.here
BusySide(p) == IF job[p].at = "idle" THEN 0 ELSE 1
RequestsMore == /\ WithinHere(reqFile) /\ ops \in 0 .. MaxOps
                /\ ver + BusySide("daemon") + BusySide("ui") <= ops
                /\ \A m \in Askers : after[m] <= ver

LEMMA WithinEdits ==
    ASSUME NEW f \in HostFiles, WithinHere(f), NEW m \in Askers, NEW label \in Labels
    PROVE  /\ WithinHere(R!RemoveMember(f, m)) /\ WithinHere(R!ApproveMember(f, m))
           /\ WithinHere(R!Rename(f, m, label)) /\ WithinHere(R!SetDnsName(f, m, label))
           /\ WithinHere(R!AddRecord(f, label)) /\ WithinHere(R!RemoveRecord(f, label))
           /\ \A approval \in BOOLEAN : WithinHere(R!AddInvited(f, m, label, approval))
           /\ m \in f.here => /\ WithinHere(R!SetCanInvite(f, m)) /\ WithinHere(R!SetSubnets(f, m))
                              /\ \A given \in BOOLEAN : WithinHere(R!SetAdmin(f, m, given))
           /\ \A set : WithinHere(R!WriteSettings(f, set))
           /\ \A g, r : WithinHere(R!WritePolicy(f, g, r))
<1> USE DEF WithinHere, HostFiles
<1>1. WithinHere(R!RemoveMember(f, m)) /\ WithinHere(R!ApproveMember(f, m))
  BY DEF R!RemoveMember, R!ApproveMember
<1>2. WithinHere(R!Rename(f, m, label)) /\ WithinHere(R!SetDnsName(f, m, label))
  BY DEF R!Rename, R!SetDnsName
<1>3. WithinHere(R!AddRecord(f, label)) /\ WithinHere(R!RemoveRecord(f, label))
  BY DEF R!AddRecord, R!RemoveRecord
<1>4. \A approval \in BOOLEAN : WithinHere(R!AddInvited(f, m, label, approval))
  BY DEF R!AddInvited
<1>5. ASSUME m \in f.here
      PROVE  /\ WithinHere(R!SetCanInvite(f, m)) /\ WithinHere(R!SetSubnets(f, m))
             /\ \A given \in BOOLEAN : WithinHere(R!SetAdmin(f, m, given))
  BY <1>5 DEF R!SetCanInvite, R!SetSubnets, R!SetAdmin
<1>6. (\A set : WithinHere(R!WriteSettings(f, set))) /\ \A g, r : WithinHere(R!WritePolicy(f, g, r))
  BY DEF R!WriteSettings, R!WritePolicy
<1> QED  BY <1>1, <1>2, <1>3, <1>4, <1>5, <1>6

LEMMA WithinWritten ==
    ASSUME NEW j, PlanLike(j), reqFile \in HostFiles, WithinHere(reqFile), R!Found(j)
    PROVE  WithinHere(R!Written(reqFile, j))
<1>1. j.target \in Askers /\ j.label \in Labels /\ j.set.approval \in BOOLEAN /\ j.op \in R!AllOps
  BY DEF PlanLike, R!Settings
<1>2. j.op \in {"can_invite", "subnets", "grant", "revoke"} => j.target \in reqFile.here
  BY DEF R!Found, R!OwnOps, R!TargetOps
<1> QED  BY <1>1, <1>2, WithinEdits
         DEF R!Written, R!AllOps, R!OwnOps, R!AdminOps, R!TargetOps, R!SettingOps, R!RecordOps,
             R!GroupOps

LEMMA RequestsCount ==
    ASSUME RequestInv, RequestsMore, R!Next \/ UNCHANGED requestsState
    PROVE  RequestsMore'
<1>1. /\ reqFile \in HostFiles /\ ver \in Nat /\ after \in [Askers -> Nat] /\ DOMAIN job = R!Sides
      /\ ops \in Nat /\ MaxOps \in Nat /\ ver <= ops
      /\ BusySide("daemon") \in {0, 1} /\ BusySide("ui") \in {0, 1}
      /\ ver + BusySide("daemon") + BusySide("ui") <= ops /\ ops <= MaxOps
      /\ WithinHere(reqFile) /\ \A m \in Askers : after[m] <= ver
  BY HostAssumption DEF RequestInv, RequestsTyped, RequestsMore, BusySide, R!RequestsAssumption
<1>2. CASE UNCHANGED requestsState
  BY <1>2 DEF requestsState, RequestsMore, BusySide
<1>3. ASSUME NEW p \in R!Sides, job[p].at = "idle", ops < MaxOps, ops' = ops + 1,
             \A q \in R!Sides \ {p} : job'[q] = job[q], UNCHANGED <<reqFile, ver, after>>
      PROVE  RequestsMore'
  <2>1. /\ BusySide(p) = 0 /\ BusySide(p)' \in {0, 1}
        /\ \A q \in R!Sides \ {p} : BusySide(q)' = BusySide(q)
    BY <1>3 DEF BusySide
  <2>2. (BusySide("daemon") + BusySide("ui"))' <= BusySide("daemon") + BusySide("ui") + 1
    BY <1>1, <2>1, RequestsAre
  <2>3. BusySide("daemon")' \in {0, 1} /\ BusySide("ui")' \in {0, 1}
    BY DEF BusySide
  <2> QED  BY <1>1, <1>3, <2>2, <2>3 DEF RequestsMore
<1>4. ASSUME NEW m, NEW t, NEW what, R!Receive(m, what, t) PROVE RequestsMore'
  <2>1. "daemon" \in R!Sides /\ job'["ui"] = job["ui"]
    BY <1>1, <1>4, RequestsAre DEF R!Receive
  <2> QED  BY <1>3, <1>4, <2>1, RequestsAre DEF R!Receive
<1>5. ASSUME NEW what, NEW t, NEW label, NEW g, R!Edit(what, t, label, g) PROVE RequestsMore'
  <2>1. "ui" \in R!Sides /\ job'["daemon"] = job["daemon"]
    BY <1>1, <1>5, RequestsAre DEF R!Edit
  <2> QED  BY <1>3, <1>5, <2>1, RequestsAre DEF R!Edit
<1>6. ASSUME NEW label, NEW g, R!Prepare(label, g) PROVE RequestsMore'
  <2>1. /\ job["daemon"].at = "checked" /\ job'["ui"] = job["ui"]
        /\ UNCHANGED <<reqFile, ver, ops, after>>
    BY <1>1, <1>6, RequestsAre DEF R!Prepare
  <2>2. BusySide("daemon") = 1 /\ BusySide("daemon")' \in {0, 1} /\ BusySide("ui")' = BusySide("ui")
    BY <2>1 DEF BusySide
  <2> QED  BY <1>1, <2>1, <2>2 DEF RequestsMore
<1>7. ASSUME NEW p \in R!Sides, R!Write(p) PROVE RequestsMore'
  <2> DEFINE j == job[p]
  <2>1. j.at = "write" /\ job' = [job EXCEPT ![p] = R!Idle] /\ ops' = ops
    BY <1>7 DEF R!Write
  <2>2. /\ BusySide(p) = 1 /\ BusySide(p)' = 0
        /\ \A q \in R!Sides \ {p} : BusySide(q)' = BusySide(q)
    BY <1>1, <2>1, RequestsAre DEF BusySide
  <2>3. (BusySide("daemon") + BusySide("ui"))' = BusySide("daemon") + BusySide("ui") - 1
    BY <1>1, <2>2, RequestsAre
  <2>4. BusySide("daemon")' \in {0, 1} /\ BusySide("ui")' \in {0, 1}
    BY DEF BusySide
  <2>5. PlanLike(j)
    BY <2>1, PlanIsPlan DEF RequestInv
  <2>6. CASE R!Found(j)
    <3>1. /\ reqFile' = R!Written(reqFile, j) /\ ver' = ver + 1
          /\ after' = [m \in Askers |->
                         IF m \in reqFile'.admin \/ m \notin reqFile'.here THEN 0
                         ELSE IF j.actor = m /\ j.op \in R!AdminOps THEN after[m] + 1
                         ELSE after[m]]
      BY <1>7, <2>6 DEF R!Write
    <3>2. WithinHere(reqFile')
      BY <1>1, <2>5, <2>6, <3>1, WithinWritten
    <3>3. \A m \in Askers : after'[m] <= ver'
      BY <1>1, <3>1
    <3> QED  BY <1>1, <2>1, <2>3, <2>4, <3>1, <3>2, <3>3 DEF RequestsMore, WithinHere
  <2>7. CASE ~R!Found(j)
    <3>1. UNCHANGED <<reqFile, ver, after>>
      BY <1>7, <2>7 DEF R!Write
    <3> QED  BY <1>1, <2>1, <2>3, <2>4, <3>1 DEF RequestsMore, WithinHere
  <2> QED  BY <2>6, <2>7
<1> QED  BY <1>2, <1>4, <1>5, <1>6, <1>7 DEF R!Next

LEMMA RequestsTypes == RequestInv /\ RequestsMore => R!TypeOK
<1> SUFFICES ASSUME RequestInv, RequestsMore PROVE R!TypeOK
  OBVIOUS
<1>1. /\ reqFile \in HostFiles /\ ver \in Nat /\ crossed \in BOOLEAN /\ after \in [Askers -> Nat]
      /\ ops \in Nat /\ MaxOps \in Nat /\ ops <= MaxOps /\ WithinHere(reqFile)
      /\ BusySide("daemon") \in {0, 1} /\ BusySide("ui") \in {0, 1}
      /\ ver + BusySide("daemon") + BusySide("ui") <= ops /\ \A m \in Askers : after[m] <= ver
  BY HostAssumption DEF RequestInv, RequestsTyped, RequestsMore, BusySide, R!RequestsAssumption
<1>2. ver \in 0 .. MaxOps /\ after \in [Askers -> 0 .. MaxOps]
  BY <1>1
<1>3. \A p \in R!Sides : job[p].at \in {"idle", "checked", "write"}
  BY RequestsAre DEF RequestInv, RequestsTyped, Checked, PlansOf
<1>4. /\ reqFile.here \subseteq Askers /\ reqFile.name \in Names /\ reqFile.dns \in Names
      /\ reqFile.record \subseteq Labels /\ reqFile.set \in R!Settings
      /\ reqFile.groups \subseteq Groups /\ reqFile.rules \subseteq Groups
  BY <1>1 DEF HostFiles
<1> QED  BY <1>1, <1>2, <1>3, <1>4 DEF R!TypeOK, WithinHere, Names

-----------------------------------------------------------------------------
\* The session: what is on the wire of a connection, by its place.
Words == [k : {"ledger", "removed", "rejected"}, rev : 0 .. MaxRev, st : S!Statuses]
Unserved == {"none", "hello", "accepted", "registered"}
RoomFor(at) == IF at \in Unserved THEN 0 ELSE IF at = "run" THEN MaxWire ELSE MaxWire + 1

WireTyped == /\ down \in [S!Conns -> Seq(Words)]
             /\ \A n \in S!Conns : /\ Len(down[n]) <= RoomFor(sessConn[n].at)
                                   /\ n > opened => sessConn[n].at = "none"
SessionMore == /\ noticed \in BOOLEAN /\ cut \in BOOLEAN /\ rtt \in BOOLEAN
               /\ link \in 0 .. MaxConns /\ ended \in {"no", "removed", "rejected"}
               /\ ledger \in [rev : 0 .. MaxRev, st : S!Statuses] /\ WireTyped

LEMMA WireIs == /\ MaxWire \in Nat \ {0} /\ RoomFor("run") = MaxWire
                /\ \A at : RoomFor(at) \in Nat /\ RoomFor(at) <= MaxWire + 1
                /\ \A at \in Unserved : RoomFor(at) = 0
                /\ \A at : at \notin Unserved /\ at # "run" => RoomFor(at) = MaxWire + 1
BY HostAssumption DEF S!SessionAssumption, RoomFor, Unserved

LEMMA WordsAre ==
    /\ \A d \in [st : S!Statuses, rev : 0 .. MaxRev] : S!LedgerOf(d) \in Words
    /\ S!Word("removed") \in Words /\ S!Word("rejected") \in Words
    /\ S!NoLedger \in [rev : 0 .. MaxRev, st : S!Statuses]
BY SessionIs DEF S!LedgerOf, S!Word, S!NoLedger, Words, S!Statuses

\* One connection moves on and is sent a word, or none.
LEMMA WireMoves ==
    ASSUME SessionTyped, WireTyped, NEW n \in S!Conns, NEW s \in Seq(Words),
           down' = [down EXCEPT ![n] = s], opened' = opened,
           \A m \in S!Conns : m # n => sessConn'[m].at = sessConn[m].at,
           Len(s) <= RoomFor(sessConn'[n].at), sessConn[n].at # "none"
    PROVE  WireTyped'
<1>1. down' \in [S!Conns -> Seq(Words)] /\ down'[n] = s /\ n <= opened
  BY SessionIs DEF WireTyped, SessionTyped
<1>2. ASSUME NEW m \in S!Conns
      PROVE  Len(down'[m]) <= RoomFor(sessConn'[m].at) /\ (m > opened' => sessConn'[m].at = "none")
  <2>1. CASE m = n
    BY <1>1, <2>1, SessionIs DEF SessionTyped
  <2>2. CASE m # n
    BY <2>2 DEF WireTyped
  <2> QED  BY <2>1, <2>2
<1> QED  BY <1>1, <1>2 DEF WireTyped

LEMMA SendIs ==
    ASSUME WireTyped, NEW n \in S!Conns, NEW m \in Words, S!Send(n, m)
    PROVE  \E s \in Seq(Words) : /\ down' = [down EXCEPT ![n] = s]
                                 /\ Len(s) \in Nat /\ Len(s) <= Len(down[n]) + 1
<1> DEFINE s == IF link = n THEN Append(down[n], m) ELSE down[n]
<1>1. down[n] \in Seq(Words)
  BY DEF WireTyped
<1>2. s \in Seq(Words) /\ Len(s) \in Nat /\ Len(s) <= Len(down[n]) + 1
  BY <1>1
<1>3. down' = [down EXCEPT ![n] = s]
  BY DEF S!Send
<1> QED  BY <1>2, <1>3

\* What a connection of the host does to the wire.
LEMMA HostWire ==
    ASSUME SessionInv, WireTyped, NEW n \in S!Conns, S!HostConn(n)
    PROVE  WireTyped'
<1>1. /\ SessionTyped /\ sessConn \in [S!Conns -> ConnStates] /\ down \in [S!Conns -> Seq(Words)]
      /\ down[n] \in Seq(Words) /\ Len(down[n]) \in Nat
      /\ Len(down[n]) <= RoomFor(sessConn[n].at) /\ dist \in [st : S!Statuses, rev : 0 .. MaxRev]
      /\ down = [down EXCEPT ![n] = down[n]]
  BY DEF SessionInv, SessionTyped, WireTyped
<1>2. ASSUME sessConn[n].at # "none", opened' = opened,
             \A m \in S!Conns : m # n => sessConn'[m].at = sessConn[m].at,
             RoomFor(sessConn[n].at) <= RoomFor(sessConn'[n].at), down' = down
      PROVE  WireTyped'
  <2>1. Len(down[n]) <= RoomFor(sessConn'[n].at)
    BY <1>1, <1>2, WireIs
  <2> QED  BY <1>1, <1>2, <2>1, WireMoves
<1>3. ASSUME NEW m \in Words, S!Send(n, m), sessConn[n].at # "none", opened' = opened,
             \A o \in S!Conns : o # n => sessConn'[o].at = sessConn[o].at,
             Len(down[n]) + 1 <= RoomFor(sessConn'[n].at)
      PROVE  WireTyped'
  <2>1. PICK s \in Seq(Words) : /\ down' = [down EXCEPT ![n] = s]
                                /\ Len(s) \in Nat /\ Len(s) <= Len(down[n]) + 1
    BY <1>3, SendIs
  <2>2. RoomFor(sessConn'[n].at) \in Nat
    BY WireIs
  <2>3. Len(s) <= RoomFor(sessConn'[n].at)
    BY <1>1, <1>3, <2>1, <2>2
  <2> QED  BY <1>1, <1>3, <2>1, <2>3, WireMoves
<1>4. CASE S!AcceptInvite(n)
  <2>1. sessConn[n].at = "hello" /\ opened' = opened
    BY <1>4 DEF S!AcceptInvite, S!member
  <2>2. RoomFor(sessConn[n].at) = 0 /\ Len(down[n]) = 0
    BY <1>1, <2>1, WireIs DEF Unserved
  <2>3. CASE sessFile.st = "gone"
    <3>1. sessConn' = [sessConn EXCEPT ![n].at = "end"] /\ S!Send(n, S!Word("rejected"))
      BY <1>4, <2>3 DEF S!AcceptInvite
    <3>2. /\ sessConn'[n].at = "end"
          /\ \A o \in S!Conns : o # n => sessConn'[o].at = sessConn[o].at
      BY <1>1, <3>1 DEF ConnStates
    <3>3. RoomFor(sessConn'[n].at) >= 1
      BY <3>2, WireIs DEF Unserved
    <3> QED  BY <1>3, <2>1, <2>2, <3>1, <3>2, <3>3, WordsAre
  <2>4. CASE sessFile.st # "gone"
    <3>1. /\ sessConn' = [sessConn EXCEPT ![n].at = "accepted", ![n].iso = S!Isolated]
          /\ down' = down
      BY <1>4, <2>4 DEF S!AcceptInvite
    <3>2. /\ sessConn'[n].at = "accepted"
          /\ \A o \in S!Conns : o # n => sessConn'[o].at = sessConn[o].at
      BY <1>1, <3>1 DEF ConnStates
    <3>3. RoomFor(sessConn[n].at) <= RoomFor(sessConn'[n].at)
      BY <2>1, <3>2, WireIs DEF Unserved
    <3> QED  BY <1>2, <2>1, <3>1, <3>2, <3>3
  <2> QED  BY <2>3, <2>4
<1>5. CASE S!Register(n)
  <2>1. /\ sessConn[n].at = "accepted" /\ opened' = opened /\ down' = down
        /\ sessConn' = [m \in S!Conns |-> IF m = n THEN [sessConn[n] EXCEPT !.at = "registered"]
                                          ELSE IF m = reg THEN [sessConn[m] EXCEPT !.close = TRUE]
                                          ELSE sessConn[m]]
    BY <1>5 DEF S!Register, S!member
  <2>2. /\ sessConn'[n].at = "registered"
        /\ \A o \in S!Conns : o # n => sessConn'[o].at = sessConn[o].at
    BY <1>1, <2>1 DEF ConnStates
  <2>3. RoomFor(sessConn[n].at) <= RoomFor(sessConn'[n].at)
    BY <2>1, <2>2, WireIs DEF Unserved
  <2> QED  BY <1>2, <2>1, <2>2, <2>3
<1>6. CASE S!Begin(n)
  <2>1. /\ sessConn[n].at = "registered" /\ opened' = opened
        /\ sessConn' = [sessConn EXCEPT ![n].at = "run", ![n].fresh = FALSE]
        /\ down' = down \/ S!Send(n, S!LedgerOf(dist))
    BY <1>6 DEF S!Begin, S!member
  <2>2. /\ sessConn'[n].at = "run"
        /\ \A o \in S!Conns : o # n => sessConn'[o].at = sessConn[o].at
    BY <1>1, <2>1 DEF ConnStates
  <2>3. RoomFor(sessConn[n].at) = 0 /\ Len(down[n]) = 0 /\ RoomFor("run") >= 1
    BY <1>1, <2>1, WireIs DEF Unserved
  <2>4. CASE down' = down
    <3>1. RoomFor(sessConn[n].at) <= RoomFor(sessConn'[n].at)
      BY <2>2, <2>3, WireIs
    <3> QED  BY <1>2, <2>1, <2>2, <2>4, <3>1
  <2>5. CASE S!Send(n, S!LedgerOf(dist))
    <3>1. Len(down[n]) + 1 <= RoomFor(sessConn'[n].at)
      BY <2>2, <2>3, WireIs
    <3>2. S!LedgerOf(dist) \in Words
      BY <1>1, WordsAre
    <3> QED  BY <1>3, <2>1, <2>2, <2>5, <3>1, <3>2
  <2> QED  BY <2>1, <2>4, <2>5
<1>7. CASE S!WriterLedger(n)
  <2>1. /\ sessConn[n].at = "run" /\ opened' = opened /\ Len(down[n]) < MaxWire
        /\ sessConn' = [sessConn EXCEPT ![n].fresh = FALSE, ![n].iso = (dist.st = "awaiting")]
        /\ down' = down \/ S!Send(n, S!LedgerOf(dist))
    BY <1>7 DEF S!WriterLedger, S!member
  <2>2. /\ sessConn'[n].at = "run"
        /\ \A o \in S!Conns : o # n => sessConn'[o].at = sessConn[o].at
    BY <1>1, <2>1 DEF ConnStates
  <2>3. Len(down[n]) + 1 <= RoomFor("run") /\ RoomFor("run") \in Nat
    BY <1>1, <2>1, WireIs
  <2>4. CASE down' = down
    <3>1. RoomFor(sessConn[n].at) <= RoomFor(sessConn'[n].at)
      BY <2>1, <2>2, WireIs
    <3> QED  BY <1>2, <2>1, <2>2, <2>4, <3>1
  <2>5. CASE S!Send(n, S!LedgerOf(dist))
    <3>1. Len(down[n]) + 1 <= RoomFor(sessConn'[n].at)
      BY <2>2, <2>3
    <3>2. S!LedgerOf(dist) \in Words
      BY <1>1, WordsAre
    <3> QED  BY <1>3, <2>1, <2>2, <2>5, <3>1, <3>2
  <2> QED  BY <2>1, <2>4, <2>5
<1>8. CASE S!WriterRemoved(n)
  <2>1. /\ sessConn[n].at = "run" /\ opened' = opened
        /\ sessConn' = [sessConn EXCEPT ![n] = [S!NoConn EXCEPT !.at = "drain"]]
        /\ S!Send(n, S!Word("removed"))
    BY <1>8 DEF S!WriterRemoved, S!member
  <2>2. /\ sessConn'[n].at = "drain"
        /\ \A o \in S!Conns : o # n => sessConn'[o].at = sessConn[o].at
    BY <1>1, <2>1 DEF S!NoConn
  <2>3. RoomFor("run") = MaxWire /\ RoomFor("drain") = MaxWire + 1 /\ MaxWire \in Nat
    BY WireIs DEF Unserved
  <2> QED  BY <1>1, <1>3, <2>1, <2>2, <2>3, WordsAre
<1>9. CASE S!Ping(n)
  BY <1>9 DEF S!Ping, WireTyped, S!member
<1>10. CASE S!Close(n) \/ S!DrainEnd(n) \/ S!TaskEnd(n) \/ S!Unregister(n) \/ S!Disconnected(n)
  <2>1. PICK to \in {"done", "end", "rtt"} :
          /\ sessConn' = [sessConn EXCEPT ![n] = [S!NoConn EXCEPT !.at = to]]
          /\ sessConn[n].at # "none" /\ opened' = opened /\ down' = down
    BY <1>10 DEF S!Close, S!DrainEnd, S!TaskEnd, S!Unregister, S!Disconnected, S!Step, S!member
  <2>2. /\ sessConn'[n].at = to
        /\ \A o \in S!Conns : o # n => sessConn'[o].at = sessConn[o].at
    BY <1>1, <2>1 DEF S!NoConn
  <2>3. RoomFor(sessConn[n].at) <= RoomFor(sessConn'[n].at)
    BY <2>2, WireIs DEF Unserved
  <2> QED  BY <1>2, <2>1, <2>2, <2>3
<1> QED  BY <1>4, <1>5, <1>6, <1>7, <1>8, <1>9, <1>10 DEF S!HostConn

\* The member's side, and the steps of the file and of the tick.
LEMMA MemberWire ==
    ASSUME SessionInv, SessionMore, S!Connect \/ S!MemberDrop \/ S!MemberRead \/ S!MemberEof
    PROVE  SessionMore'
<1>1. /\ SessionTyped /\ WireTyped /\ down \in [S!Conns -> Seq(Words)]
      /\ sessConn \in [S!Conns -> ConnStates]
      /\ opened \in 0 .. MaxConns /\ MaxConns \in Nat /\ link \in 0 .. MaxConns
      /\ ledger \in [rev : 0 .. MaxRev, st : S!Statuses] /\ ended \in {"no", "removed", "rejected"}
      /\ noticed \in BOOLEAN /\ cut \in BOOLEAN /\ rtt \in BOOLEAN
      /\ \A n \in S!Conns : /\ Len(down[n]) <= RoomFor(sessConn[n].at)
                            /\ n > opened => sessConn[n].at = "none"
  BY SessionIs DEF SessionInv, SessionTyped, SessionMore, WireTyped
<1>2. link # 0 => link \in S!Conns /\ down[link] \in Seq(Words)
  BY <1>1, SessionIs
<1>3. CASE S!Connect
  <2> DEFINE n == opened + 1
  <2>1. /\ opened < MaxConns /\ opened' = n /\ link' = n
        /\ sessConn' = [sessConn EXCEPT ![n].at = "hello"]
        /\ UNCHANGED <<noticed, cut, rtt, down, ledger, ended>>
    BY <1>3 DEF S!Connect, S!hostFile
  <2>2. n \in S!Conns /\ n > opened /\ n \in 0 .. MaxConns
    BY <1>1, <2>1, SessionIs
  <2> HIDE DEF n
  <2>3. /\ sessConn'[n].at = "hello"
        /\ \A m \in S!Conns : m # n => sessConn'[m] = sessConn[m]
    BY <1>1, <2>1, <2>2 DEF ConnStates
  <2>4. RoomFor("none") = 0 /\ RoomFor("hello") = 0
    BY WireIs DEF Unserved
  <2>5. ASSUME NEW m \in S!Conns
        PROVE  Len(down[m]) <= RoomFor(sessConn'[m].at) /\ (m > opened' => sessConn'[m].at = "none")
    <3>1. CASE m = n
      BY <1>1, <2>1, <2>2, <2>3, <2>4, <3>1, SessionIs
    <3>2. CASE m # n
      <4>1. m > n => m > opened
        BY <1>1, <2>2, SessionIs
      <4> QED  BY <1>1, <2>1, <2>3, <3>2, <4>1
    <3> QED  BY <3>1, <3>2
  <2>6. WireTyped'
    BY <1>1, <2>1, <2>5 DEF WireTyped
  <2> QED  BY <1>1, <2>1, <2>2, <2>6 DEF SessionMore
<1>4. CASE S!MemberEof
  <2>1. link' = 0 /\ UNCHANGED <<noticed, cut, rtt, down, sessConn, opened, ledger, ended>>
    BY <1>4 DEF S!MemberEof, S!hostFile
  <2> QED  BY <1>1, <2>1 DEF SessionMore, WireTyped
<1>5. ASSUME NEW s \in Seq(Words), link # 0, down' = [down EXCEPT ![link] = s],
             Len(s) <= Len(down[link]), UNCHANGED <<sessConn, opened>>
      PROVE  WireTyped'
  <2>1. /\ down' \in [S!Conns -> Seq(Words)] /\ down'[link] = s
        /\ \A m \in S!Conns : m # link => down'[m] = down[m]
    BY <1>1, <1>2, <1>5
  <2>2. Len(s) <= RoomFor(sessConn[link].at)
    <3>1. Len(s) \in Nat /\ Len(down[link]) \in Nat /\ RoomFor(sessConn[link].at) \in Nat
      BY <1>2, <1>5, WireIs
    <3> QED  BY <1>1, <1>2, <1>5, <3>1
  <2> QED  BY <1>1, <1>2, <1>5, <2>1, <2>2 DEF WireTyped
<1>6. CASE S!MemberDrop
  <2>1. /\ link # 0 /\ link' = 0 /\ down' = [down EXCEPT ![link] = << >>]
        /\ UNCHANGED <<noticed, cut, rtt, sessConn, opened, ledger, ended>>
    BY <1>6 DEF S!MemberDrop, S!hostFile
  <2>2. << >> \in Seq(Words) /\ Len(<< >>) <= Len(down[link])
    BY <1>2, <2>1
  <2>3. WireTyped'
    BY <1>5, <2>1, <2>2
  <2> QED  BY <1>1, <2>1, <2>3 DEF SessionMore
<1>7. CASE S!MemberRead
  <2> DEFINE m == Head(down[link])
  <2>1. /\ link # 0 /\ down[link] # << >> /\ down' = [down EXCEPT ![link] = Tail(down[link])]
        /\ \/ /\ m.k = "ledger" /\ ledger' = [rev |-> m.rev, st |-> m.st]
              /\ UNCHANGED <<link, ended>>
           \/ /\ m.k \in {"removed", "rejected"} /\ ledger' = S!NoLedger
              /\ ended' = m.k /\ link' = 0
        /\ UNCHANGED <<noticed, cut, rtt, sessConn, opened>>
    BY <1>7 DEF S!MemberRead, S!hostFile
  <2>2. m \in Words /\ Tail(down[link]) \in Seq(Words) /\ Len(Tail(down[link])) <= Len(down[link])
    BY <1>2, <2>1
  <2>3. WireTyped'
    BY <1>5, <2>1, <2>2
  <2>4. /\ ledger' \in [rev : 0 .. MaxRev, st : S!Statuses] /\ link' \in 0 .. MaxConns
        /\ ended' \in {"no", "removed", "rejected"}
    BY <1>1, <2>1, <2>2, WordsAre DEF Words
  <2> QED  BY <1>1, <2>1, <2>3, <2>4 DEF SessionMore
<1> QED  BY <1>3, <1>4, <1>6, <1>7

LEMMA SessionWire == SessionInv /\ SessionMore /\ S!Next => SessionMore'
<1> SUFFICES ASSUME SessionInv, SessionMore, S!Next PROVE SessionMore'
  OBVIOUS
<1>1. /\ WireTyped /\ sessConn \in [S!Conns -> ConnStates]
      /\ noticed \in BOOLEAN /\ cut \in BOOLEAN /\ rtt \in BOOLEAN
  BY DEF SessionInv, SessionTyped, SessionMore
<1>2. CASE S!Approve \/ S!Remove \/ S!EditOther
  BY <1>2 DEF S!Approve, S!Remove, S!EditOther, S!member, SessionMore, WireTyped
<1>3. ASSUME \A n \in S!Conns : sessConn'[n].at = sessConn[n].at,
             noticed' \in BOOLEAN, cut' \in BOOLEAN,
             UNCHANGED <<rtt, down, link, opened, ledger, ended>>
      PROVE  SessionMore'
  BY <1>3 DEF SessionMore, WireTyped
<1>4. CASE S!Load
  <2>1. /\ noticed' = (sessFile.st = "gone") /\ cut' = (cut \/ (noticed /\ sessFile.st = "gone"))
        /\ UNCHANGED <<rtt, down, link, opened, ledger, ended>>
    BY <1>4 DEF S!Load, S!member
  <2>2. \A n \in S!Conns : sessConn'[n].at = sessConn[n].at
    BY <1>1, <1>4 DEF S!Load, ConnStates
  <2>3. noticed' \in BOOLEAN /\ cut' \in BOOLEAN
    BY <2>1
  <2> QED  BY <1>3, <2>1, <2>2, <2>3
<1>5. CASE \E aged \in BOOLEAN : S!Publish(aged)
  <2>1. UNCHANGED <<noticed, cut, rtt, down, link, opened, ledger, ended>>
    BY <1>5 DEF S!Publish, S!member
  <2>2. \A n \in S!Conns : sessConn'[n].at = sessConn[n].at
    BY <1>1, <1>5 DEF S!Publish, ConnStates
  <2> QED  BY <1>1, <1>3, <2>1, <2>2
<1>6. CASE S!Connect \/ S!MemberDrop \/ S!MemberRead \/ S!MemberEof
  BY <1>6, MemberWire
<1>7. CASE \E n \in S!Conns : S!HostConn(n)
  <2>1. PICK n \in S!Conns : S!HostConn(n)
    BY <1>7
  <2>2. UNCHANGED <<noticed, cut, link, ledger, ended>> /\ (rtt' = rtt \/ rtt' \in BOOLEAN)
    BY <2>1 DEF S!HostConn, S!AcceptInvite, S!Register, S!Begin, S!WriterLedger,
                S!WriterRemoved, S!Ping, S!Close, S!DrainEnd, S!TaskEnd, S!Unregister,
                S!Disconnected, S!hostFile, S!member
  <2>3. WireTyped'
    BY <1>1, <2>1, HostWire
  <2> QED  BY <1>1, <2>2, <2>3 DEF SessionMore
<1> QED  BY <1>2, <1>4, <1>5, <1>6, <1>7 DEF S!Next

LEMMA SessionTypes == SessionInv /\ SessionMore => S!TypeOK
<1> SUFFICES ASSUME SessionInv, SessionMore PROVE S!TypeOK
  OBVIOUS
<1>1. SessionTyped /\ WireTyped
  BY DEF SessionInv, SessionMore
<1>2. tick = << >> \/ tick[1] \in Entries
  BY <1>1 DEF SessionTyped
<1>3. \A n \in S!Conns : Len(down[n]) <= MaxWire + 1
  <2>1. ASSUME NEW n \in S!Conns PROVE Len(down[n]) <= MaxWire + 1
    <3>1. Len(down[n]) \in Nat /\ Len(down[n]) <= RoomFor(sessConn[n].at)
      BY <1>1 DEF WireTyped
    <3> QED  BY <3>1, WireIs
  <2> QED  BY <2>1
<1> QED  BY <1>1, <1>2, <1>3 DEF S!TypeOK, SessionTyped, SessionMore, Entries, ConnStates

-----------------------------------------------------------------------------
\* The tunnels: who holds the table, the attempts of a start, and the budget.
Tries == 0 .. T!Attempts
FaultCounts == [fault : 0 .. MaxFaults, ends : 0 .. MaxEnds]
TunMore == /\ tableLock \in T!Starters \cup {"free"} /\ router \subseteq T!Tunnels
           /\ \A p \in T!Starters : startJob[p].tries \in Tries
           /\ dlCount \in FaultCounts

\* A step may keep the attempts of a start, begin anew or count one more.
TriesKept == \A p \in T!Starters :
    \/ startJob'[p].tries \in {startJob[p].tries, 0}
    \/ startJob[p].tries + 1 < T!Attempts /\ startJob'[p].tries = startJob[p].tries + 1

LEMMA BudgetIs ==
    ASSUME dlCount \in FaultCounts
    PROVE  /\ T!Fault => dlCount' \in FaultCounts
           /\ dlCount.ends < MaxEnds => [dlCount EXCEPT !.ends = dlCount.ends + 1] \in FaultCounts
<1>1. MaxFaults \in Nat /\ MaxEnds \in Nat
  BY HostAssumption DEF T!LifecycleAssumption
<1> QED  BY <1>1 DEF T!Fault, FaultCounts

LEMMA TriesFailed ==
    ASSUME TunTyped, NEW p \in T!Starters, T!Failed(p) PROVE TriesKept
<1> DEFINE j == startJob[p]
           s == [j EXCEPT !.at = "check", !.name = T!None, !.tries = j.tries + 1]
           r == IF p = "auto" /\ j.tries + 1 < T!Attempts THEN s ELSE T!NoJob
<1>1. startJob' = [startJob EXCEPT ![p] = r]
  BY Zenon DEF T!Failed
<1>2. j \in Jobs /\ T!NoJob.tries = 0
  BY DEF TunTyped, GoodJobs, T!NoJob
<1>3. s.tries = j.tries + 1
  BY <1>2 DEF Jobs
<1> HIDE DEF s
<1>4. r.tries = 0 \/ (j.tries + 1 < T!Attempts /\ r.tries = j.tries + 1)
  BY <1>2, <1>3
<1> HIDE DEF r
<1> QED  BY <1>1, <1>4 DEF TriesKept, TunTyped

\* A recovered entry has not been tried.
LEMMA UntriedIs == ASSUME NEW b, NEW r \in T!Recovery(b) PROVE r.tries = 0
<1>1. CASE r = T!NoJob
  BY <1>1 DEF T!NoJob
<1>2. CASE r # T!NoJob
  <2>1. PICK n \in b : r = [T!NoJob EXCEPT !.at = "check", !.net = n]
    BY <1>2 DEF T!Recovery
  <2>2. [T!NoJob EXCEPT !.at = "check", !.net = n].tries = 0
    BY DEF T!NoJob
  <2> QED  BY <2>1, <2>2, Zenon
<1> QED  BY <1>1, <1>2

LEMMA TriesStep ==
    ASSUME TunTyped, T!Next PROVE TriesKept
<1>1. \A p \in T!Starters : startJob[p] \in Jobs /\ startJob \in [T!Starters -> GoodJobs]
  BY DEF TunTyped, GoodJobs
<1>2. ASSUME NEW p \in T!Starters, T!Enter(p) \/ T!BringUp(p) \/ T!BringUpFails(p) \/ T!Insert(p)
      PROVE  TriesKept
  <2>1. CASE T!Failed(p)
    BY <2>1, TriesFailed
  <2>2. CASE ~T!Failed(p)
    BY <1>1, <1>2, <2>2
       DEF T!Enter, T!BringUp, T!BringUpFails, T!Insert, T!NoJob, TriesKept, Jobs
  <2> QED  BY <2>1, <2>2
<1>3. CASE \E n \in Nets : T!Ask(n)
  BY <1>1, <1>3, TunnelsAre DEF T!Ask, T!NoJob, TriesKept
<1>4. CASE T!Check
  BY <1>1, <1>4, TunnelsAre DEF T!Check, T!At, T!NoJob, TriesKept, Jobs
<1>5. CASE T!End \/ T!EndRoughly
  BY <1>5 DEF T!End, T!EndRoughly, T!ProcessGone, T!NoJob, TriesKept
<1>6. CASE T!Serve
  <2>1. PICK r \in T!Recovery(book) : startJob' = [startJob EXCEPT !["auto"] = r]
    BY <1>6 DEF T!Serve
  <2>2. r.tries = 0
    BY <2>1, UntriedIs
  <2> QED  BY <1>1, <2>1, <2>2, TunnelsAre DEF TriesKept
<1>7. CASE UNCHANGED startJob
  BY <1>7 DEF TriesKept
<1>8. CASE (\E n \in Nets : T!Stop(n)) \/ T!Close \/ T!StopAll
  BY <1>7, <1>8 DEF T!Stop, T!Close, T!StopAll
<1>9. CASE \E i \in T!Tunnels : \/ T!StopSeen(i) \/ T!SuperviseFails(i) \/ T!RestartDown(i)
                                \/ T!RestartUp(i) \/ T!TearDown(i)
  BY <1>7, <1>9 DEF T!StopSeen, T!SuperviseFails, T!RestartDown, T!RestartUp, T!TearDown
<1> QED  BY <1>2, <1>3, <1>4, <1>5, <1>6, <1>8, <1>9 DEF T!Next

LEMMA TunnelsMore == TunnelInv /\ TunMore /\ T!Next => TunMore'
<1> SUFFICES ASSUME TunnelInv, TunMore, T!Next PROVE TunMore'
  OBVIOUS
<1>1. /\ TunTyped /\ nextTunnel \in Nat \ {0} /\ dlCount \in FaultCounts
      /\ router \subseteq T!Tunnels /\ tableLock \in T!Starters \cup {"free"}
  BY DEF TunnelInv, TunTyped, TunMore
<1>2. nextTunnel <= MaxTunnels => nextTunnel \in T!Tunnels
  BY <1>1, TunnelsAre
<1>3. tableLock' \in T!Starters \cup {"free"}
  <2>1. CASE \E p \in T!Starters : T!Enter(p) \/ T!BringUp(p) \/ T!BringUpFails(p) \/ T!Insert(p)
    BY <1>1, <2>1 DEF T!Enter, T!BringUp, T!BringUpFails, T!Insert
  <2>2. CASE tableLock' = tableLock \/ tableLock' = "free"
    BY <1>1, <2>2
  <2> QED  BY <2>1, <2>2
           DEF T!Next, T!Ask, T!Stop, T!Check, T!StopSeen, T!SuperviseFails, T!RestartDown,
               T!RestartUp, T!TearDown, T!Close, T!StopAll, T!End, T!EndRoughly, T!ProcessGone,
               T!Serve
<1>4. router' \subseteq T!Tunnels
  <2>1. CASE \E p \in T!Starters : T!Enter(p) \/ T!BringUp(p) \/ T!BringUpFails(p) \/ T!Insert(p)
    BY <1>1, <1>2, <2>1 DEF T!Enter, T!BringUp, T!BringUpFails, T!Insert
  <2>2. CASE router' \subseteq router
    BY <1>1, <2>2
  <2> QED  BY <2>1, <2>2
           DEF T!Next, T!Ask, T!Stop, T!Check, T!StopSeen, T!SuperviseFails, T!RestartDown,
               T!RestartUp, T!TearDown, T!Close, T!StopAll, T!End, T!EndRoughly, T!Serve
<1>5. dlCount' \in FaultCounts
  <2>1. CASE T!Fault \/ dlCount' = dlCount
    BY <1>1, <2>1, BudgetIs
  <2>2. CASE T!Close
    BY <1>1, <2>2, BudgetIs DEF T!Close
  <2> QED  BY <2>1, <2>2
           DEF T!Next, T!Ask, T!Stop, T!Check, T!Enter, T!BringUp, T!BringUpFails, T!Insert,
               T!StopSeen, T!SuperviseFails, T!RestartDown, T!RestartUp, T!TearDown, T!StopAll,
               T!End, T!EndRoughly, T!Serve
<1>6. \A p \in T!Starters : startJob'[p].tries \in Tries
  BY <1>1, TriesStep DEF TriesKept, TunMore, Tries, T!Attempts
<1> QED  BY <1>3, <1>4, <1>5, <1>6 DEF TunMore

LEMMA TunnelTypes == TunnelInv /\ TunMore => T!TypeOK
<1> SUFFICES ASSUME TunnelInv, TunMore PROVE T!TypeOK
  OBVIOUS
<1> DEFINE Counted == [at : {"idle", "check", "wait", "up", "insert"}, net : Nets \cup {T!None},
                       name : IfNames \cup {T!None}, made : T!Tunnels \cup {T!None},
                       tries : 0 .. T!Attempts]
<1>1. TunTyped
  BY DEF TunnelInv
<1>2. startJob \in [T!Starters -> Counted]
  <2>1. \A p \in T!Starters : startJob[p] \in Jobs /\ startJob[p].tries \in 0 .. T!Attempts
    BY <1>1 DEF TunTyped, GoodJobs, TunMore, Tries
  <2>2. \A p \in T!Starters : startJob[p] \in Counted
    BY <2>1, TunnelsAre DEF Jobs
  <2> QED  BY <1>1, <2>2 DEF TunTyped
<1>3. tun \in [T!Tunnels -> Tasks]
  BY <1>1 DEF TunTyped, GoodTasks
<1> QED  BY <1>1, <1>2, <1>3, TunnelsAre DEF T!TypeOK, TunTyped, TunMore, Tasks, FaultCounts

-----------------------------------------------------------------------------
\* The direct path: failures that are remembered, routes, and the budget.
Coolings == [end : D!Endpoint, age : {"none", "young", "due", "old"}]
PathCounts == [fail : 0 .. MaxFail, ledger : 0 .. MaxLedger]
PathMore == /\ enabled \in BOOLEAN /\ readable \in BOOLEAN /\ fresh \in BOOLEAN
            /\ cool \in Coolings /\ routes \subseteq Subnets /\ count \in PathCounts

LEMMA SizeIs == \A Z : /\ D!Cardinality(Z) = Cardinality(Z)
                       /\ D!IsFiniteSet(Z) <=> IsFiniteSet(Z)
<1>1. \A Z : D!Cardinality(Z) = Cardinality(Z)
  BY Zenon DEF D!Cardinality, Cardinality
<1>2. \A Z : D!IsFiniteSet(Z) <=> IsFiniteSet(Z)
  BY Zenon DEF D!IsFiniteSet, IsFiniteSet
<1> QED  BY <1>1, <1>2

LEMMA BoundsAre == MaxFail \in Nat /\ MaxLedger \in Nat /\ IsFiniteSet(Subnets)
BY HostAssumption, SizeIs DEF D!DirAssumption

LEMMA CoolingsAre ==
    ASSUME PathTyped, PathMore
    PROVE  /\ D!Cold \in Coolings /\ D!Kept \in Coolings
           /\ [end |-> D!Wanted, age |-> "young"] \in Coolings
BY WantedIs DEF D!Cold, D!Kept, Coolings, D!Endpoint, PathMore

\* How many calls failed is a number.
LEMMA FailuresAre ==
    ASSUME NEW n \in Nat, NEW r
    PROVE  D!Cardinality({i \in 1 .. n : ~r[i]}) \in Nat
<1>1. IsFiniteSet(1 .. n)
  BY FS_Interval
<1>2. IsFiniteSet({i \in 1 .. n : ~r[i]})
  BY <1>1, FS_Subset
<1> QED  BY <1>2, FS_CardinalityType, SizeIs

LEMMA CountedIs ==
    ASSUME count \in PathCounts, NEW n \in Nat, NEW r \in D!Outcomes(n), D!Counted(r)
    PROVE  count' \in PathCounts
<1> DEFINE c == D!Cardinality({i \in 1 .. n : ~r[i]})
<1>1. DOMAIN r = 1 .. n /\ c <= MaxFail - count.fail
  BY DEF D!Outcomes
<1>2. count' = [count EXCEPT !.fail = count.fail + c]
  BY <1>1 DEF D!Counted
<1>3. c \in Nat
  BY FailuresAre
<1> HIDE DEF c
<1>4. count.fail + c \in 0 .. MaxFail
  BY <1>1, <1>3, BoundsAre DEF PathCounts
<1> QED  BY <1>2, <1>4 DEF PathCounts

LEMMA PathMoveTypes ==
    ASSUME PathInv, PathMore, PathMoves
    PROVE  fresh' \in BOOLEAN /\ cool' \in Coolings /\ count' \in PathCounts
<1>1. PathTyped /\ fresh \in BOOLEAN /\ cool \in Coolings /\ count \in PathCounts
  BY DEF PathInv, PathMore
<1>2. /\ D!Cold \in Coolings /\ D!Kept \in Coolings
      /\ [end |-> D!Wanted, age |-> "young"] \in Coolings
  BY <1>1, CoolingsAre
<1>3. CASE D!Gone \/ D!Fail
  <2>1. PICK r \in D!Outcomes(1) : D!Forget(r[1]) /\ D!Counted(r)
    BY <1>3 DEF D!Gone, D!Fail
  <2>2. r[1] \in BOOLEAN /\ fresh' = (fresh /\ ~r[1])
    BY <2>1, OutcomeIs DEF D!Forget
  <2>3. fresh' \in BOOLEAN
    BY <2>2
  <2> QED  BY <1>1, <1>2, <1>3, <2>1, <2>3, CountedIs DEF D!Gone, D!Fail
<1>4. CASE D!Rebind
  <2>1. PICK r \in D!Outcomes(2) :
          /\ D!Probe(D!Wanted, FALSE, r[2], D!AfterRemove(r[1]), fresh /\ ~r[1], ~r[1])
          /\ D!Counted(r)
    BY <1>4 DEF D!Rebind
  <2>2. fresh' = (fresh /\ ~r[1]) /\ cool' = D!Cold
    BY <1>4, <2>1 DEF D!Probe, D!Rebind
  <2>3. fresh' \in BOOLEAN
    BY <2>2
  <2> QED  BY <1>1, <1>2, <2>1, <2>2, <2>3, CountedIs
<1>5. CASE D!Add
  <2>1. PICK r \in D!Outcomes(1) :
          D!Probe(D!Wanted, D!Kept.end = D!Wanted, r[1], dev, fresh, leaked) /\ D!Counted(r)
    BY <1>5 DEF D!Add
  <2>2. fresh' = fresh /\ cool' = D!Cold
    BY <1>5, <2>1 DEF D!Probe, D!Add
  <2> QED  BY <1>1, <1>2, <2>1, <2>2, CountedIs
<1>6. CASE D!Establish
  <2>1. PICK r \in D!Outcomes(1) : D!Counted(r) /\ cool' \in {D!Cold, D!Kept}
    BY <1>6 DEF D!Establish
  <2>2. fresh' = fresh
    BY <1>6 DEF D!Establish
  <2> QED  BY <1>1, <1>2, <2>1, <2>2, CountedIs
<1>7. CASE D!KeepPath
  BY <1>1, <1>2, <1>7 DEF D!KeepPath
<1> QED  BY <1>3, <1>4, <1>5, <1>6, <1>7 DEF PathMoves

LEMMA PathMoreKept == PathInv /\ PathMore /\ D!DirNext => PathMore'
<1> SUFFICES ASSUME PathInv, PathMore, D!DirNext PROVE PathMore'
  OBVIOUS
<1>1. /\ PathTyped /\ enabled \in BOOLEAN /\ readable \in BOOLEAN /\ fresh \in BOOLEAN
      /\ cool \in Coolings /\ routes \subseteq Subnets /\ count \in PathCounts
  BY DEF PathInv, PathMore
<1>2. CASE D!LedgerArrives
  <2>1. /\ count.ledger < MaxLedger /\ count' = [count EXCEPT !.ledger = count.ledger + 1]
        /\ UNCHANGED <<enabled, readable, fresh, cool, routes>>
    BY <1>2 DEF D!LedgerArrives, D!pathVars, D!hostVars
  <2>2. count' \in PathCounts
    BY <1>1, <2>1, BoundsAre DEF PathCounts
  <2> QED  BY <1>1, <2>1, <2>2 DEF PathMore
<1>3. CASE D!EndpointAges
  BY <1>1, <1>3 DEF D!EndpointAges, D!pathVars, D!hostVars, PathMore
<1>4. CASE D!Configure \/ D!Handshake
  <2>1. /\ enabled' \in {enabled, ~enabled} /\ readable' \in {readable, ~readable}
        /\ fresh' \in {fresh, ~fresh} /\ UNCHANGED <<cool, routes, count>>
    BY <1>4 DEF D!Configure, D!Handshake, D!pathVars, D!hostVars
  <2> QED  BY <1>1, <2>1 DEF PathMore
<1>5. CASE D!Elapse
  <2>1. /\ UNCHANGED <<enabled, readable, fresh, routes, count>>
        /\ \/ cool' = cool
           \/ cool' = [cool EXCEPT !.age = IF cool.age = "young" THEN "due" ELSE "old"]
    BY <1>5 DEF D!Elapse, D!hostVars
  <2>2. cool' \in Coolings
    BY <1>1, <2>1 DEF Coolings
  <2> QED  BY <1>1, <2>1, <2>2 DEF PathMore
<1>6. CASE D!TickDirect
  <2>1. PathMoves /\ UNCHANGED <<enabled, readable, routes>>
    BY <1>6 DEF D!TickDirect, PathMoves, D!hostVars
  <2> QED  BY <1>1, <2>1, PathMoveTypes DEF PathMore
<1>7. CASE D!TickRoutes
  <2> DEFINE Failures(r) == D!Cardinality({i \in 1 .. 2 : ~r[i]})
  <2>1. PICK failed \in SUBSET D!RouteCalls :
          /\ D!SyncRoutes(failed)
          /\ \/ \E r : count' = [count EXCEPT !.fail = count.fail + Failures(r)
                                                       + D!Cardinality(failed)]
             \/ count' = [count EXCEPT !.fail = count.fail + D!Cardinality(failed)]
    BY <1>7 DEF D!TickRoutes
  <2>2. count'.fail <= MaxFail /\ UNCHANGED <<enabled, readable, fresh, cool>>
    BY <1>7 DEF D!TickRoutes, D!pathVars
  <2>3. D!Cardinality(failed) \in Nat
    <3>1. failed \subseteq Subnets
      BY <1>1, <2>1 DEF D!RouteCalls, PathTyped, D!Ledger
    <3> QED  BY <3>1, BoundsAre, FS_Subset, FS_CardinalityType, SizeIs
  <2>4. \A r : Failures(r) \in Nat
    BY FailuresAre
  <2> HIDE DEF Failures
  <2>5. PICK k \in Nat : count' = [count EXCEPT !.fail = k]
    <3>1. count.fail \in Nat
      BY <1>1 DEF PathCounts
    <3> QED  BY <2>1, <2>3, <2>4, <3>1
  <2>6. count' \in PathCounts
    BY <1>1, <2>2, <2>5, BoundsAre DEF PathCounts
  <2>7. routes' \subseteq Subnets
    BY <2>1 DEF D!SyncRoutes
  <2> QED  BY <1>1, <2>2, <2>6, <2>7 DEF PathMore
<1> QED  BY <1>2, <1>3, <1>4, <1>5, <1>6, <1>7 DEF D!DirNext

LEMMA PathTypes == PathInv /\ PathMore => D!DirTypeOK
BY DEF PathInv, PathTyped, PathMore, D!DirTypeOK, PathPhases, Coolings, PathCounts

-----------------------------------------------------------------------------
\* In the beginning every part has its type.
LEMMA MoreInit == HostInit => RequestsMore /\ SessionMore /\ TunMore /\ PathMore
<1> SUFFICES ASSUME HostInit PROVE RequestsMore /\ SessionMore /\ TunMore /\ PathMore
  OBVIOUS
<1>1. R!Init /\ S!Init /\ T!Init /\ D!DirInit
  BY DEF HostInit
<1>2. RequestsMore
  <2>1. /\ reqFile.here = First /\ reqFile.waiting = {} /\ reqFile.admin = {}
        /\ reqFile.invite = {} /\ reqFile.subnet = {}
    BY <1>1 DEF R!Init
  <2>2. /\ job["daemon"].at = "idle" /\ job["ui"].at = "idle" /\ ver = 0 /\ ops = 0
        /\ \A m \in Askers : after[m] = 0
    BY <1>1, RequestsAre DEF R!Init, R!Idle
  <2>3. MaxOps \in Nat
    BY HostAssumption DEF R!RequestsAssumption
  <2> QED  BY <2>1, <2>2, <2>3 DEF RequestsMore, WithinHere, BusySide
<1>3. SessionMore
  <2>1. /\ noticed = FALSE /\ cut = FALSE /\ rtt = FALSE /\ link = 0 /\ opened = 0
        /\ ledger = S!NoLedger /\ ended = "no" /\ down = [n \in S!Conns |-> << >>]
        /\ sessConn = [n \in S!Conns |-> S!NoConn]
    BY <1>1 DEF S!Init
  <2>2. RoomFor("none") = 0
    BY WireIs DEF Unserved
  <2>3. WireTyped
    <3>1. \A n \in S!Conns : /\ down[n] = << >> /\ Len(down[n]) = 0
                             /\ sessConn[n].at = "none"
      BY <2>1, SessionIs
    <3>2. down \in [S!Conns -> Seq(Words)]
      BY <2>1
    <3> QED  BY <2>2, <3>1, <3>2 DEF WireTyped
  <2>4. noticed \in BOOLEAN /\ cut \in BOOLEAN /\ rtt \in BOOLEAN
    BY <2>1
  <2>5. ledger \in [rev : 0 .. MaxRev, st : S!Statuses]
    BY <2>1, WordsAre
  <2>6. link \in 0 .. MaxConns /\ ended \in {"no", "removed", "rejected"}
    BY <2>1, SessionIs
  <2> QED  BY <2>3, <2>4, <2>5, <2>6 DEF SessionMore
<1>4. TunMore
  <2>1. tableLock = "free" /\ router = {} /\ dlCount = [fault |-> 0, ends |-> 0]
    BY <1>1 DEF T!Init
  <2>2. PICK r \in T!Recovery(book) :
          startJob = [p \in T!Starters |-> IF p = "auto" THEN r ELSE T!NoJob]
    BY <1>1 DEF T!Init
  <2>3. r.tries = 0 /\ T!NoJob.tries = 0
    BY <2>2, UntriedIs DEF T!NoJob
  <2>4. \A p \in T!Starters : startJob[p].tries = 0
    BY <2>2, <2>3
  <2>5. dlCount \in FaultCounts
    BY <2>1, HostAssumption DEF FaultCounts, T!LifecycleAssumption
  <2> QED  BY <2>1, <2>4, <2>5 DEF TunMore, Tries, T!Attempts
<1>5. PathMore
  <2>1. cool \in Coolings /\ count \in PathCounts
    BY <1>1, BoundsAre DEF D!DirInit, D!Cold, Coolings, D!Endpoint, PathCounts
  <2> QED  BY <1>1, <2>1 DEF D!DirInit, PathMore
<1> QED  BY <1>2, <1>3, <1>4, <1>5

\* Every part of the host's run has its type, for any number of members, connections,
\* tunnels and faults: the file passes Config::validate (ConfigFile), what is on the
\* wire of a connection is bounded by its place (host_writer), a start is tried three
\* times at most (recover_one_autostart), and rights are those of members.
THEOREM HostTypes == HostSpec => []HostTypeOK
<1> DEFINE Typed == /\ Inv /\ RequestInv /\ RequestsMore /\ SessionInv /\ SessionMore
                    /\ TunnelInv /\ TunMore /\ PathInv /\ PathMore
<1>1. RequestInv /\ RequestsMore /\ (R!Next \/ UNCHANGED requestsState)
        => (RequestInv /\ RequestsMore)'
  BY RequestKeeps, RequestStays, RequestsCount
<1>2. SessionInv /\ SessionMore /\ (S!Next \/ UNCHANGED sessionState)
        => (SessionInv /\ SessionMore)'
  <2> SUFFICES ASSUME SessionInv, SessionMore, UNCHANGED sessionState
               PROVE  (SessionInv /\ SessionMore)'
    BY SessionKeeps, SessionWire
  <2>1. UNCHANGED <<sessFile, needs, tick, dist, noticed, cut, sessConn, reg, rtt, down,
                    link, opened, ledger, ended>>
    BY DEF sessionState
  <2>2. SessionMore'
    BY <2>1 DEF SessionMore, WireTyped
  <2> QED  BY <2>1, <2>2 DEF SessionInv, SessionTyped, InRegistry, Awaiting, AcceptedApart,
                             S!WindowCloses
<1>3. TunnelInv /\ TunMore /\ (T!Next \/ UNCHANGED tunnelsState) => (TunnelInv /\ TunMore)'
  <2> SUFFICES ASSUME TunnelInv, TunMore, UNCHANGED tunnelsState PROVE (TunnelInv /\ TunMore)'
    BY TunnelKeeps, TunnelsMore
  <2>1. UNCHANGED <<serving, table, tableLock, startJob, tun, nextTunnel, kernel, router,
                    book, raced, rough, dlCount>>
    BY DEF tunnelsState
  <2>2. TunTyped' /\ TunMore'
    BY <2>1 DEF TunnelInv, TunTyped, TunMore
  <2> QED  BY <2>1, <2>2 DEF TunnelInv, Starting, Numbered, Apart, Owned, Alone, Calm
<1>4. PathInv /\ PathMore /\ (D!DirNext \/ UNCHANGED directState) => (PathInv /\ PathMore)'
  <2> SUFFICES ASSUME PathInv, PathMore, UNCHANGED directState PROVE (PathInv /\ PathMore)'
    BY DirectKeeps, PathMoreKept
  <2> QED  BY DEF directState, PathInv, PathTyped, CycleLedger, D!RelayKept, D!HostPeerRetried,
                  PathMore
<1>5. Typed /\ [HostNext]_allVars => Typed'
  <2> SUFFICES ASSUME Typed, [HostNext]_allVars PROVE Typed'
    OBVIOUS
  <2>1. /\ [Next]_vars /\ (R!Next \/ UNCHANGED requestsState)
        /\ S!Next \/ UNCHANGED sessionState
        /\ T!Next \/ UNCHANGED tunnelsState
        /\ D!DirNext \/ UNCHANGED directState
    BY DEF HostNext, EditsStep, RequestsStep, SessionStep, TunnelsStep, DirectStep, allVars
  <2> QED  BY <1>1, <1>2, <1>3, <1>4, <2>1, StepInv
<1>6. HostInit => Typed
  <2> QED  BY PathInit, InitInv, RequestInit, SessionInit, TunnelInit, MoreInit DEF HostInit
<1>7. Typed => HostTypeOK
  BY RequestsTypes, SessionTypes, TunnelTypes, PathTypes DEF HostTypeOK, Inv
<1> QED  BY <1>5, <1>6, <1>7, PTL DEF HostSpec
=============================================================================
