--------------------------- MODULE PeerSyncProofs ---------------------------
(***************************************************************************)
(* Proofs about PeerSync for any number of addresses, keys, versions,      *)
(* failing device calls and restarts.  The properties speak of a tick that *)
(* has ended or of one of its passes; the invariants say what holds in     *)
(* between, while members and administrators change the file the tick is   *)
(* not looking at any more.                                                *)
(***************************************************************************)
EXTENDS PeerSync, FiniteSetTheorems, TLAPS

CfgKeys == {cfg[a].key : a \in {b \in Addrs : cfg[b] # NoPeer}}

\* A key is generated once: whatever names one names a key generated before,
\* and no two addresses have the same.
KeysGenerated ==
    /\ CfgKeys \cup expired \cup DOMAIN known \cup DOMAIN snap \subseteq 1 .. gen
    /\ \A a \in Addrs : {owner[a], hello[a], conn[a]} \subseteq 0 .. gen
    /\ \A a, b \in Addrs : (cfg[a] # NoPeer /\ cfg[b] # NoPeer /\ cfg[a].key = cfg[b].key)
                              => a = b

\* What the supervisor believes of a peer the device has is true.
AccountTrue ==
    /\ NothingForgotten
    /\ \A k \in DOMAIN device : device[k] = known[k]

\* The peers of one load of the file have an address each; between ticks
\* nothing is kept of it.
SnapApart ==
    /\ \A k, l \in DOMAIN snap : snap[k].addr = snap[l].addr => k = l
    /\ pc = "idle" => snap = <<>>

-----------------------------------------------------------------------------
(* Gone in two ticks.                                                      *)

\* A peer to be removed is as old as calls failed, one more when its first
\* removal cycle is over, and one more while a tick is on.
AgeBound ==
    /\ \A k \in DOMAIN device :
          age[k] <= fails + (IF k \in pending THEN 1 ELSE 0)
                          + (IF pc = "idle" \/ k \in DOMAIN snap THEN 0 ELSE 1)
    /\ pc # "idle" => \A k \in DOMAIN snap : age[k] = 0

-----------------------------------------------------------------------------
(* Announced first.                                                        *)

\* What a tick passes over cannot become eligible again by a later one, unless
\* its invite had run out.
Lost(k) == k \in expired \/ k \notin CfgKeys

PassedOver ==
    /\ \A k \in pending : Lost(k)
    /\ pc # "idle" => \A k \in DOMAIN known \ DOMAIN snap : Lost(k)

PendingAnnounced == pending \subseteq noticed \cup expired

-----------------------------------------------------------------------------
(* One peer per address, as long as no call has failed.                    *)

SwappedOut ==
    (fails = 0 /\ pc \in {"add", "remove"}) =>
        \A k \in DOMAIN known \ DOMAIN snap : known[k].addr \notin AddrsOf(snap)

-----------------------------------------------------------------------------
(* Only those who are gone are told so.                                    *)

\* A key at an address is that of the member there now, or of one who is gone.
Belongs(a, k) ==
    \/ who[k] \in gone
    \/ cfg[a] # NoPeer /\ who[cfg[a].key] = who[k]

MembersTrue ==
    /\ \A k \in expired : who[k] \in gone
    /\ \A k \in DOMAIN snap : Belongs(snap[k].addr, k)
    /\ \A a \in Addrs : \A k \in {owner[a], hello[a], conn[a]} \ {NoKey} : Belongs(a, k)

\* Whoever is still connected at an address the tick has no peer for is gone.
LeftBehind ==
    pc # "idle" =>
        \A a \in Addrs \ AddrsOf(snap) :
            \A k \in {owner[a], hello[a], conn[a]} \ {NoKey} : who[k] \in gone

Inv == TypeOK /\ KeysGenerated /\ AccountTrue /\ SnapApart /\ AgeBound /\ PassedOver
         /\ PendingAnnounced /\ SwappedOut /\ OnePeerPerAddress /\ MembersTrue /\ LeftBehind
         /\ NoFalseNotice

-----------------------------------------------------------------------------
(* Maps of peers.                                                          *)

LEMMA MapIs ==
    ASSUME NEW m \in PeerMaps
    PROVE  /\ DOMAIN m \in SUBSET Keys /\ m \in [DOMAIN m -> Specs]
           /\ \A k \in DOMAIN m : m[k] \in Specs /\ m[k].addr \in Addrs
BY DEF PeerMaps, Specs

LEMMA MapBy ==
    ASSUME NEW D \in SUBSET Keys, NEW m \in [D -> Specs]
    PROVE  m \in PeerMaps /\ DOMAIN m = D
BY DEF PeerMaps

LEMMA NoMap == <<>> \in PeerMaps /\ DOMAIN <<>> = {}
<1>1. <<>> \in [{} -> Specs]
  OBVIOUS
<1> QED  BY <1>1, MapBy

\* n is m without the peers of S; n is m with the peers of S put in as in s.
Without(m, n, S) ==
    /\ n \in PeerMaps /\ DOMAIN n = DOMAIN m \ S
    /\ \A k \in DOMAIN n : n[k] = m[k]
With(m, n, s, S) ==
    /\ n \in PeerMaps /\ DOMAIN n = DOMAIN m \cup S
    /\ \A k \in DOMAIN n : n[k] = IF k \in S THEN s[k] ELSE m[k]

LEMMA DroppedIs ==
    ASSUME NEW m \in PeerMaps, NEW S
    PROVE  Without(m, Dropped(m, S), S)
<1>1. Dropped(m, S) = [k \in DOMAIN m \ S |-> m[k]]
  BY DEF Dropped, Restrict
<1>2. DOMAIN m \ S \in SUBSET Keys /\ Dropped(m, S) \in [DOMAIN m \ S -> Specs]
  BY <1>1, MapIs
<1> QED  BY <1>1, <1>2, MapBy DEF Without

LEMMA AddedIs ==
    ASSUME NEW m \in PeerMaps, NEW s \in PeerMaps, NEW S \in SUBSET DOMAIN s
    PROVE  With(m, Added(m, Restrict(s, S)), s, S)
<1> DEFINE n == Added(m, Restrict(s, S))
<1>1. Restrict(s, S) = [k \in S |-> s[k]]
  BY DEF Restrict
<1>2. n = [k \in DOMAIN m \cup S |-> IF k \in S THEN s[k] ELSE m[k]]
  BY <1>1 DEF Added
<1> HIDE DEF n
<1>3. DOMAIN m \cup S \in SUBSET Keys /\ n \in [DOMAIN m \cup S -> Specs]
  <2>1. \A k \in S : s[k] \in Specs /\ k \in Keys
    BY MapIs
  <2>2. \A k \in DOMAIN m : m[k] \in Specs /\ k \in Keys
    BY MapIs
  <2> QED  BY <1>2, <2>1, <2>2
<1>4. With(m, n, s, S)
  BY <1>2, <1>3, MapBy DEF With
<1> QED  BY <1>4 DEF n

\* Calls that fail are counted.
LEMMA FailingIs ==
    ASSUME fails \in 0 .. MaxFail, NEW S \in SUBSET Keys, NEW F \in Failing(S)
    PROVE  /\ F \subseteq S /\ fails + Cardinality(F) \in 0 .. MaxFail
           /\ fails + Cardinality(F) >= fails
           /\ fails + Cardinality(F) = 0 => fails = 0 /\ F = {}
           /\ F # {} => fails + Cardinality(F) >= fails + 1
<1>1. IsFiniteSet(Keys)
  BY FS_Interval, SyncAssumption DEF Keys
<1>2. F \in SUBSET Keys /\ F \subseteq S /\ fails + Cardinality(F) <= MaxFail
  BY DEF Failing
<1>3. IsFiniteSet(F)
  BY <1>1, <1>2, FS_Subset
<1>4. Cardinality(F) \in Nat /\ (Cardinality(F) = 0 <=> F = {})
  BY <1>3, FS_CardinalityType, FS_EmptySet
<1> QED  BY <1>2, <1>4, SyncAssumption

\* The peers that may connect, by the file: build_spec.
LEMMA WantedIs ==
    ASSUME TypeOK
    PROVE  /\ Wanted \in PeerMaps
           /\ DOMAIN Wanted = {cfg[a].key : a \in {b \in Addrs : Eligible(b)}}
           /\ DOMAIN Wanted \subseteq CfgKeys
           /\ \A k \in DOMAIN Wanted :
                 /\ cfg[Wanted[k].addr] # NoPeer /\ cfg[Wanted[k].addr].key = k
<1> DEFINE D == {cfg[a].key : a \in {b \in Addrs : Eligible(b)}}
           At(k) == CHOOSE b \in Addrs : cfg[b] # NoPeer /\ cfg[b].key = k
<1>1. Wanted = [k \in D |-> [addr |-> At(k), ver |-> cfg[At(k)].ver]]
  BY DEF Wanted
<1>2. ASSUME NEW k \in D
      PROVE  /\ At(k) \in Addrs /\ cfg[At(k)] # NoPeer /\ cfg[At(k)].key = k
             /\ k \in CfgKeys
  <2>1. \E b \in Addrs : cfg[b] # NoPeer /\ cfg[b].key = k
    BY DEF Eligible
  <2>2. At(k) \in Addrs /\ cfg[At(k)] # NoPeer /\ cfg[At(k)].key = k
    BY <2>1
  <2> QED  BY <2>1, <2>2 DEF CfgKeys
<1>3. ASSUME NEW a \in Addrs, cfg[a] # NoPeer
      PROVE  cfg[a].key \in Keys /\ cfg[a].ver \in 1 .. MaxVer
  BY <1>3 DEF TypeOK, Entries
<1>4. ASSUME NEW k \in D PROVE [addr |-> At(k), ver |-> cfg[At(k)].ver] \in Specs /\ k \in Keys
  <2> HIDE DEF At, D
  <2> QED  BY <1>2, <1>3 DEF Specs
<1> HIDE DEF D, At
<1>5. Wanted \in [D -> Specs] /\ D \in SUBSET Keys
  BY <1>1, <1>4
<1>6. Wanted \in PeerMaps /\ DOMAIN Wanted = D
  BY <1>5, MapBy
<1>7. \A k \in D : Wanted[k].addr = At(k)
  BY <1>1
<1> QED  BY <1>2, <1>6, <1>7 DEF D

-----------------------------------------------------------------------------
(* What the passes of a tick do.                                           *)

\* The calls for the peers of F fail.
CallsFail(F) ==
    /\ fails' \in 0 .. MaxFail /\ fails' >= fails
    /\ fails' = 0 => fails = 0 /\ F = {}
    /\ F # {} => fails' >= fails + 1

\* The peers of S leave the device, its account and the addresses they have.
TakesOut(S) ==
    /\ Without(device, device', S) /\ Without(known, known', S)
    /\ owner' = Released(owner, S)

RotatedOut == {k \in Absent : known[k].addr \in AddrsOf(snap)}
FirstCycle == Absent \ pending
SecondCycle == Absent \cap pending

LEMMA ReleasedIs ==
    ASSUME TypeOK, NEW S
    PROVE  /\ Released(owner, S) \in [Addrs -> Keys \cup {NoKey}]
           /\ \A a \in Addrs : Released(owner, S)[a] \in {owner[a], NoKey}
BY DEF Released, TypeOK

LEMMA SwapFacts ==
    ASSUME TypeOK, SwapOut
    PROVE  \E F \in SUBSET RotatedOut :
              /\ pc = "swap" /\ pc' = "add" /\ CallsFail(F) /\ TakesOut(RotatedOut \ F)
              /\ pending' = pending \ (RotatedOut \ F)
              /\ UNCHANGED <<file, sessions, snap, restarts, told, noticed, age>>
<1>1. device \in PeerMaps /\ known \in PeerMaps /\ fails \in 0 .. MaxFail
  BY DEF TypeOK
<1>2. RotatedOut \in SUBSET Keys
  BY <1>1, MapIs DEF RotatedOut, Absent
<1>3. PICK F \in Failing(RotatedOut) :
        /\ device' = Dropped(device, RotatedOut \ F)
        /\ owner' = Released(owner, RotatedOut \ F)
        /\ known' = Dropped(known, RotatedOut \ F)
        /\ pending' = pending \ (RotatedOut \ F)
        /\ fails' = fails + Cardinality(F)
  BY Zenon DEF SwapOut, RotatedOut
<1>4. CallsFail(F) /\ F \in SUBSET RotatedOut
  BY <1>1, <1>2, <1>3, FailingIs DEF CallsFail
<1>5. TakesOut(RotatedOut \ F)
  BY <1>1, <1>3, DroppedIs DEF TakesOut
<1> QED  BY <1>3, <1>4, <1>5 DEF SwapOut

LEMMA RemoveFacts ==
    ASSUME TypeOK, RemoveGone
    PROVE  \E F \in SUBSET SecondCycle :
              /\ pc = "remove" /\ pc' = "idle" /\ CallsFail(F)
              /\ TakesOut(SecondCycle \ F)
              /\ pending' = (pending \cup FirstCycle) \ (SecondCycle \ F)
              /\ noticed' = noticed \cup FirstCycle /\ snap' = <<>>
              /\ told' = told \cup
                   {who[conn[a]] : a \in {b \in Addrs : /\ conn[b] # NoKey
                                            /\ \E k \in FirstCycle : known[k].addr = b}}
              /\ UNCHANGED <<file, sessions, restarts, age>>
<1>1. device \in PeerMaps /\ known \in PeerMaps /\ fails \in 0 .. MaxFail
  BY DEF TypeOK
<1>2. SecondCycle \in SUBSET Keys
  BY <1>1, MapIs DEF SecondCycle, Absent
<1>3. PICK F \in Failing(SecondCycle) :
        /\ device' = Dropped(device, SecondCycle \ F)
        /\ owner' = Released(owner, SecondCycle \ F)
        /\ known' = Dropped(known, SecondCycle \ F)
        /\ pending' = (pending \cup FirstCycle) \ (SecondCycle \ F)
        /\ fails' = fails + Cardinality(F)
  BY Zenon DEF RemoveGone, SecondCycle, FirstCycle
<1>4. CallsFail(F) /\ F \in SUBSET SecondCycle
  BY <1>1, <1>2, <1>3, FailingIs DEF CallsFail
<1>5. TakesOut(SecondCycle \ F)
  BY <1>1, <1>3, DroppedIs DEF TakesOut
<1> QED  BY <1>3, <1>4, <1>5 DEF RemoveGone, FirstCycle

\* The peers of done are put in as loaded, those of cut are only taken out.
PutIn(done, cut) ==
    /\ \E n \in PeerMaps : Without(device, n, cut) /\ With(n, device', snap, done)
    /\ With(known, known', snap, done)

LEMMA AddFacts ==
    ASSUME TypeOK, AddOrChange
    PROVE  \E done \in SUBSET DOMAIN snap, cut \in SUBSET DOMAIN snap, F \in SUBSET Keys :
              /\ pc = "add" /\ pc' = "remove" /\ CallsFail(F)
              /\ \A k \in DOMAIN snap \ (done \cup F) : k \in DOMAIN known /\ known[k] = snap[k]
              /\ cut \subseteq F
              /\ PutIn(done, cut)
              /\ owner' \in [Addrs -> Keys \cup {NoKey}]
              /\ \A a \in Addrs : \/ owner'[a] \in {owner[a], NoKey}
                                  \/ owner'[a] \in done /\ snap[owner'[a]].addr = a
              /\ UNCHANGED <<file, sessions, pending, snap, restarts, told, noticed, age>>
<1> DEFINE changed == {k \in DOMAIN snap \cap DOMAIN known : known[k] # snap[k]}
           new == DOMAIN snap \ DOMAIN known
<1>1. device \in PeerMaps /\ known \in PeerMaps /\ snap \in PeerMaps /\ fails \in 0 .. MaxFail
  BY DEF TypeOK
<1>2. new \cup changed \in SUBSET Keys
  BY <1>1, MapIs
<1>3. PICK F \in Failing(new \cup changed) : \E cut \in SUBSET (F \cap changed) :
        /\ device' = Added(Dropped(device, cut), Restrict(snap, (new \cup changed) \ F))
        /\ owner' = [a \in Addrs |-> IF a \in {snap[k].addr : k \in (new \cup changed) \ F}
                         THEN CHOOSE k \in (new \cup changed) \ F : snap[k].addr = a
                         ELSE Released(owner, cut)[a]]
        /\ known' = Added(known, Restrict(snap, (new \cup changed) \ F))
        /\ fails' = fails + Cardinality(F)
  BY Zenon DEF AddOrChange
<1> DEFINE done == (new \cup changed) \ F
<1>4. PICK cut \in SUBSET (F \cap changed) :
        /\ device' = Added(Dropped(device, cut), Restrict(snap, done))
        /\ owner' = [a \in Addrs |-> IF a \in {snap[k].addr : k \in done}
                         THEN CHOOSE k \in done : snap[k].addr = a
                         ELSE Released(owner, cut)[a]]
        /\ known' = Added(known, Restrict(snap, done))
        /\ fails' = fails + Cardinality(F)
  BY <1>3
<1>5. CallsFail(F) /\ F \in SUBSET Keys /\ F \subseteq new \cup changed
  BY <1>4, <1>1, <1>2, FailingIs DEF CallsFail
<1>6. /\ done \in SUBSET DOMAIN snap /\ cut \in SUBSET DOMAIN snap
      /\ cut \subseteq F
  OBVIOUS
<1>7. \A k \in DOMAIN snap \ (done \cup F) : k \in DOMAIN known /\ known[k] = snap[k]
  OBVIOUS
<1> HIDE DEF done, changed, new
<1>8. \E n \in PeerMaps : Without(device, n, cut) /\ With(n, device', snap, done)
  <2>1. Without(device, Dropped(device, cut), cut)
    BY <1>1, DroppedIs
  <2>2. Dropped(device, cut) \in PeerMaps
    BY <2>1 DEF Without
  <2>3. With(Dropped(device, cut), device', snap, done)
    BY <1>1, <1>4, <1>6, <2>2, AddedIs
  <2> QED  BY <2>1, <2>2, <2>3
<1>9. With(known, known', snap, done)
  BY <1>1, <1>4, <1>6, AddedIs
<1>10. \A a \in Addrs : \/ owner'[a] \in {owner[a], NoKey}
                        \/ owner'[a] \in done /\ snap[owner'[a]].addr = a
  BY <1>4, ReleasedIs
<1>11. owner' \in [Addrs -> Keys \cup {NoKey}]
  <2>1. \A a \in Addrs : owner'[a] \in Keys \cup {NoKey}
    BY <1>1, <1>6, <1>10, MapIs DEF TypeOK
  <2> QED  BY <1>4, <2>1
<1>12. /\ pc = "add" /\ pc' = "remove"
       /\ UNCHANGED <<file, sessions, pending, snap, restarts, told, noticed, age>>
  BY DEF AddOrChange
<1> QED  BY <1>5, <1>6, <1>7, <1>8, <1>9, <1>10, <1>11, <1>12 DEF PutIn

-----------------------------------------------------------------------------
(* Types.                                                                  *)

\* A table entry with one field replaced is an entry.
LEMMA EntryIs ==
    ASSUME TypeOK, NEW a \in Addrs, cfg[a] # NoPeer
    PROVE  /\ cfg[a].key \in Keys /\ cfg[a].ver \in 1 .. MaxVer
           /\ \A k \in Keys : [cfg[a] EXCEPT !.key = k] \in Entries
           /\ \A v \in 1 .. MaxVer : [cfg[a] EXCEPT !.ver = v] \in Entries
           /\ [cfg[a] EXCEPT !.joined = TRUE] \in Entries
<1>1. cfg[a] \in [key : Keys, ver : 1 .. MaxVer, joined : BOOLEAN]
  BY DEF TypeOK, Entries
<1>2. \A k \in Keys : [cfg[a] EXCEPT !.key = k] \in Entries
  BY <1>1 DEF Entries
<1>3. \A v \in 1 .. MaxVer : [cfg[a] EXCEPT !.ver = v] \in Entries
  BY <1>1 DEF Entries
<1>4. [cfg[a] EXCEPT !.joined = TRUE] \in Entries
  BY <1>1 DEF Entries
<1> QED  BY <1>1, <1>2, <1>3, <1>4

LEMMA EditType == ASSUME TypeOK, Edit PROVE TypeOK'
<1> USE DEF Unsynced, account, sessions
<1>1. ASSUME NEW a \in Addrs, Append(a) PROVE TypeOK'
  <2>1. gen' \in 0 .. MaxKey /\ gen + 1 \in Keys
    BY <1>1, SyncAssumption DEF Append, TypeOK, Keys
  <2>2. [key |-> gen + 1, ver |-> 1, joined |-> FALSE] \in Entries
    BY <2>1, SyncAssumption DEF Entries
  <2>3. cfg' \in [Addrs -> Entries]
    BY <1>1, <2>2 DEF Append, TypeOK
  <2> QED  BY <1>1, <2>1, <2>3 DEF Append, TypeOK
<1>2. ASSUME NEW a \in Addrs, Remove(a) PROVE TypeOK'
  <2>1. cfg' \in [Addrs -> Entries]
    BY <1>2 DEF Remove, TypeOK, Entries
  <2>2. gone' \subseteq Keys
    BY <1>2, EntryIs DEF Remove, TypeOK
  <2> QED  BY <1>2, <2>1, <2>2 DEF Remove, TypeOK
<1>3. ASSUME NEW a \in Addrs, Rotate(a) PROVE TypeOK'
  <2>1. gen' \in 0 .. MaxKey /\ gen + 1 \in Keys
    BY <1>3, SyncAssumption DEF Rotate, TypeOK, Keys
  <2>2. cfg' \in [Addrs -> Entries]
    BY <1>3, <2>1, EntryIs DEF Rotate, TypeOK
  <2>3. who' \in [Keys -> Keys] /\ expired' \subseteq Keys
    BY <1>3, <2>1, EntryIs DEF Rotate, TypeOK
  <2> QED  BY <1>3, <2>1, <2>2, <2>3 DEF Rotate, TypeOK
<1>4. ASSUME NEW a \in Addrs, Change(a) PROVE TypeOK'
  <2>1. cfg[a].ver + 1 \in 1 .. MaxVer
    <3>1. cfg[a].ver \in 1 .. MaxVer /\ cfg[a].ver < MaxVer
      BY <1>4, EntryIs DEF Change
    <3> QED  BY <3>1, SyncAssumption
  <2>2. cfg' \in [Addrs -> Entries]
    BY <1>4, <2>1, EntryIs DEF Change, TypeOK
  <2> QED  BY <1>4, <2>2 DEF Change, TypeOK
<1>5. ASSUME NEW a \in Addrs, Expire(a) PROVE TypeOK'
  <2>1. expired' \subseteq Keys /\ gone' \subseteq Keys
    BY <1>5, EntryIs DEF Expire, TypeOK
  <2> QED  BY <1>5, <2>1 DEF Expire, TypeOK
<1> QED  BY <1>1, <1>2, <1>3, <1>4, <1>5 DEF Edit

LEMMA SessionType == ASSUME TypeOK, Session PROVE TypeOK'
<1> USE DEF Unsynced, account, file
<1>1. ASSUME NEW a \in Addrs, Hello(a) PROVE TypeOK'
  <2>1. hello' \in [Addrs -> Keys \cup {NoKey}] /\ invite' \in [Addrs -> Keys \cup {NoKey}]
    BY <1>1, EntryIs DEF Hello, Eligible, TypeOK
  <2> QED  BY <1>1, <2>1 DEF Hello, TypeOK
<1>2. ASSUME NEW a \in Addrs, Register(a) PROVE TypeOK'
  <2>1. hello' \in [Addrs -> Keys \cup {NoKey}] /\ invite' \in [Addrs -> Keys \cup {NoKey}]
    BY <1>2 DEF Register, TypeOK
  <2>2. CASE Accepted(a)
    <3>1. cfg' \in [Addrs -> Entries]
      BY <1>2, <2>2, EntryIs DEF Register, TypeOK, Accepted
    <3>2. conn' \in [Addrs -> Keys \cup {NoKey}]
      BY <1>2, <2>2 DEF Register, TypeOK
    <3> QED  BY <1>2, <2>1, <3>1, <3>2 DEF Register, TypeOK
  <2>3. CASE ~Accepted(a)
    BY <1>2, <2>1, <2>3 DEF Register, TypeOK
  <2> QED  BY <2>2, <2>3
<1>3. ASSUME NEW a \in Addrs, Disconnect(a) PROVE TypeOK'
  BY <1>3 DEF Disconnect, TypeOK
<1> QED  BY <1>1, <1>2, <1>3 DEF Session

LEMMA TickType == ASSUME TypeOK, Tick PROVE TypeOK'
<1> USE DEF file, sessions, account
<1>1. CASE StartTick
  <2>1. age' \in [Keys -> Nat]
    BY <1>1 DEF StartTick, TypeOK
  <2> QED  BY <1>1, <2>1, WantedIs DEF StartTick, TypeOK
<1>2. CASE SwapOut
  <2>1. PICK F \in SUBSET RotatedOut :
              /\ pc' = "add" /\ CallsFail(F) /\ TakesOut(RotatedOut \ F)
              /\ pending' = pending \ (RotatedOut \ F)
              /\ UNCHANGED <<file, sessions, snap, restarts, told, noticed, age>>
    BY <1>2, SwapFacts
  <2>2. device' \in PeerMaps /\ known' \in PeerMaps /\ owner' \in [Addrs -> Keys \cup {NoKey}]
    BY <2>1, ReleasedIs DEF TakesOut, Without
  <2> QED  BY <2>1, <2>2 DEF TypeOK, CallsFail
<1>3. CASE AddOrChange
  <2>1. PICK done \in SUBSET DOMAIN snap, cut \in SUBSET DOMAIN snap, F \in SUBSET Keys :
              /\ pc' = "remove" /\ CallsFail(F) /\ PutIn(done, cut)
              /\ owner' \in [Addrs -> Keys \cup {NoKey}]
              /\ UNCHANGED <<file, sessions, pending, snap, restarts, told, noticed, age>>
    BY <1>3, AddFacts
  <2>2. device' \in PeerMaps /\ known' \in PeerMaps
    BY <2>1 DEF PutIn, With
  <2> QED  BY <2>1, <2>2 DEF TypeOK, CallsFail
<1>4. CASE RemoveGone
  <2>1. PICK F \in SUBSET SecondCycle :
              /\ pc' = "idle" /\ CallsFail(F) /\ TakesOut(SecondCycle \ F)
              /\ pending' = (pending \cup FirstCycle) \ (SecondCycle \ F)
              /\ noticed' = noticed \cup FirstCycle /\ snap' = <<>>
              /\ told' = told \cup
                   {who[conn[a]] : a \in {b \in Addrs : /\ conn[b] # NoKey
                                            /\ \E k \in FirstCycle : known[k].addr = b}}
              /\ UNCHANGED <<file, sessions, restarts, age>>
    BY <1>4, RemoveFacts
  <2>2. device' \in PeerMaps /\ known' \in PeerMaps /\ owner' \in [Addrs -> Keys \cup {NoKey}]
    BY <2>1, ReleasedIs DEF TakesOut, Without
  <2>3. FirstCycle \subseteq Keys
    BY MapIs DEF FirstCycle, Absent, TypeOK
  <2>4. told' \subseteq Keys
    BY <2>1 DEF TypeOK
  <2> QED  BY <2>1, <2>2, <2>3, <2>4, NoMap DEF TypeOK, CallsFail
<1> QED  BY <1>1, <1>2, <1>3, <1>4 DEF Tick

LEMMA RestartType == ASSUME TypeOK, Restart PROVE TypeOK'
<1> USE DEF file, sessions, account
<1>1. owner' \in [Addrs -> Keys \cup {NoKey}]
  <2>1. owner' = OwnerIn(Wanted) /\ DOMAIN Wanted \subseteq Keys
    BY WantedIs, MapIs DEF Restart
  <2> QED  BY <2>1 DEF OwnerIn
<1>2. age' \in [Keys -> Nat] /\ restarts' \in 0 .. MaxRestart
  BY SyncAssumption DEF Restart, TypeOK
<1>3. /\ hello' \in [Addrs -> Keys \cup {NoKey}] /\ conn' \in [Addrs -> Keys \cup {NoKey}]
      /\ invite' \in [Addrs -> Keys \cup {NoKey}]
  BY DEF Restart
<1>4. device' \in PeerMaps /\ known' \in PeerMaps /\ snap' \in PeerMaps
  BY WantedIs, NoMap DEF Restart
<1> QED  BY <1>1, <1>2, <1>3, <1>4 DEF Restart, TypeOK

LEMMA InitType == Init => TypeOK
<1> SUFFICES ASSUME Init PROVE TypeOK
  OBVIOUS
<1>1. cfg \in [Addrs -> Entries]
  BY DEF Init, Entries
<1>2. device \in PeerMaps /\ known \in PeerMaps /\ snap \in PeerMaps
  BY NoMap DEF Init
<1>3. /\ owner \in [Addrs -> Keys \cup {NoKey}] /\ hello \in [Addrs -> Keys \cup {NoKey}]
      /\ conn \in [Addrs -> Keys \cup {NoKey}] /\ age \in [Keys -> Nat]
      /\ who \in [Keys -> Keys] /\ invite \in [Addrs -> Keys \cup {NoKey}]
  BY DEF Init
<1>4. gen \in 0 .. MaxKey /\ fails \in 0 .. MaxFail /\ restarts \in 0 .. MaxRestart
  BY SyncAssumption DEF Init
<1> QED  BY <1>1, <1>2, <1>3, <1>4 DEF Init, TypeOK

LEMMA TypeStep == TypeOK /\ [Next]_vars => TypeOK'
<1>1. ASSUME TypeOK, UNCHANGED vars PROVE TypeOK'
  BY <1>1 DEF vars, TypeOK
<1> QED  BY <1>1, EditType, SessionType, TickType, RestartType DEF Next

\* The host's file, its tunnel and the supervisor's account keep their types,
\* for any number of addresses, keys and failing calls.
THEOREM TypeCorrect == Spec => []TypeOK
<1> QED  BY InitType, TypeStep, PTL DEF Spec

-----------------------------------------------------------------------------
(* What edits and sessions do to the file.                                 *)

\* The tunnel's side of the state is as it was.
Quiet ==
    /\ UNCHANGED <<device, owner, known, pending, snap, pc, fails, restarts, told, noticed, age>>

\* New keys are the next to be generated; keys keep their member; those who are
\* gone stay so; and an address passes from a member only when it is gone.
FileMoves ==
    /\ gen' >= gen /\ expired \subseteq expired' /\ gone \subseteq gone'
    /\ \A k \in 1 .. gen : who'[k] = who[k]
    /\ CfgKeys' \subseteq CfgKeys \cup (gen + 1 .. gen')
    /\ expired' \subseteq expired \cup CfgKeys \cup (gen + 1 .. gen')
    /\ \A k \in expired' : who'[k] \in gone'
    /\ \A a \in Addrs, k \in 1 .. gen : Belongs(a, k) => Belongs(a, k)'
    /\ \A a, b \in Addrs : (cfg'[a] # NoPeer /\ cfg'[b] # NoPeer /\ cfg'[a].key = cfg'[b].key)
                              => a = b

LEMMA CfgKeyIs ==
    ASSUME TypeOK, KeysGenerated, NEW a \in Addrs, cfg[a] # NoPeer
    PROVE  /\ cfg[a].key \in CfgKeys /\ cfg[a].key \in 1 .. gen
           /\ cfg[a].key \in Keys /\ cfg[a].key \in Nat
<1>1. cfg[a].key \in CfgKeys
  BY DEF CfgKeys
<1>2. cfg[a].key \in 1 .. gen
  BY <1>1 DEF KeysGenerated
<1>3. cfg[a].key \in Keys
  BY EntryIs
<1>4. cfg[a].key \in Nat
  BY <1>2 DEF TypeOK
<1> QED  BY <1>1, <1>2, <1>3, <1>4

LEMMA EditMoves ==
    ASSUME TypeOK, KeysGenerated, MembersTrue, Edit
    PROVE  FileMoves /\ Quiet /\ hello' = hello /\ conn' = conn
<1> USE DEF Unsynced, account, sessions, Quiet
<1>0. gen \in Nat /\ \A k \in expired : k \in 1 .. gen /\ who[k] \in gone
  BY DEF TypeOK, KeysGenerated, MembersTrue
<1>1. ASSUME NEW a \in Addrs, Append(a) PROVE FileMoves /\ Quiet /\ hello' = hello /\ conn' = conn
  <2>1. /\ cfg[a] = NoPeer /\ gen' = gen + 1 /\ expired' = expired /\ gone' = gone
        /\ who' = who
        /\ cfg' = [cfg EXCEPT ![a] = [key |-> gen + 1, ver |-> 1, joined |-> FALSE]]
    BY <1>1 DEF Append
  <2>2. \A b \in Addrs : /\ b # a => cfg'[b] = cfg[b]
                         /\ b = a => cfg'[b].key = gen + 1
    BY <2>1 DEF TypeOK
  <2>3. CfgKeys' \subseteq CfgKeys \cup {gen + 1}
    BY <2>2 DEF CfgKeys
  <2>4. \A b \in Addrs, k \in 1 .. gen : Belongs(b, k) => Belongs(b, k)'
    BY <2>1, <2>2 DEF Belongs
  <2>5. \A b, c \in Addrs : (cfg'[b] # NoPeer /\ cfg'[c] # NoPeer /\ cfg'[b].key = cfg'[c].key)
                              => b = c
    BY <1>0, <2>2, CfgKeyIs DEF KeysGenerated
  <2> QED  BY <1>0, <1>1, <2>1, <2>3, <2>4, <2>5 DEF FileMoves, Append
<1>2. ASSUME NEW a \in Addrs, Remove(a) PROVE FileMoves /\ Quiet /\ hello' = hello /\ conn' = conn
  <2>1. /\ cfg[a] # NoPeer /\ gen' = gen /\ expired' = expired /\ who' = who
        /\ gone' = gone \cup {who[cfg[a].key]} /\ cfg' = [cfg EXCEPT ![a] = NoPeer]
    BY <1>2 DEF Remove
  <2>2. \A b \in Addrs : /\ b # a => cfg'[b] = cfg[b]
                         /\ b = a => cfg'[b] = NoPeer
    BY <2>1 DEF TypeOK
  <2>3. CfgKeys' \subseteq CfgKeys
    BY <2>2 DEF CfgKeys
  <2>4. \A b \in Addrs, k \in 1 .. gen : Belongs(b, k) => Belongs(b, k)'
    BY <2>1, <2>2 DEF Belongs
  <2>5. \A b, c \in Addrs : (cfg'[b] # NoPeer /\ cfg'[c] # NoPeer /\ cfg'[b].key = cfg'[c].key)
                              => b = c
    BY <2>2 DEF KeysGenerated
  <2> QED  BY <1>0, <1>2, <2>1, <2>3, <2>4, <2>5 DEF FileMoves, Remove
<1>3. ASSUME NEW a \in Addrs, Rotate(a) PROVE FileMoves /\ Quiet /\ hello' = hello /\ conn' = conn
  <2>1. /\ cfg[a] # NoPeer /\ gen' = gen + 1 /\ gone' = gone
        /\ expired' = expired \cup {k \in {gen + 1} : cfg[a].key \in expired}
        /\ gen + 1 \in Keys
        /\ who' = [who EXCEPT ![gen + 1] = who[cfg[a].key]]
        /\ cfg' = [cfg EXCEPT ![a].key = gen + 1]
    BY <1>3, <1>0, SyncAssumption DEF Rotate, Keys
  <2>2. \A b \in Addrs : /\ b # a => cfg'[b] = cfg[b]
                         /\ b = a => cfg'[b].key = gen + 1
    <3>1. cfg'[a] = [cfg[a] EXCEPT !.key = gen + 1]
      BY <2>1 DEF TypeOK
    <3>2. cfg[a] \in [key : Keys, ver : 1 .. MaxVer, joined : BOOLEAN]
      BY <2>1 DEF TypeOK, Entries
    <3>3. cfg'[a].key = gen + 1
      BY <3>1, <3>2
    <3> QED  BY <2>1, <3>3 DEF TypeOK
  <2>3. CfgKeys' \subseteq CfgKeys \cup {gen + 1}
    BY <2>2 DEF CfgKeys
  <2>4. \A k \in 1 .. gen : who'[k] = who[k]
    BY <1>0, <2>1 DEF TypeOK
  <2>5. who'[gen + 1] = who[cfg[a].key]
    BY <2>1 DEF TypeOK
  <2>6. cfg'[a] # NoPeer
    BY <2>1, SyncAssumption DEF TypeOK, Entries, Keys
  <2>7. ASSUME NEW b \in Addrs, NEW k \in 1 .. gen, Belongs(b, k) PROVE Belongs(b, k)'
    <3>1. CASE b = a
      BY <2>1, <2>2, <2>4, <2>5, <2>6, <2>7, <3>1 DEF Belongs
    <3>2. CASE b # a
      BY <2>1, <2>2, <2>4, <2>7, <3>2, CfgKeyIs DEF Belongs
    <3> QED  BY <3>1, <3>2
  <2>8. \A b, c \in Addrs : (cfg'[b] # NoPeer /\ cfg'[c] # NoPeer /\ cfg'[b].key = cfg'[c].key)
                              => b = c
    BY <1>0, <2>2, CfgKeyIs DEF KeysGenerated
  <2>9. ASSUME NEW k \in expired' PROVE who'[k] \in gone'
    <3>1. CASE k \in expired
      BY <1>0, <2>1, <2>4, <3>1
    <3>2. CASE k = gen + 1 /\ cfg[a].key \in expired
      BY <1>0, <2>1, <2>5, <3>2
    <3> QED  BY <2>1, <2>9, <3>1, <3>2
  <2> QED  BY <1>0, <1>3, <2>1, <2>3, <2>4, <2>7, <2>8, <2>9 DEF FileMoves, Rotate
<1>4. ASSUME NEW a \in Addrs, Change(a) PROVE FileMoves /\ Quiet /\ hello' = hello /\ conn' = conn
  <2>1. /\ cfg[a] # NoPeer /\ gen' = gen /\ expired' = expired /\ gone' = gone /\ who' = who
        /\ cfg' = [cfg EXCEPT ![a].ver = @ + 1]
    BY <1>4 DEF Change
  <2>2. \A b \in Addrs : /\ b # a => cfg'[b] = cfg[b]
                         /\ b = a => cfg'[b].key = cfg[b].key
    <3>1. cfg'[a] = [cfg[a] EXCEPT !.ver = @ + 1]
      BY <2>1 DEF TypeOK
    <3>2. cfg[a] \in [key : Keys, ver : 1 .. MaxVer, joined : BOOLEAN]
      BY <2>1 DEF TypeOK, Entries
    <3>3. cfg'[a].key = cfg[a].key
      BY <3>1, <3>2
    <3> QED  BY <2>1, <3>3 DEF TypeOK
  <2>3. CfgKeys' \subseteq CfgKeys
    BY <2>1, <2>2 DEF CfgKeys
  <2>4. cfg'[a] # NoPeer
    <3>1. cfg' \in [Addrs -> Entries]
      BY <1>4, EditType DEF Edit, TypeOK
    <3>2. cfg[a].ver + 1 \in 1 .. MaxVer
      <4>1. cfg[a].ver \in 1 .. MaxVer /\ cfg[a].ver < MaxVer
        BY <1>4, EntryIs DEF Change
      <4> QED  BY <4>1, SyncAssumption
    <3> QED  BY <2>1, <3>2, SyncAssumption DEF TypeOK, Entries, Keys
  <2>5. \A b \in Addrs, k \in 1 .. gen : Belongs(b, k) => Belongs(b, k)'
    BY <2>1, <2>2, <2>4 DEF Belongs
  <2>6. \A b, c \in Addrs : (cfg'[b] # NoPeer /\ cfg'[c] # NoPeer /\ cfg'[b].key = cfg'[c].key)
                              => b = c
    BY <2>1, <2>2 DEF KeysGenerated
  <2> QED  BY <1>0, <1>4, <2>1, <2>3, <2>5, <2>6 DEF FileMoves, Change
<1>5. ASSUME NEW a \in Addrs, Expire(a) PROVE FileMoves /\ Quiet /\ hello' = hello /\ conn' = conn
  <2>1. /\ cfg[a] # NoPeer /\ gen' = gen /\ expired' = expired \cup {cfg[a].key}
        /\ gone' = gone \cup {who[cfg[a].key]} /\ who' = who /\ cfg' = cfg
    BY <1>5 DEF Expire
  <2>2. CfgKeys' = CfgKeys /\ cfg[a].key \in CfgKeys
    BY <2>1 DEF CfgKeys
  <2>3. \A b \in Addrs, k \in 1 .. gen : Belongs(b, k) => Belongs(b, k)'
    BY <2>1 DEF Belongs
  <2>4. \A k \in expired' : who'[k] \in gone'
    BY <1>0, <2>1
  <2> QED  BY <1>0, <1>5, <2>1, <2>2, <2>3, <2>4 DEF FileMoves, Expire, KeysGenerated
<1> QED  BY <1>1, <1>2, <1>3, <1>4, <1>5 DEF Edit

\* A session only passes on keys already known at its address.
SameKeys ==
    \A a \in Addrs : {hello'[a], conn'[a]} \subseteq {owner[a], hello[a], conn[a], NoKey}

LEMMA SessionMoves ==
    ASSUME TypeOK, KeysGenerated, MembersTrue, Session
    PROVE  FileMoves /\ Quiet /\ SameKeys
<1> USE DEF Unsynced, account, Quiet
<1>0. gen \in Nat /\ \A k \in expired : who[k] \in gone
  BY DEF TypeOK, MembersTrue
<1>1. ASSUME cfg' = cfg, gen' = gen, expired' = expired, gone' = gone, who' = who
      PROVE  FileMoves
  BY <1>0, <1>1 DEF FileMoves, CfgKeys, Belongs, KeysGenerated
<1>2. ASSUME NEW a \in Addrs, Hello(a) PROVE FileMoves /\ Quiet /\ SameKeys
  <2>1. FileMoves
    BY <1>1, <1>2 DEF Hello, file
  <2> QED  BY <1>2, <2>1 DEF Hello, SameKeys, TypeOK
<1>3. ASSUME NEW a \in Addrs, Register(a), ~Accepted(a) PROVE FileMoves /\ Quiet /\ SameKeys
  <2>1. FileMoves
    BY <1>1, <1>3 DEF Register
  <2> QED  BY <1>3, <2>1 DEF Register, SameKeys, TypeOK
<1>4. ASSUME NEW a \in Addrs, Register(a), Accepted(a), invite[a] # NoKey
      PROVE  FileMoves /\ Quiet /\ SameKeys
  <2>1. /\ cfg[a] # NoPeer /\ gen' = gen /\ expired' = expired /\ gone' = gone /\ who' = who
        /\ cfg' = [cfg EXCEPT ![a].joined = TRUE]
    BY <1>4 DEF Register, Accepted
  <2>2. \A b \in Addrs : /\ b # a => cfg'[b] = cfg[b]
                         /\ b = a => cfg'[b].key = cfg[b].key
    <3>1. cfg'[a] = [cfg[a] EXCEPT !.joined = TRUE]
      BY <2>1 DEF TypeOK
    <3>2. cfg[a] \in [key : Keys, ver : 1 .. MaxVer, joined : BOOLEAN]
      BY <2>1 DEF TypeOK, Entries
    <3>3. cfg'[a].key = cfg[a].key
      BY <3>1, <3>2
    <3> QED  BY <2>1, <3>3 DEF TypeOK
  <2>3. CfgKeys' \subseteq CfgKeys
    BY <2>1, <2>2 DEF CfgKeys
  <2>4. cfg'[a] # NoPeer
    BY <2>1, SyncAssumption DEF TypeOK, Entries, Keys
  <2>5. \A b \in Addrs, k \in 1 .. gen : Belongs(b, k) => Belongs(b, k)'
    BY <2>1, <2>2, <2>4 DEF Belongs
  <2>6. \A b, c \in Addrs : (cfg'[b] # NoPeer /\ cfg'[c] # NoPeer /\ cfg'[b].key = cfg'[c].key)
                              => b = c
    BY <2>1, <2>2 DEF KeysGenerated
  <2>7. FileMoves
    BY <1>0, <2>1, <2>3, <2>5, <2>6 DEF FileMoves
  <2> QED  BY <1>4, <2>7 DEF Register, SameKeys, TypeOK
<1>6. ASSUME NEW a \in Addrs, Register(a), Accepted(a), invite[a] = NoKey
      PROVE  FileMoves /\ Quiet /\ SameKeys
  <2>1. FileMoves
    BY <1>1, <1>6 DEF Register
  <2> QED  BY <1>6, <2>1 DEF Register, SameKeys, TypeOK
<1>5. ASSUME NEW a \in Addrs, Disconnect(a) PROVE FileMoves /\ Quiet /\ SameKeys
  <2>1. FileMoves
    BY <1>1, <1>5 DEF Disconnect, file
  <2> QED  BY <1>5, <2>1 DEF Disconnect, SameKeys, TypeOK
<1> QED  BY <1>2, <1>3, <1>4, <1>5, <1>6 DEF Session

\* Edits and sessions keep the invariants, TypeOK apart: they leave the tunnel
\* alone and move the file as above.
LEMMA QuietInv ==
    ASSUME Inv, FileMoves, Quiet, SameKeys, TypeOK'
    PROVE  Inv'
<1> USE DEF Inv, Quiet
<1>0. gen \in Nat /\ gen' \in Nat /\ gen' >= gen
  BY DEF TypeOK, FileMoves
<1>1. KeysGenerated'
  <2>1. CfgKeys' \cup expired' \cup (DOMAIN known)' \cup (DOMAIN snap)' \subseteq 1 .. gen'
    BY <1>0 DEF KeysGenerated, FileMoves
  <2>2. \A a \in Addrs : {owner'[a], hello'[a], conn'[a]} \subseteq 0 .. gen'
    BY <1>0 DEF KeysGenerated, SameKeys, NoKey
  <2> QED  BY <2>1, <2>2 DEF KeysGenerated, FileMoves
<1>2. AccountTrue'
  BY DEF AccountTrue, NothingForgotten
<1>3. SnapApart'
  BY DEF SnapApart
<1>4. AgeBound'
  BY DEF AgeBound
<1>5. \A k \in 1 .. gen : Lost(k) => Lost(k)'
  BY <1>0 DEF Lost, FileMoves
<1>6. PassedOver'
  <2>1. pending \cup DOMAIN known \subseteq 1 .. gen
    BY DEF AccountTrue, NothingForgotten, KeysGenerated
  <2> QED  BY <1>5, <2>1 DEF PassedOver
<1>7. PendingAnnounced'
  BY DEF PendingAnnounced, FileMoves
<1>8. SwappedOut' /\ OnePeerPerAddress'
  BY DEF SwappedOut, OnePeerPerAddress, AddrsOf
<1>9. MembersTrue'
  <2>1. ASSUME NEW k \in expired' PROVE who'[k] \in gone'
    BY <2>1 DEF FileMoves
  <2>2. ASSUME NEW k \in DOMAIN snap PROVE Belongs(snap[k].addr, k)'
    <3>1. snap[k].addr \in Addrs /\ k \in 1 .. gen /\ Belongs(snap[k].addr, k)
      BY MapIs DEF TypeOK, KeysGenerated, MembersTrue
    <3> QED  BY <3>1 DEF FileMoves
  <2>3. ASSUME NEW a \in Addrs, NEW k \in {owner'[a], hello'[a], conn'[a]} \ {NoKey}
        PROVE  Belongs(a, k)'
    <3>1. k \in {owner[a], hello[a], conn[a]} \ {NoKey}
      BY DEF SameKeys
    <3>2. k \in 1 .. gen /\ Belongs(a, k)
      BY <1>0, <3>1 DEF KeysGenerated, MembersTrue, NoKey
    <3> QED  BY <3>2 DEF FileMoves
  <2> QED  BY <2>1, <2>2, <2>3 DEF MembersTrue
<1>10. LeftBehind'
  <2> SUFFICES ASSUME pc # "idle", NEW a \in Addrs \ AddrsOf(snap),
                      NEW k \in {owner'[a], hello'[a], conn'[a]} \ {NoKey}
               PROVE  who'[k] \in gone'
    BY DEF LeftBehind, AddrsOf
  <2>1. k \in {owner[a], hello[a], conn[a]} \ {NoKey}
    BY DEF SameKeys
  <2>2. k \in 1 .. gen /\ who[k] \in gone
    BY <1>0, <2>1 DEF KeysGenerated, LeftBehind, NoKey
  <2> QED  BY <2>2 DEF FileMoves
<1>11. NoFalseNotice'
  BY DEF NoFalseNotice, OnlyGoneTold, FileMoves
<1> QED  BY <1>1, <1>2, <1>3, <1>4, <1>6, <1>7, <1>8, <1>9, <1>10, <1>11
-----------------------------------------------------------------------------
(* A tick.                                                                 *)

\* The file, as every pass of a tick and a restart of the tunnel leave it.
FileKept == UNCHANGED file

LEMMA FileIs ==
    ASSUME FileKept
    PROVE  /\ CfgKeys' = CfgKeys /\ \A k : Lost(k)' <=> Lost(k)
           /\ \A a, k : Belongs(a, k)' <=> Belongs(a, k)
BY DEF FileKept, file, CfgKeys, Lost, Belongs

\* An address without an eligible peer has no peer in the load, and whoever had
\* it is gone.
LEMMA NotWanted ==
    ASSUME TypeOK, KeysGenerated, MembersTrue, NEW a \in Addrs, a \notin AddrsOf(Wanted),
           NEW k, Belongs(a, k)
    PROVE  who[k] \in gone
<1>1. ASSUME Eligible(a) PROVE FALSE
  <2>1. cfg[a] # NoPeer /\ cfg[a].key \in DOMAIN Wanted
    BY <1>1, WantedIs DEF Eligible
  <2>2. /\ cfg[Wanted[cfg[a].key].addr] # NoPeer
        /\ cfg[Wanted[cfg[a].key].addr].key = cfg[a].key
        /\ Wanted[cfg[a].key].addr \in Addrs
    BY <2>1, WantedIs, MapIs
  <2>3. Wanted[cfg[a].key].addr = a
    BY <2>1, <2>2 DEF KeysGenerated
  <2> QED  BY <2>1, <2>3 DEF AddrsOf
<1>2. cfg[a] # NoPeer => cfg[a].key \in expired
  BY <1>1 DEF Eligible
<1> QED  BY <1>2 DEF Belongs, MembersTrue

LEMMA StartInv ==
    ASSUME Inv, StartTick, TypeOK'
    PROVE  Inv'
<1> USE DEF Inv
<1>0. /\ pc = "idle" /\ pc' = "swap" /\ snap' = Wanted
      /\ noticed' = (noticed \cap DOMAIN known) \ DOMAIN Wanted
      /\ age' = [k \in Keys |-> IF k \in DOMAIN device \ DOMAIN Wanted THEN age[k] + 1 ELSE 0]
      /\ device' = device /\ known' = known /\ owner' = owner /\ pending' = pending
      /\ hello' = hello /\ conn' = conn /\ gen' = gen /\ who' = who /\ gone' = gone
      /\ cfg' = cfg /\ expired' = expired /\ fails' = fails /\ told' = told
      /\ FileKept
  BY DEF StartTick, file, sessions, account, FileKept
<1>1. /\ CfgKeys' = CfgKeys /\ \A k : Lost(k)' <=> Lost(k)
      /\ \A a, k : Belongs(a, k)' <=> Belongs(a, k)
  BY <1>0, FileIs
<1>2. /\ DOMAIN Wanted \subseteq CfgKeys /\ DOMAIN Wanted \subseteq Keys
      /\ \A k \in DOMAIN Wanted :
            /\ cfg[Wanted[k].addr] # NoPeer /\ cfg[Wanted[k].addr].key = k
            /\ Wanted[k].addr \in Addrs
  BY WantedIs, MapIs
<1>3. KeysGenerated'
  BY <1>0, <1>1, <1>2 DEF KeysGenerated
<1>4. AccountTrue'
  BY <1>0 DEF AccountTrue, NothingForgotten
<1>5. SnapApart'
  <2>1. \A k, l \in DOMAIN Wanted : Wanted[k].addr = Wanted[l].addr => k = l
    BY <1>2
  <2> QED  BY <1>0, <2>1 DEF SnapApart
<1>6. AgeBound'
  <2>1. ASSUME NEW k \in DOMAIN device
        PROVE  age'[k] <= fails + (IF k \in pending THEN 1 ELSE 0)
                            + (IF k \in DOMAIN Wanted THEN 0 ELSE 1)
    <3>1. k \in Keys /\ age[k] \in Nat /\ fails \in Nat
      BY MapIs, SyncAssumption DEF TypeOK
    <3>2. age[k] <= fails + (IF k \in pending THEN 1 ELSE 0)
      BY <1>0, <3>1 DEF AgeBound
    <3>3. age'[k] = IF k \in DOMAIN Wanted THEN 0 ELSE age[k] + 1
      BY <1>0, <3>1
    <3> QED  BY <3>1, <3>2, <3>3
  <2>2. \A k \in DOMAIN Wanted : age'[k] = 0
    BY <1>0, <1>2
  <2> QED  BY <1>0, <2>1, <2>2 DEF AgeBound
<1>7. PassedOver'
  <2>1. ASSUME NEW k \in DOMAIN known \ DOMAIN Wanted PROVE Lost(k)
    <3>1. ASSUME NEW a \in Addrs, cfg[a] # NoPeer, cfg[a].key = k PROVE k \in expired
      <4>1. ~Eligible(a)
        BY <3>1, WantedIs
      <4> QED  BY <3>1, <4>1 DEF Eligible
    <3> QED  BY <3>1 DEF Lost, CfgKeys
  <2> QED  BY <1>0, <1>1, <2>1 DEF PassedOver
<1>8. PendingAnnounced'
  BY <1>0, <1>2 DEF PendingAnnounced, PassedOver, Lost, AccountTrue, NothingForgotten
<1>9. SwappedOut' /\ OnePeerPerAddress'
  BY <1>0 DEF SwappedOut, OnePeerPerAddress
<1>10. MembersTrue'
  <2>1. \A k \in DOMAIN Wanted : Belongs(Wanted[k].addr, k)
    BY <1>2 DEF Belongs
  <2> QED  BY <1>0, <1>1, <2>1 DEF MembersTrue
<1>11. LeftBehind'
  <2>1. ASSUME NEW a \in Addrs, a \notin AddrsOf(Wanted),
               NEW k \in {owner[a], hello[a], conn[a]} \ {NoKey}
        PROVE  who[k] \in gone
    <3>1. Belongs(a, k)
      BY DEF MembersTrue
    <3> QED  BY <2>1, <3>1, NotWanted
  <2>2. AddrsOf(snap)' = AddrsOf(Wanted)
    BY <1>0 DEF AddrsOf
  <2> QED  BY <1>0, <2>1, <2>2 DEF LeftBehind
<1>12. NoFalseNotice'
  BY <1>0 DEF NoFalseNotice, OnlyGoneTold
<1> QED  BY <1>3, <1>4, <1>5, <1>6, <1>7, <1>8, <1>9, <1>10, <1>11, <1>12

\* What a step that only takes peers out leaves true.
LEMMA TakenOut ==
    ASSUME Inv, FileKept, UNCHANGED sessions, NEW S, TakesOut(S),
           pending' \subseteq DOMAIN known \ S
    PROVE  /\ DOMAIN device' = DOMAIN device \ S /\ DOMAIN known' = DOMAIN known \ S
           /\ \A k \in DOMAIN device' : device'[k] = device[k]
           /\ \A k \in DOMAIN known' : known'[k] = known[k]
           /\ AccountTrue'
           /\ \A a \in Addrs : {owner'[a], hello'[a], conn'[a]}
                                  \subseteq {owner[a], hello[a], conn[a], NoKey}
           /\ \A a \in Addrs : {owner'[a], hello'[a], conn'[a]} \subseteq 0 .. gen
           /\ \A a \in Addrs : \A k \in {owner'[a], hello'[a], conn'[a]} \ {NoKey} :
                 Belongs(a, k)'
<1>1. /\ DOMAIN device' = DOMAIN device \ S /\ DOMAIN known' = DOMAIN known \ S
      /\ \A k \in DOMAIN device' : device'[k] = device[k]
      /\ \A k \in DOMAIN known' : known'[k] = known[k]
  BY DEF TakesOut, Without
<1>2. AccountTrue'
  BY <1>1 DEF Inv, AccountTrue, NothingForgotten
<1>3. \A a \in Addrs : {owner'[a], hello'[a], conn'[a]}
                          \subseteq {owner[a], hello[a], conn[a], NoKey}
  <2>1. \A a \in Addrs : owner'[a] \in {owner[a], NoKey}
    BY ReleasedIs DEF TakesOut, Inv
  <2> QED  BY <2>1 DEF sessions
<1>4. \A a \in Addrs : {owner'[a], hello'[a], conn'[a]} \subseteq 0 .. gen
  BY <1>3 DEF Inv, KeysGenerated, NoKey, TypeOK
<1>5. ASSUME NEW a \in Addrs, NEW k \in {owner'[a], hello'[a], conn'[a]} \ {NoKey}
      PROVE  Belongs(a, k)'
  <2>1. k \in {owner[a], hello[a], conn[a]} \ {NoKey}
    BY <1>3
  <2>2. Belongs(a, k)
    BY <2>1 DEF Inv, MembersTrue
  <2> QED  BY <2>2, FileIs
<1> QED  BY <1>1, <1>2, <1>3, <1>4, <1>5

LEMMA SwapInv ==
    ASSUME Inv, SwapOut, TypeOK'
    PROVE  Inv'
<1> USE DEF Inv
<1>1. PICK F \in SUBSET RotatedOut :
        /\ pc = "swap" /\ pc' = "add" /\ CallsFail(F) /\ TakesOut(RotatedOut \ F)
        /\ pending' = pending \ (RotatedOut \ F)
        /\ UNCHANGED <<file, sessions, snap, restarts, told, noticed, age>>
  BY SwapFacts
<1> DEFINE S == RotatedOut \ F
<1>2. /\ FileKept /\ snap' = snap /\ told' = told /\ noticed' = noticed /\ age' = age
      /\ gen' = gen /\ who' = who /\ gone' = gone /\ cfg' = cfg /\ expired' = expired
      /\ hello' = hello /\ conn' = conn /\ UNCHANGED sessions
  BY <1>1 DEF FileKept, file, sessions
<1>3. /\ CfgKeys' = CfgKeys /\ \A k : Lost(k)' <=> Lost(k)
      /\ \A a, k : Belongs(a, k)' <=> Belongs(a, k)
  BY <1>2, FileIs
<1>4. pending' \subseteq DOMAIN known \ S
  BY <1>1 DEF AccountTrue, NothingForgotten
<1>5. S \subseteq RotatedOut /\ TakesOut(S) /\ pending' = pending \ S /\ (F = {} => S = RotatedOut)
  BY <1>1
<1> HIDE DEF S
<1>6. /\ DOMAIN device' = DOMAIN device \ S /\ DOMAIN known' = DOMAIN known \ S
      /\ \A k \in DOMAIN device' : device'[k] = device[k]
      /\ \A k \in DOMAIN known' : known'[k] = known[k]
      /\ AccountTrue'
      /\ \A a \in Addrs : {owner'[a], hello'[a], conn'[a]}
                             \subseteq {owner[a], hello[a], conn[a], NoKey}
      /\ \A a \in Addrs : {owner'[a], hello'[a], conn'[a]} \subseteq 0 .. gen
      /\ \A a \in Addrs : \A k \in {owner'[a], hello'[a], conn'[a]} \ {NoKey} : Belongs(a, k)'
  BY <1>2, <1>4, <1>5, TakenOut
<1>7. KeysGenerated'
  BY <1>2, <1>3, <1>6 DEF KeysGenerated
<1>8. SnapApart'
  BY <1>1, <1>2 DEF SnapApart
<1>9. fails \in Nat /\ fails' \in Nat /\ fails' >= fails /\ (fails' = 0 => fails = 0 /\ F = {})
  BY <1>1, SyncAssumption DEF CallsFail, TypeOK
<1>10. AgeBound'
  <2>1. ASSUME NEW k \in DOMAIN device'
        PROVE  age[k] <= fails' + (IF k \in pending' THEN 1 ELSE 0)
                           + (IF k \in DOMAIN snap THEN 0 ELSE 1)
    <3>1. k \in DOMAIN device /\ (k \in pending' <=> k \in pending)
      BY <1>5, <1>6, <2>1
    <3>2. age[k] <= fails + (IF k \in pending THEN 1 ELSE 0)
                      + (IF k \in DOMAIN snap THEN 0 ELSE 1)
      BY <1>1, <3>1 DEF AgeBound
    <3>3. age[k] \in Nat
      BY <3>1, MapIs DEF TypeOK
    <3> QED  BY <1>9, <3>1, <3>2, <3>3
  <2> QED  BY <1>1, <1>2, <2>1 DEF AgeBound
<1>11. PassedOver'
  BY <1>1, <1>2, <1>3, <1>5, <1>6 DEF PassedOver
<1>12. PendingAnnounced'
  BY <1>2, <1>5 DEF PendingAnnounced
<1>13. SwappedOut'
  <2>1. ASSUME fails' = 0, NEW k \in DOMAIN known' \ DOMAIN snap
        PROVE  known'[k].addr \notin AddrsOf(snap)
    <3>1. k \in Absent \ RotatedOut
      BY <1>5, <1>6, <1>9, <2>1 DEF Absent
    <3> QED  BY <1>6, <2>1, <3>1 DEF RotatedOut
  <2>2. AddrsOf(snap)' = AddrsOf(snap)
    BY <1>2 DEF AddrsOf
  <2> QED  BY <1>2, <2>1, <2>2 DEF SwappedOut
<1>14. OnePeerPerAddress'
  BY <1>6, <1>9 DEF OnePeerPerAddress
<1>15. MembersTrue'
  BY <1>2, <1>3, <1>6 DEF MembersTrue
<1>16. LeftBehind'
  BY <1>1, <1>2, <1>6 DEF LeftBehind, AddrsOf
<1>17. NoFalseNotice'
  BY <1>2, <1>9 DEF NoFalseNotice, OnlyGoneTold
<1> QED  BY <1>6, <1>7, <1>8, <1>10, <1>11, <1>12, <1>13, <1>14, <1>15, <1>16, <1>17

LEMMA AddInv ==
    ASSUME Inv, AddOrChange, TypeOK'
    PROVE  Inv'
<1> USE DEF Inv
<1>1. PICK done \in SUBSET DOMAIN snap, cut \in SUBSET DOMAIN snap, F \in SUBSET Keys :
        /\ pc = "add" /\ pc' = "remove" /\ CallsFail(F)
        /\ \A k \in DOMAIN snap \ (done \cup F) : k \in DOMAIN known /\ known[k] = snap[k]
        /\ cut \subseteq F
        /\ PutIn(done, cut)
        /\ \A a \in Addrs : \/ owner'[a] \in {owner[a], NoKey}
                            \/ owner'[a] \in done /\ snap[owner'[a]].addr = a
        /\ UNCHANGED <<file, sessions, pending, snap, restarts, told, noticed, age>>
  BY AddFacts
<1>2. /\ FileKept /\ snap' = snap /\ told' = told /\ noticed' = noticed /\ age' = age
      /\ gen' = gen /\ who' = who /\ gone' = gone /\ cfg' = cfg /\ expired' = expired
      /\ hello' = hello /\ conn' = conn /\ pending' = pending
  BY <1>1 DEF FileKept, file, sessions
<1>3. /\ CfgKeys' = CfgKeys /\ \A k : Lost(k)' <=> Lost(k)
      /\ \A a, k : Belongs(a, k)' <=> Belongs(a, k)
  BY <1>2, FileIs
<1>4. /\ DOMAIN known' = DOMAIN known \cup done
      /\ \A k \in DOMAIN known' : known'[k] = IF k \in done THEN snap[k] ELSE known[k]
  BY <1>1 DEF PutIn, With
<1>5. /\ DOMAIN device' = (DOMAIN device \ cut) \cup done
      /\ \A k \in DOMAIN device' : device'[k] = IF k \in done THEN snap[k] ELSE device[k]
  <2>1. PICK n \in PeerMaps : Without(device, n, cut) /\ With(n, device', snap, done)
    BY <1>1 DEF PutIn
  <2> QED  BY <2>1 DEF Without, With
<1>6. /\ fails \in Nat /\ fails' \in Nat /\ fails' >= fails
      /\ (fails' = 0 => fails = 0 /\ F = {} /\ cut = {})
  BY <1>1, SyncAssumption DEF CallsFail, TypeOK
<1>7. ASSUME NEW a \in Addrs, NEW k \in {owner'[a], hello'[a], conn'[a]} \ {NoKey}
      PROVE  \/ k \in {owner[a], hello[a], conn[a]} \ {NoKey}
             \/ k \in DOMAIN snap /\ snap[k].addr = a
  <2>1. \/ owner'[a] \in {owner[a], NoKey}
        \/ owner'[a] \in done /\ snap[owner'[a]].addr = a
    BY <1>1
  <2> QED  BY <1>2, <2>1
<1>8. KeysGenerated'
  <2>1. CfgKeys' \cup expired' \cup DOMAIN known' \cup DOMAIN snap' \subseteq 1 .. gen'
    BY <1>2, <1>3, <1>4 DEF KeysGenerated
  <2>2. \A a \in Addrs : {owner'[a], hello'[a], conn'[a]} \subseteq 0 .. gen'
    BY <1>2, <1>7 DEF KeysGenerated, NoKey, TypeOK
  <2> QED  BY <1>2, <2>1, <2>2 DEF KeysGenerated
<1>9. AccountTrue'
  <2>1. DOMAIN device \subseteq DOMAIN known /\ pending \subseteq DOMAIN known
    BY DEF AccountTrue, NothingForgotten
  <2>2. \A k \in DOMAIN device' : device'[k] = known'[k]
    BY <1>4, <1>5, <2>1 DEF AccountTrue
  <2> QED  BY <1>2, <1>4, <1>5, <2>1, <2>2 DEF AccountTrue, NothingForgotten
<1>10. SnapApart'
  BY <1>1, <1>2 DEF SnapApart
<1>11. AgeBound'
  <2>1. ASSUME NEW k \in DOMAIN device'
        PROVE  age[k] <= fails' + (IF k \in pending THEN 1 ELSE 0)
                           + (IF k \in DOMAIN snap THEN 0 ELSE 1)
    <3>1. CASE k \in DOMAIN snap
      <4>1. age[k] = 0
        BY <1>1, <3>1 DEF AgeBound
      <4>2. fails' \in Nat
        BY <1>6
      <4>3. \A f \in Nat : \A p, q \in {0, 1} : 0 <= f + p + q
        OBVIOUS
      <4>4. (IF k \in pending THEN 1 ELSE 0) \in {0, 1} /\ (IF k \in DOMAIN snap THEN 0 ELSE 1) \in {0, 1}
        OBVIOUS
      <4> QED  BY ONLY <4>1, <4>2, <4>3, <4>4, Zenon
    <3>2. CASE k \notin DOMAIN snap
      <4>1. k \in DOMAIN device
        BY <1>5, <3>2, <2>1
      <4>2. age[k] <= fails + (IF k \in pending THEN 1 ELSE 0)
                        + (IF k \in DOMAIN snap THEN 0 ELSE 1)
        BY <1>1, <4>1 DEF AgeBound
      <4>3. age[k] \in Nat
        BY <4>1, MapIs DEF TypeOK
      <4> QED  BY <1>6, <3>2, <4>2, <4>3
    <3> QED  BY <3>1, <3>2
  <2> QED  BY <1>1, <1>2, <2>1 DEF AgeBound
<1>12. PassedOver'
  BY <1>1, <1>2, <1>3, <1>4 DEF PassedOver
<1>13. PendingAnnounced'
  BY <1>2 DEF PendingAnnounced
<1>14. SwappedOut'
  <2>1. ASSUME fails' = 0, NEW k \in DOMAIN known' \ DOMAIN snap
        PROVE  known'[k].addr \notin AddrsOf(snap)
    <3>1. k \in DOMAIN known \ DOMAIN snap /\ known'[k] = known[k]
      BY <1>4, <2>1
    <3> QED  BY <1>1, <1>6, <2>1, <3>1 DEF SwappedOut
  <2>2. AddrsOf(snap)' = AddrsOf(snap)
    BY <1>2 DEF AddrsOf
  <2> QED  BY <1>2, <2>1, <2>2 DEF SwappedOut
<1>15. OnePeerPerAddress'
  <2> SUFFICES ASSUME fails' = 0, NEW k \in DOMAIN device', NEW l \in DOMAIN device',
                      device'[k].addr = device'[l].addr
               PROVE  k = l
    BY DEF OnePeerPerAddress
  <2>1. ASSUME NEW j \in DOMAIN device', j \in DOMAIN snap PROVE device'[j] = snap[j]
    <3>1. CASE j \in done
      BY <1>5, <3>1
    <3>2. CASE j \notin done
      BY <1>1, <1>5, <1>6, <2>1, <3>2 DEF AccountTrue
    <3> QED  BY <3>1, <3>2
  <2>2. ASSUME NEW j \in DOMAIN device', j \notin DOMAIN snap
        PROVE  /\ j \in DOMAIN device /\ device'[j] = device[j]
               /\ device'[j].addr \notin AddrsOf(snap)
    <3>1. j \in DOMAIN device /\ device'[j] = device[j]
      BY <1>5, <2>2
    <3>2. j \in DOMAIN known /\ known[j] = device[j]
      BY <3>1 DEF AccountTrue, NothingForgotten
    <3>3. known[j].addr \notin AddrsOf(snap)
      BY <1>1, <1>6, <2>2, <3>2 DEF SwappedOut
    <3> QED  BY <3>1, <3>2, <3>3
  <2>3. CASE k \in DOMAIN snap /\ l \in DOMAIN snap
    BY <2>1, <2>3 DEF SnapApart
  <2>4. CASE k \in DOMAIN snap /\ l \notin DOMAIN snap
    BY <2>1, <2>2, <2>4 DEF AddrsOf
  <2>5. CASE k \notin DOMAIN snap /\ l \in DOMAIN snap
    BY <2>1, <2>2, <2>5 DEF AddrsOf
  <2>6. CASE k \notin DOMAIN snap /\ l \notin DOMAIN snap
    BY <1>6, <2>2, <2>6 DEF OnePeerPerAddress
  <2> QED  BY <2>3, <2>4, <2>5, <2>6
<1>16. MembersTrue'
  <2>1. ASSUME NEW a \in Addrs, NEW k \in {owner'[a], hello'[a], conn'[a]} \ {NoKey}
        PROVE  Belongs(a, k)
    BY <1>7 DEF MembersTrue
  <2> QED  BY <1>2, <1>3, <2>1 DEF MembersTrue
<1>17. LeftBehind'
  <2>1. ASSUME NEW a \in Addrs \ AddrsOf(snap),
               NEW k \in {owner'[a], hello'[a], conn'[a]} \ {NoKey}
        PROVE  who[k] \in gone
    <3>1. k \in {owner[a], hello[a], conn[a]} \ {NoKey}
      BY <1>7 DEF AddrsOf
    <3> QED  BY <1>1, <3>1 DEF LeftBehind
  <2>2. AddrsOf(snap)' = AddrsOf(snap)
    BY <1>2 DEF AddrsOf
  <2> QED  BY <1>2, <2>1, <2>2 DEF LeftBehind
<1>18. NoFalseNotice'
  BY <1>2, <1>6 DEF NoFalseNotice, OnlyGoneTold
<1> QED  BY <1>8, <1>9, <1>10, <1>11, <1>12, <1>13, <1>14, <1>15, <1>16, <1>17, <1>18

LEMMA RemoveInv ==
    ASSUME Inv, RemoveGone, TypeOK'
    PROVE  Inv'
<1> USE DEF Inv
<1>1. PICK F \in SUBSET SecondCycle :
        /\ pc = "remove" /\ pc' = "idle" /\ CallsFail(F) /\ TakesOut(SecondCycle \ F)
        /\ pending' = (pending \cup FirstCycle) \ (SecondCycle \ F)
        /\ noticed' = noticed \cup FirstCycle /\ snap' = <<>>
        /\ told' = told \cup
             {who[conn[a]] : a \in {b \in Addrs : /\ conn[b] # NoKey
                                      /\ \E k \in FirstCycle : known[k].addr = b}}
        /\ UNCHANGED <<file, sessions, restarts, age>>
  BY RemoveFacts
<1> DEFINE S == SecondCycle \ F
<1>2. /\ FileKept /\ age' = age /\ UNCHANGED sessions
      /\ gen' = gen /\ who' = who /\ gone' = gone /\ cfg' = cfg /\ expired' = expired
  BY <1>1 DEF FileKept, file
<1>3. /\ CfgKeys' = CfgKeys /\ \A k : Lost(k)' <=> Lost(k)
      /\ \A a, k : Belongs(a, k)' <=> Belongs(a, k)
  BY <1>2, FileIs
<1>4. pending' \subseteq DOMAIN known \ S
  BY <1>1 DEF AccountTrue, NothingForgotten, FirstCycle, Absent
<1>5. /\ S \subseteq SecondCycle /\ TakesOut(S) /\ pending' = (pending \cup FirstCycle) \ S
      /\ \A k \in SecondCycle \ S : k \in F
  BY <1>1
<1> HIDE DEF S
<1>6. /\ DOMAIN device' = DOMAIN device \ S /\ DOMAIN known' = DOMAIN known \ S
      /\ \A k \in DOMAIN device' : device'[k] = device[k]
      /\ \A k \in DOMAIN known' : known'[k] = known[k]
      /\ AccountTrue'
      /\ \A a \in Addrs : {owner'[a], hello'[a], conn'[a]} \subseteq 0 .. gen
      /\ \A a \in Addrs : \A k \in {owner'[a], hello'[a], conn'[a]} \ {NoKey} : Belongs(a, k)'
  BY <1>2, <1>4, <1>5, TakenOut
<1>7. DOMAIN snap' = {}
  BY <1>1, NoMap
<1>8. KeysGenerated'
  BY <1>2, <1>3, <1>6, <1>7 DEF KeysGenerated
<1>9. SnapApart'
  BY <1>1, <1>7 DEF SnapApart
<1>10. /\ fails \in Nat /\ fails' \in Nat /\ fails' >= fails /\ (fails' = 0 => fails = 0)
       /\ (F # {} => fails' >= fails + 1)
  BY <1>1, SyncAssumption DEF CallsFail, TypeOK
<1>11. AgeBound'
  <2>1. ASSUME NEW k \in DOMAIN device'
        PROVE  age[k] <= fails' + (IF k \in pending' THEN 1 ELSE 0)
    <3>1. k \in DOMAIN device /\ k \notin S /\ k \in DOMAIN known
      BY <1>6, <2>1 DEF AccountTrue, NothingForgotten
    <3>2. age[k] \in Nat
      BY <3>1, MapIs DEF TypeOK
    <3>3. CASE k \in DOMAIN snap
      <4>1. age[k] = 0
        BY <1>1, <3>3 DEF AgeBound
      <4> QED  BY <1>10, <4>1
    <3>4. CASE k \notin DOMAIN snap
      <4>1. age[k] <= fails + (IF k \in pending THEN 1 ELSE 0) + 1
        BY <1>1, <3>1, <3>4 DEF AgeBound
      <4>2. k \in pending'
        BY <1>5, <3>1, <3>4 DEF FirstCycle, Absent
      <4>3. k \in pending => k \in F
        BY <1>5, <3>1, <3>4 DEF SecondCycle, Absent
      <4>4. CASE k \in pending
        BY <1>10, <3>2, <4>1, <4>2, <4>3, <4>4
      <4>5. CASE k \notin pending
        BY <1>10, <3>2, <4>1, <4>2, <4>5
      <4> QED  BY <4>4, <4>5
    <3> QED  BY <3>3, <3>4
  <2>2. \A k \in DOMAIN device' : fails' + (IF k \in pending' THEN 1 ELSE 0) + 0
                                     = fails' + (IF k \in pending' THEN 1 ELSE 0)
    BY <1>10
  <2> QED  BY <1>1, <1>2, <2>1, <2>2 DEF AgeBound
<1>12. PassedOver'
  <2>1. \A k \in FirstCycle : Lost(k)
    BY <1>1 DEF PassedOver, FirstCycle, Absent
  <2> QED  BY <1>1, <1>3, <1>5, <2>1 DEF PassedOver
<1>13. PendingAnnounced'
  BY <1>1, <1>2, <1>5 DEF PendingAnnounced
<1>14. SwappedOut' /\ LeftBehind'
  BY <1>1 DEF SwappedOut, LeftBehind
<1>15. OnePeerPerAddress'
  BY <1>6, <1>10 DEF OnePeerPerAddress
<1>16. MembersTrue'
  BY <1>2, <1>3, <1>6, <1>7 DEF MembersTrue
<1>17. NoFalseNotice'
  <2>1. ASSUME fails = 0, NEW a \in Addrs, conn[a] # NoKey,
               NEW k \in FirstCycle, known[k].addr = a
        PROVE  who[conn[a]] \in gone
    <3>1. a \notin AddrsOf(snap)
      BY <1>1, <2>1 DEF SwappedOut, FirstCycle, Absent
    <3> QED  BY <1>1, <2>1, <3>1 DEF LeftBehind
  <2> QED  BY <1>1, <1>2, <1>10, <2>1 DEF NoFalseNotice, OnlyGoneTold
<1> QED  BY <1>6, <1>8, <1>9, <1>11, <1>12, <1>13, <1>14, <1>15, <1>16, <1>17

LEMMA RestartInv ==
    ASSUME Inv, Restart, TypeOK'
    PROVE  Inv'
<1> USE DEF Inv
<1>1. /\ pc' = "idle" /\ device' = Wanted /\ known' = Wanted /\ owner' = OwnerIn(Wanted)
      /\ pending' = {} /\ snap' = <<>> /\ noticed' = {} /\ age' = [k \in Keys |-> 0]
      /\ hello' = [a \in Addrs |-> NoKey] /\ conn' = [a \in Addrs |-> NoKey]
      /\ gen' = gen /\ who' = who /\ gone' = gone /\ cfg' = cfg /\ expired' = expired
      /\ fails' = fails /\ told' = told /\ FileKept
  BY DEF Restart, file, FileKept
<1>2. /\ CfgKeys' = CfgKeys /\ \A a, k : Belongs(a, k)' <=> Belongs(a, k)
  BY <1>1, FileIs
<1>3. /\ DOMAIN Wanted \subseteq CfgKeys /\ DOMAIN Wanted \subseteq Keys
      /\ \A k \in DOMAIN Wanted :
            /\ cfg[Wanted[k].addr] # NoPeer /\ cfg[Wanted[k].addr].key = k
  BY WantedIs, MapIs
<1>4. ASSUME NEW a \in Addrs
      PROVE  owner'[a] = NoKey \/ (owner'[a] \in DOMAIN Wanted /\ Wanted[owner'[a]].addr = a)
  BY <1>1 DEF OwnerIn
<1>5. DOMAIN snap' = {}
  BY <1>1, NoMap
<1>6. fails \in Nat /\ gen \in Nat
  BY SyncAssumption DEF TypeOK
<1>7. KeysGenerated'
  <2>1. CfgKeys' \cup expired' \cup DOMAIN known' \cup DOMAIN snap' \subseteq 1 .. gen'
    BY <1>1, <1>2, <1>3, <1>5 DEF KeysGenerated
  <2>2. ASSUME NEW a \in Addrs PROVE {owner'[a], hello'[a], conn'[a]} \subseteq 0 .. gen'
    <3>1. owner'[a] \in 0 .. gen
      BY <1>3, <1>4, <1>6 DEF KeysGenerated, NoKey
    <3> QED  BY <1>1, <1>6, <3>1 DEF NoKey
  <2> QED  BY <1>1, <2>1, <2>2 DEF KeysGenerated
<1>8. AccountTrue'
  BY <1>1 DEF AccountTrue, NothingForgotten
<1>9. SnapApart'
  BY <1>1, <1>5 DEF SnapApart
<1>10. AgeBound'
  <2>1. \A k \in DOMAIN device' : age'[k] = 0
    BY <1>1, <1>3
  <2> QED  BY <1>1, <1>6, <2>1 DEF AgeBound
<1>11. PassedOver' /\ PendingAnnounced' /\ SwappedOut' /\ LeftBehind'
  BY <1>1 DEF PassedOver, PendingAnnounced, SwappedOut, LeftBehind
<1>12. OnePeerPerAddress'
  <2>1. \A k, l \in DOMAIN Wanted : Wanted[k].addr = Wanted[l].addr => k = l
    BY <1>3
  <2> QED  BY <1>1, <2>1 DEF OnePeerPerAddress
<1>13. MembersTrue'
  <2>1. ASSUME NEW a \in Addrs, NEW k \in {owner'[a], hello'[a], conn'[a]} \ {NoKey}
        PROVE  Belongs(a, k)
    <3>1. k \in DOMAIN Wanted /\ Wanted[k].addr = a
      BY <1>1, <1>4, <2>1
    <3> QED  BY <1>3, <3>1 DEF Belongs
  <2> QED  BY <1>1, <1>2, <1>5, <2>1 DEF MembersTrue
<1>14. NoFalseNotice'
  BY <1>1 DEF NoFalseNotice, OnlyGoneTold
<1> QED  BY <1>7, <1>8, <1>9, <1>10, <1>11, <1>12, <1>13, <1>14

-----------------------------------------------------------------------------
(* The theorems.                                                           *)

LEMMA InitInv == Init => Inv
<1> SUFFICES ASSUME Init PROVE Inv
  OBVIOUS
<1>1. TypeOK
  BY InitType
<1>2. DOMAIN device = {} /\ DOMAIN known = {} /\ DOMAIN snap = {} /\ pending = {}
      /\ CfgKeys = {} /\ expired = {}
  BY NoMap DEF Init, CfgKeys
<1>3. \A a \in Addrs : owner[a] = NoKey /\ hello[a] = NoKey /\ conn[a] = NoKey /\ cfg[a] = NoPeer
  BY DEF Init
<1>4. KeysGenerated
  BY <1>2, <1>3 DEF Init, KeysGenerated, NoKey
<1>5. AccountTrue /\ SnapApart /\ AgeBound
  BY <1>2 DEF Init, AccountTrue, NothingForgotten, SnapApart, AgeBound
<1>6. PassedOver /\ PendingAnnounced /\ SwappedOut /\ OnePeerPerAddress
  BY <1>2 DEF Init, PassedOver, PendingAnnounced, SwappedOut, OnePeerPerAddress
<1>7. MembersTrue
  BY <1>2, <1>3 DEF MembersTrue
<1>8. LeftBehind /\ NoFalseNotice
  BY DEF Init, LeftBehind, NoFalseNotice, OnlyGoneTold
<1> QED  BY <1>1, <1>4, <1>5, <1>6, <1>7, <1>8 DEF Inv

LEMMA InvStep == Inv /\ [Next]_vars => Inv'
<1> SUFFICES ASSUME Inv, [Next]_vars PROVE Inv'
  OBVIOUS
<1>1. TypeOK'
  BY TypeStep DEF Inv
<1>2. TypeOK /\ KeysGenerated /\ MembersTrue
  BY DEF Inv
<1>3. CASE Edit
  <2>1. FileMoves /\ Quiet /\ SameKeys
    BY <1>2, <1>3, EditMoves DEF Quiet, SameKeys
  <2> QED  BY <1>1, <2>1, QuietInv
<1>4. CASE Session
  BY <1>1, <1>2, <1>4, SessionMoves, QuietInv
<1>5. CASE Tick
  BY <1>1, <1>5, StartInv, SwapInv, AddInv, RemoveInv DEF Tick
<1>6. CASE Restart
  BY <1>1, <1>6, RestartInv
<1>7. CASE UNCHANGED vars
  <2>1. FileMoves
    BY <1>2, <1>7 DEF vars, FileMoves, CfgKeys, Belongs, KeysGenerated, MembersTrue, TypeOK
  <2>2. Quiet /\ SameKeys
    BY <1>7 DEF vars, Quiet, SameKeys
  <2> QED  BY <1>1, <2>1, <2>2, QuietInv
<1> QED  BY <1>3, <1>4, <1>5, <1>6, <1>7 DEF Next

\* The invariants above hold, whatever is edited, whoever connects and whichever
\* device calls fail between the passes of a tick.
THEOREM SyncInvariant == Spec => []Inv
<1> QED  BY InitInv, InvStep, PTL DEF Spec

\* Whichever device calls fail in whichever pass, the supervisor's account has
\* every peer the device has, so that none stays for ever; a failed re-add too,
\* which may have left the device without the peer.
THEOREM AccountComplete == Spec => []NothingForgotten
<1>1. Inv => NothingForgotten
  BY DEF Inv, AccountTrue
<1> QED  BY <1>1, SyncInvariant, PTL

\* A peer that left the file is off the device when its second tick has ended,
\* and every further tick it stays is the price of one failed call of its own
\* or another peer: the host closes the tunnel of a removed member in time.
THEOREM RemovedInTime == Spec => []GoneInTwoTicks
<1>1. Inv => GoneInTwoTicks
  <2> SUFFICES ASSUME Inv, pc = "idle", NEW k \in DOMAIN device PROVE age[k] <= 1 + fails
    BY DEF GoneInTwoTicks
  <2>1. age[k] \in Nat /\ fails \in Nat
    BY MapIs, SyncAssumption DEF Inv, TypeOK
  <2>2. age[k] <= fails + (IF k \in pending THEN 1 ELSE 0) + 0
    BY DEF Inv, AgeBound
  <2> QED  BY <2>1, <2>2
<1> QED  BY <1>1, SyncInvariant, PTL

\* sync_peers takes out the key a rotation replaced before it adds the new one,
\* and a peer that lost its address before the one that gets it: while the device
\* does what it is told no two of its peers share an address.
THEOREM AddressesApart == Spec => []OnePeerPerAddress
<1>1. Inv => OnePeerPerAddress
  BY DEF Inv
<1> QED  BY <1>1, SyncInvariant, PTL

\* While the device does what it is told, a session is told Removed only when its
\* member was removed or its invite ran out: a rotation, a change of settings and
\* an address given to somebody else tell nobody.
THEOREM OnlyTheRemovedAreTold == Spec => []NoFalseNotice
<1>1. Inv => NoFalseNotice
  BY DEF Inv
<1> QED  BY <1>1, SyncInvariant, PTL

\* A peer leaves the device only after the cycle that announced it, unless its
\* address has a new peer already or its invite was never accepted.
THEOREM AnnouncedFirst == Spec => NoticedFirst
<1> DEFINE Told == \A k \in DOMAIN device \ DOMAIN device' :
                      pc \in {"swap", "remove"} =>
                          \/ k \in noticed \cup expired
                          \/ \E l \in DOMAIN snap : snap[l].addr = device[k].addr
<1>1. ASSUME Inv, [Next]_vars PROVE Told
  <2>1. TypeOK /\ KeysGenerated /\ MembersTrue
    BY <1>1 DEF Inv
  <2>2. CASE UNCHANGED device
    BY <2>2
  <2>3. CASE Edit \/ Session
    <3>1. Quiet
      BY <2>1, <2>3, EditMoves, SessionMoves
    <3> QED  BY <2>2, <3>1 DEF Quiet
  <2>4. CASE StartTick
    BY <2>2, <2>4 DEF StartTick, account
  <2>5. CASE SwapOut
    <3>1. PICK F \in SUBSET RotatedOut : TakesOut(RotatedOut \ F)
      BY <2>1, <2>5, SwapFacts
    <3>2. DOMAIN device' = DOMAIN device \ (RotatedOut \ F)
      BY <3>1 DEF TakesOut, Without
    <3>3. ASSUME NEW k \in DOMAIN device \ DOMAIN device'
          PROVE  \E l \in DOMAIN snap : snap[l].addr = device[k].addr
      <4>1. device[k] = known[k] /\ known[k].addr \in AddrsOf(snap)
        BY <1>1, <3>2 DEF RotatedOut, Inv, AccountTrue
      <4> QED  BY <4>1 DEF AddrsOf
    <3> QED  BY <3>3
  <2>6. CASE AddOrChange
    BY <2>6 DEF AddOrChange
  <2>7. CASE RemoveGone
    <3>1. PICK F \in SUBSET SecondCycle : TakesOut(SecondCycle \ F)
      BY <2>1, <2>7, RemoveFacts
    <3>2. DOMAIN device' = DOMAIN device \ (SecondCycle \ F)
      BY <3>1 DEF TakesOut, Without
    <3>3. \A k \in DOMAIN device \ DOMAIN device' : k \in noticed \cup expired
      BY <1>1, <3>2 DEF SecondCycle, Inv, PendingAnnounced
    <3> QED  BY <3>3
  <2>8. CASE Restart
    BY <2>8 DEF Restart
  <2>9. CASE UNCHANGED vars
    BY <2>2, <2>9 DEF vars
  <2> QED  BY <1>1, <2>3, <2>4, <2>5, <2>6, <2>7, <2>8, <2>9 DEF Next, Tick
<1> QED  BY <1>1, SyncInvariant, PTL DEF Spec, NoticedFirst
=============================================================================
