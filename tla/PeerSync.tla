------------------------------ MODULE PeerSync ------------------------------
(***************************************************************************)
(* How the host's tunnel follows host.toml.  Every five seconds the        *)
(* supervisor loads the file and brings the WireGuard device in line with  *)
(* it in three passes: take out the key a rotation replaced, add what is   *)
(* new and re-add what changed, and remove what is gone, the last in two   *)
(* cycles, so that the member can still be told through its tunnel.  The   *)
(* device may refuse any call; the supervisor keeps its own account of     *)
(* what the device holds and tries again at the next tick.                 *)
(*                                                                         *)
(* Meanwhile members open control sessions and administrators edit the     *)
(* file (see ConfigFile for how; here an edit is one step).  A tick works  *)
(* on the file as it was when the tick began.                              *)
(***************************************************************************)
EXTENDS Naturals, FiniteSets, Functions

CONSTANTS
    Addrs,         \* virtual addresses
    Edits,         \* kinds of edits of host.toml that happen
    MaxKey,        \* keys ever registered
    MaxVer,        \* versions of a peer's settings
    MaxFail,       \* device calls that fail
    MaxRestart,    \* times the tunnel is set up again
    MaxTrouble,    \* both together
    NoPeer         \* no entry for an address

ASSUME SyncAssumption ==
    /\ MaxKey \in Nat /\ MaxVer \in Nat \ {0} /\ MaxFail \in Nat /\ MaxRestart \in Nat
    /\ Edits \subseteq {"append", "reuse", "remove", "rotate", "change", "expire"}
    /\ NoPeer \notin [key : 1 .. MaxKey, ver : 1 .. MaxVer, joined : BOOLEAN]

NoKey == 0
Keys == 1 .. MaxKey

\* What the device and the supervisor know of a peer: PeerSpec, PeerFingerprint.
Specs == [addr : Addrs, ver : 1 .. MaxVer]
PeerMaps == UNION {[D -> Specs] : D \in SUBSET Keys}
Entries == [key : Keys, ver : 1 .. MaxVer, joined : BOOLEAN] \cup {NoPeer}

VARIABLES
    cfg,       \* host.toml: the peer of each address
    expired,   \* keys whose invite ran out before it was accepted
    device,    \* the backend's peers
    owner,     \* per address: the device peer its packets go to
    known,     \* supervise: the peers it believes the device has
    pending,   \* supervise: pending_removal
    snap,      \* the peers that may connect, as loaded by this tick
    pc,        \* where the tick is: "idle", "swap", "add" or "remove"
    hello,     \* per address: the key of a session whose Hello is being accepted
    invite,    \* per address: the key whose acceptance that Hello has still to write
    conn,      \* per address: the key of the registered session
    gen, fails, restarts,
    who,       \* history: the first key of the member that has a key
    gone,      \* history: members removed from the file or expired
    told,      \* history: members whose session was sent Removed
    noticed,   \* history: known keys that had a first removal cycle since last eligible
    age        \* history: ticks begun since a device peer was last eligible

file == <<cfg, expired, gen, who, gone>>
sessions == <<hello, invite, conn>>
account == <<device, owner, known, pending>>
vars == <<cfg, expired, device, owner, known, pending, snap, pc, hello, invite, conn,
          gen, fails, restarts, who, gone, told, noticed, age>>

AddrsOf(map) == {map[k].addr : k \in DOMAIN map}

-----------------------------------------------------------------------------
(* invite_allows_connection: who may connect, by the file and the clock.   *)

Eligible(a) == cfg[a] # NoPeer /\ (cfg[a].joined \/ cfg[a].key \notin expired)

\* The eligible peers as the device should hold them (build_spec).
Wanted == [k \in {cfg[a].key : a \in {b \in Addrs : Eligible(b)}} |->
               LET a == CHOOSE b \in Addrs : cfg[b] # NoPeer /\ cfg[b].key = k
               IN  [addr |-> a, ver |-> cfg[a].ver]]

OwnerIn(map) == [a \in Addrs |-> IF \E k \in DOMAIN map : map[k].addr = a
                                 THEN CHOOSE k \in DOMAIN map : map[k].addr = a ELSE NoKey]

Init ==
    /\ cfg = [a \in Addrs |-> NoPeer] /\ expired = {}
    /\ device = <<>> /\ owner = [a \in Addrs |-> NoKey]
    /\ known = <<>> /\ pending = {} /\ snap = <<>> /\ pc = "idle"
    /\ hello = [a \in Addrs |-> NoKey] /\ invite = [a \in Addrs |-> NoKey]
    /\ conn = [a \in Addrs |-> NoKey]
    /\ gen = 0 /\ fails = 0 /\ restarts = 0
    /\ who = [k \in Keys |-> k] /\ gone = {} /\ told = {} /\ noticed = {}
    /\ age = [k \in Keys |-> 0]

-----------------------------------------------------------------------------
(* The edits of host.toml.                                                 *)

Unsynced == UNCHANGED <<account, snap, pc, fails, restarts, told, noticed, age>>

\* Mutant of Append: the key is not a fresh one.
Append_OldKey(a) ==
    /\ cfg[a] = NoPeer /\ gen < MaxKey
    /\ \/ "append" \in Edits /\ a \notin AddrsOf(known) \cup AddrsOf(snap)
       \/ "reuse" \in Edits
    /\ gen' = gen + 1
    /\ cfg' = [cfg EXCEPT ![a] = [key |-> gen, ver |-> 1, joined |-> FALSE]]
    /\ Unsynced /\ UNCHANGED <<expired, who, gone, sessions>>

\* append_peer; an address that was freed is the first to be given out again.
Append(a) ==
    /\ cfg[a] = NoPeer /\ gen < MaxKey
    /\ \/ "append" \in Edits /\ a \notin AddrsOf(known) \cup AddrsOf(snap)
       \/ "reuse" \in Edits
    /\ gen' = gen + 1
    /\ cfg' = [cfg EXCEPT ![a] = [key |-> gen + 1, ver |-> 1, joined |-> FALSE]]
    /\ Unsynced /\ UNCHANGED <<expired, who, gone, sessions>>

Remove(a) ==
    /\ "remove" \in Edits /\ cfg[a] # NoPeer
    /\ cfg' = [cfg EXCEPT ![a] = NoPeer]
    /\ gone' = gone \cup {who[cfg[a].key]}
    /\ Unsynced /\ UNCHANGED <<expired, gen, who, sessions>>

\* apply_rotate_key, asked for through a session: the peer is looked up by the
\* address alone, be the session that of the member who had it before.
Rotate(a) ==
    /\ "rotate" \in Edits /\ gen < MaxKey
    /\ cfg[a] # NoPeer /\ conn[a] # NoKey
    /\ gen' = gen + 1
    /\ cfg' = [cfg EXCEPT ![a].key = gen + 1]
    /\ who' = [who EXCEPT ![gen + 1] = who[cfg[a].key]]
    /\ expired' = expired \cup {k \in {gen + 1} : cfg[a].key \in expired}
    /\ Unsynced /\ UNCHANGED <<gone, sessions>>

\* Subnets, endpoint or preshared key of a peer.
Change(a) ==
    /\ "change" \in Edits /\ cfg[a] # NoPeer /\ cfg[a].ver < MaxVer
    /\ cfg' = [cfg EXCEPT ![a].ver = @ + 1]
    /\ Unsynced /\ UNCHANGED <<expired, gen, who, gone, sessions>>

\* The clock passes invite_expires_at.
Expire(a) ==
    /\ "expire" \in Edits /\ cfg[a] # NoPeer /\ ~cfg[a].joined
    /\ cfg[a].key \notin expired
    /\ expired' = expired \cup {cfg[a].key}
    /\ gone' = gone \cup {who[cfg[a].key]}
    /\ Unsynced /\ UNCHANGED <<cfg, gen, who, sessions>>

-----------------------------------------------------------------------------
(* Control sessions: accept_invite on the Hello, then register_connection. *)

\* The file is read and the clock compared, by the address alone; a member told
\* to go stays away.
Hello(a) ==
    LET k == owner[a] IN
    /\ k # NoKey /\ hello[a] = NoKey
    /\ who[k] \notin told /\ Eligible(a)
    /\ hello' = [hello EXCEPT ![a] = k]
    /\ invite' = [invite EXCEPT ![a] = IF cfg[a].joined THEN NoKey ELSE cfg[a].key]
    /\ Unsynced /\ UNCHANGED <<file, conn>>

\* The first acceptance is written to the entry of the key that was read; an
\* entry of the address there must be, and the session replaces an earlier one.
Accepted(a) == cfg[a] # NoPeer /\ invite[a] \in {NoKey, cfg[a].key}

Register(a) ==
    /\ hello[a] # NoKey
    /\ hello' = [hello EXCEPT ![a] = NoKey] /\ invite' = [invite EXCEPT ![a] = NoKey]
    /\ \/ /\ Accepted(a)
          /\ cfg' = IF invite[a] = NoKey THEN cfg ELSE [cfg EXCEPT ![a].joined = TRUE]
          /\ conn' = [conn EXCEPT ![a] = hello[a]]
       \/ ~Accepted(a) /\ UNCHANGED <<cfg, conn>>
    /\ Unsynced /\ UNCHANGED <<expired, gen, who, gone>>

Disconnect(a) ==
    /\ conn[a] # NoKey
    /\ conn' = [conn EXCEPT ![a] = NoKey]
    /\ Unsynced /\ UNCHANGED <<file, hello, invite>>

-----------------------------------------------------------------------------
(* The backend: add_peer takes the address over, remove_peer gives up the  *)
(* addresses the peer still has.                                           *)

Added(map, new) ==
    [k \in DOMAIN map \cup DOMAIN new |-> IF k \in DOMAIN new THEN new[k] ELSE map[k]]
Dropped(map, S) == Restrict(map, DOMAIN map \ S)
Released(own, S) == [a \in Addrs |-> IF own[a] \in S THEN NoKey ELSE own[a]]

\* Device calls of one pass that fail.
Failing(S) == {F \in SUBSET S : /\ fails + Cardinality(F) <= MaxFail
                                /\ F # {} => fails + restarts + Cardinality(F) <= MaxTrouble}

Absent == DOMAIN known \ DOMAIN snap

\* The file is loaded; peers that may not connect are passed over from here on.
StartTick ==
    /\ pc = "idle" /\ pc' = "swap"
    /\ snap' = Wanted
    /\ noticed' = (noticed \cap DOMAIN known) \ DOMAIN Wanted
    /\ age' = [k \in Keys |-> IF k \in DOMAIN device \ DOMAIN Wanted THEN age[k] + 1 ELSE 0]
    /\ UNCHANGED <<file, sessions, account, fails, restarts, told>>

\* Mutant of SwapOut: the old key is forgotten before the device has let it go.
SwapOut_Forget ==
    LET rotated == {k \in Absent : known[k].addr \in AddrsOf(snap)} IN
    /\ pc = "swap" /\ pc' = "add"
    /\ \E F \in Failing(rotated) :
        /\ device' = Dropped(device, rotated \ F)
        /\ owner' = Released(owner, rotated \ F)
        /\ known' = Dropped(known, rotated)
        /\ pending' = pending \ (rotated \ F)
        /\ fails' = fails + Cardinality(F)
    /\ UNCHANGED <<file, sessions, snap, restarts, told, noticed, age>>

\* Mutant of SwapOut: a rotated key is removed like any other.
SwapOut_None ==
    LET rotated == {} IN
    /\ pc = "swap" /\ pc' = "add"
    /\ \E F \in Failing(rotated) :
        /\ device' = Dropped(device, rotated \ F)
        /\ owner' = Released(owner, rotated \ F)
        /\ known' = Dropped(known, rotated \ F)
        /\ pending' = pending \ (rotated \ F)
        /\ fails' = fails + Cardinality(F)
    /\ UNCHANGED <<file, sessions, snap, restarts, told, noticed, age>>

\* Pass 1: keys that are gone while a peer has their address were rotated.
SwapOut ==
    LET rotated == {k \in Absent : known[k].addr \in AddrsOf(snap)} IN
    /\ pc = "swap" /\ pc' = "add"
    /\ \E F \in Failing(rotated) :
        /\ device' = Dropped(device, rotated \ F)
        /\ owner' = Released(owner, rotated \ F)
        /\ known' = Dropped(known, rotated \ F)
        /\ pending' = pending \ (rotated \ F)
        /\ fails' = fails + Cardinality(F)
    /\ UNCHANGED <<file, sessions, snap, restarts, told, noticed, age>>

\* Mutant of AddOrChange: only new keys are noticed.
AddOrChange_KeyOnly ==
    LET changed == {}
        new == DOMAIN snap \ DOMAIN known
    IN
    /\ pc = "add" /\ pc' = "remove"
    /\ \E F \in Failing(new \cup changed) : \E cut \in SUBSET (F \cap changed) :
        LET done == (new \cup changed) \ F
            addr == {snap[k].addr : k \in done}
        IN
        /\ device' = Added(Dropped(device, cut), Restrict(snap, done))
        /\ owner' = [a \in Addrs |-> IF a \in addr
                                     THEN CHOOSE k \in done : snap[k].addr = a
                                     ELSE Released(owner, cut)[a]]
        /\ known' = Added(known, Restrict(snap, done))
        /\ fails' = fails + Cardinality(F)
    /\ UNCHANGED <<file, sessions, pending, snap, restarts, told, noticed, age>>

\* Pass 2: new peers are added; changed ones removed and added again, where
\* either call may fail.
AddOrChange ==
    LET changed == {k \in DOMAIN snap \cap DOMAIN known : known[k] # snap[k]}
        new == DOMAIN snap \ DOMAIN known
    IN
    /\ pc = "add" /\ pc' = "remove"
    /\ \E F \in Failing(new \cup changed) : \E cut \in SUBSET (F \cap changed) :
        LET done == (new \cup changed) \ F
            addr == {snap[k].addr : k \in done}
        IN
        /\ device' = Added(Dropped(device, cut), Restrict(snap, done))
        /\ owner' = [a \in Addrs |-> IF a \in addr
                                     THEN CHOOSE k \in done : snap[k].addr = a
                                     ELSE Released(owner, cut)[a]]
        /\ known' = Added(known, Restrict(snap, done))
        /\ fails' = fails + Cardinality(F)
    /\ UNCHANGED <<file, sessions, pending, snap, restarts, told, noticed, age>>

\* Mutant of RemoveGone: the first cycle is not remembered.
RemoveGone_Unmarked ==
    LET first == Absent \ pending
        later == Absent \cap pending
        notified == {a \in Addrs : conn[a] # NoKey /\ \E k \in first : known[k].addr = a}
    IN
    /\ pc = "remove" /\ pc' = "idle"
    /\ noticed' = noticed \cup first
    /\ told' = told \cup {who[conn[a]] : a \in notified}
    /\ \E F \in Failing(later) :
        /\ device' = Dropped(device, later \ F)
        /\ owner' = Released(owner, later \ F)
        /\ known' = Dropped(known, later \ F)
        /\ pending' = pending \ (later \ F)
        /\ fails' = fails + Cardinality(F)
    /\ snap' = <<>>
    /\ UNCHANGED <<file, sessions, restarts, age>>

\* Mutant of RemoveGone: told and removed in one cycle.
RemoveGone_AtOnce ==
    LET first == Absent \ pending
        later == Absent
        notified == {a \in Addrs : conn[a] # NoKey /\ \E k \in first : known[k].addr = a}
    IN
    /\ pc = "remove" /\ pc' = "idle"
    /\ noticed' = noticed \cup first
    /\ told' = told \cup {who[conn[a]] : a \in notified}
    /\ \E F \in Failing(later) :
        /\ device' = Dropped(device, later \ F)
        /\ owner' = Released(owner, later \ F)
        /\ known' = Dropped(known, later \ F)
        /\ pending' = (pending \cup first) \ (later \ F)
        /\ fails' = fails + Cardinality(F)
    /\ snap' = <<>>
    /\ UNCHANGED <<file, sessions, restarts, age>>

\* Pass 3: a peer that is gone is told in one cycle and removed in a later one.
RemoveGone ==
    LET first == Absent \ pending
        later == Absent \cap pending
        notified == {a \in Addrs : conn[a] # NoKey /\ \E k \in first : known[k].addr = a}
    IN
    /\ pc = "remove" /\ pc' = "idle"
    /\ noticed' = noticed \cup first
    /\ told' = told \cup {who[conn[a]] : a \in notified}
    /\ \E F \in Failing(later) :
        /\ device' = Dropped(device, later \ F)
        /\ owner' = Released(owner, later \ F)
        /\ known' = Dropped(known, later \ F)
        /\ pending' = (pending \cup first) \ (later \ F)
        /\ fails' = fails + Cardinality(F)
    /\ snap' = <<>>
    /\ UNCHANGED <<file, sessions, restarts, age>>

\* The tunnel is set up again from the file (a restart of the daemon, a new
\* listen port): all sessions end, the supervisor starts from what it set up.
\* A crash inside a tick leads to the same state as one before it.
Restart ==
    /\ pc = "idle"
    /\ fails + restarts < MaxTrouble
    /\ restarts < MaxRestart /\ restarts' = restarts + 1
    /\ device' = Wanted /\ owner' = OwnerIn(Wanted) /\ known' = Wanted
    /\ pending' = {} /\ snap' = <<>> /\ pc' = "idle"
    /\ hello' = [a \in Addrs |-> NoKey] /\ invite' = [a \in Addrs |-> NoKey]
    /\ conn' = [a \in Addrs |-> NoKey]
    /\ noticed' = {} /\ age' = [k \in Keys |-> 0]
    /\ UNCHANGED <<file, fails, told>>

Edit == \E a \in Addrs : Append(a) \/ Remove(a) \/ Rotate(a) \/ Change(a) \/ Expire(a)
Session == \E a \in Addrs : Hello(a) \/ Register(a) \/ Disconnect(a)
Tick == StartTick \/ SwapOut \/ AddOrChange \/ RemoveGone

Next == Edit \/ Session \/ Tick \/ Restart

Spec == Init /\ [][Next]_vars

\* The supervisor's timer fires for ever; an accepted Hello is answered.
FairSpec == Spec /\ WF_vars(Tick) /\ \A a \in Addrs : WF_vars(Register(a))
-----------------------------------------------------------------------------
(* Properties.                                                             *)

\* Every variable has its type.
TypeOK ==
    /\ cfg \in [Addrs -> Entries] /\ expired \subseteq Keys
    /\ device \in PeerMaps /\ known \in PeerMaps /\ snap \in PeerMaps
    /\ owner \in [Addrs -> Keys \cup {NoKey}] /\ pending \subseteq Keys
    /\ pc \in {"idle", "swap", "add", "remove"}
    /\ hello \in [Addrs -> Keys \cup {NoKey}] /\ conn \in [Addrs -> Keys \cup {NoKey}]
    /\ invite \in [Addrs -> Keys \cup {NoKey}]
    /\ gen \in 0 .. MaxKey /\ fails \in 0 .. MaxFail /\ restarts \in 0 .. MaxRestart
    /\ who \in [Keys -> Keys] /\ gone \subseteq Keys /\ told \subseteq Keys
    /\ noticed \subseteq Keys /\ age \in [Keys -> Nat]

\* The supervisor never forgets a peer the device still has (it would stay for
\* ever), whichever calls fail in whichever pass; and what waits for its second
\* removal cycle is a peer it knows.
NothingForgotten ==
    /\ DOMAIN device \subseteq DOMAIN known
    /\ pending \subseteq DOMAIN known

\* A peer that left the file (or whose invite ran out) is off the device when
\* its second tick has ended, one tick later for each device call that failed.
GoneInTwoTicks ==
    pc = "idle" => \A k \in DOMAIN device : age[k] <= 1 + fails

\* sync_peers: a peer leaves the device only after a cycle in which its removal
\* was announced, unless another peer has its address by then (a rotation, or
\* a new member that got the freed address) or its invite had run out before
\* it was accepted, which leaves it marked as announced.
NoticedFirst ==
    [][\A k \in DOMAIN device \ DOMAIN device' :
          pc \in {"swap", "remove"} =>
              \/ k \in noticed \cup expired
              \/ \E l \in DOMAIN snap : snap[l].addr = device[k].addr]_vars

\* sync_peers: a rotation sends no Removed; only members that were removed from
\* the file, or whose invite ran out, are told so.
OnlyGoneTold == told \subseteq gone

\* The same while no device call has failed.
NoFalseNotice == fails = 0 => OnlyGoneTold

\* sync_peers: two peers of one address never exist side by side on the device,
\* as long as the device does what it is told.
OnePeerPerAddress ==
    fails = 0 => \A k, l \in DOMAIN device : device[k].addr = device[l].addr => k = l

\* When the edits are over the device comes to hold exactly the peers that may
\* connect, with their current settings, and each address reaches its peer.
Follows == device = Wanted /\ \A k \in DOMAIN Wanted : owner[Wanted[k].addr] = k
DeviceFollowsFile == <>[]Follows
=============================================================================
