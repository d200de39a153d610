---------------------------- MODULE DirectPeers ----------------------------
(***************************************************************************)
(* A running member tunnel seen from its device: the direct path to one    *)
(* other member (direct.rs) and the peer of the host with the subnets      *)
(* advertised through it (the member half of the supervision cycle in      *)
(* commands/tunnel.rs).  Every cycle takes one copy of the last received   *)
(* ledger; a new ledger may land while the cycle is under way.  Calls of   *)
(* the backend may fail, at most MaxFail times.                            *)
(***************************************************************************)
EXTENDS Naturals, FiniteSets

CONSTANTS Ends,      \* endpoints the host has seen the other member at
          Subnets,   \* subnets other members advertise
          MaxFail,   \* bound: backend calls that fail
          MaxLedger  \* bound: ledgers that arrive

DirAssumption == MaxFail \in Nat /\ MaxLedger \in Nat /\ IsFiniteSet(Subnets)

None == "none"

VARIABLES
  ledger,   \* last ledger received: endpoint worth trying (or None), subnets
  enabled,  \* `direct` of the configuration
  readable, \* the configuration file can be read
  state,    \* DirectManager.states of the other member
  cool,     \* DirectManager.cooldown of the other member
  dev,      \* its peer on the device: absent, probe (no AllowedIPs), routed
  fresh,    \* the device reports a recent handshake with it
  step,     \* where the cycle is: idle, or between its two halves
  got,      \* the ledger this cycle works with
  hostPeer, \* the host's peer is on the device
  hostNets, \* subnets among its AllowedIPs
  extra,    \* member_extra: subnets last applied to the host's peer
  routes,   \* OS routes this tunnel has added
  leaked,   \* history: a removal of the direct peer failed and no call on it
            \* has succeeded since
  crossed,  \* history: a ledger landed in the middle of a cycle
  count     \* failures and ledgers so far

dirVars == <<ledger, enabled, readable, state, cool, dev, fresh, step, got,
             hostPeer, hostNets, extra, routes, leaked, crossed, count>>
pathVars == <<state, cool, dev, fresh, leaked>>
hostVars == <<hostPeer, hostNets, extra, routes>>

Endpoint == Ends \cup {None}
Ledger == [end: Endpoint, nets: SUBSET Subnets]
Idle == [end |-> None, phase |-> "none", quiet |-> FALSE, late |-> FALSE]
Cold == [end |-> None, age |-> "none"]

DirTypeOK ==
  /\ ledger \in Ledger /\ got \in Ledger
  /\ enabled \in BOOLEAN /\ readable \in BOOLEAN /\ fresh \in BOOLEAN
  /\ state \in [end: Endpoint, phase: {"none", "trying", "direct"},
                quiet: BOOLEAN, late: BOOLEAN]
  /\ cool \in [end: Endpoint, age: {"none", "young", "due", "old"}]
  /\ dev \in {"absent", "probe", "routed"}
  /\ step \in {"idle", "routes"}
  /\ hostPeer \in BOOLEAN /\ leaked \in BOOLEAN /\ crossed \in BOOLEAN
  /\ hostNets \subseteq Subnets /\ extra \subseteq Subnets
  /\ routes \subseteq Subnets
  /\ count \in [fail: 0..MaxFail, ledger: 0..MaxLedger]

DirInit ==
  /\ ledger = [end |-> None, nets |-> {}] /\ got = ledger
  /\ enabled \in BOOLEAN /\ readable = TRUE
  /\ state = Idle /\ cool = Cold /\ dev = "absent" /\ fresh = FALSE
  /\ step = "idle"
  /\ hostPeer = TRUE /\ hostNets = {} /\ extra = {} /\ routes = {}
  /\ leaked = FALSE /\ crossed = FALSE
  /\ count = [fail |-> 0, ledger |-> 0]

\* The outcomes of n calls of the backend, true for a call that succeeds.
Outcomes(n) == {r \in [1..n -> BOOLEAN] :
                  Cardinality({i \in 1..n : ~r[i]}) <= MaxFail - count.fail}
Counted(r) ==
  count' = [count EXCEPT !.fail = @ + Cardinality({i \in DOMAIN r : ~r[i]})]

---------------------------------------------------------------------------
(* The environment                                                         *)

\* A ledger comes over the tunnel, so it takes the host's peer.
LedgerArrives ==
  /\ hostPeer /\ count.ledger < MaxLedger
  /\ \E l \in Ledger : l # ledger /\ ledger' = l
  /\ count' = [count EXCEPT !.ledger = @ + 1]
  /\ crossed' = (crossed \/ step = "routes")
  /\ UNCHANGED <<enabled, readable, pathVars, step, got, hostVars>>

\* MAX_ENDPOINT_AGE: an endpoint in the ledger becomes too old to try.
EndpointAges ==
  /\ ledger.end # None /\ ledger' = [ledger EXCEPT !.end = None]
  /\ UNCHANGED <<enabled, readable, pathVars, step, got, hostVars, crossed,
                 count>>

\* A cycle reads the configuration once, at its start.
Configure ==
  /\ step = "idle"
  /\ \/ enabled' = ~enabled /\ UNCHANGED readable
     \/ readable' = ~readable /\ UNCHANGED enabled
  /\ UNCHANGED <<ledger, pathVars, step, got, hostVars, crossed, count>>

\* The two peers complete a handshake, or the last one grows older than
\* HANDSHAKE_STALE.
Handshake ==
  /\ dev # "absent" /\ fresh' = ~fresh
  /\ UNCHANGED <<ledger, enabled, readable, state, cool, dev, leaked, step,
                 got, hostVars, crossed, count>>

\* TRYING_TIMEOUT, RETRY_INTERVAL and twice RETRY_INTERVAL go by.
Elapse ==
  /\ \/ /\ state.phase = "trying" /\ ~state.late
        /\ state' = [state EXCEPT !.late = TRUE] /\ UNCHANGED cool
     \/ /\ cool.age \in {"young", "due"}
        /\ cool' = [cool EXCEPT !.age = IF @ = "young" THEN "due" ELSE "old"]
        /\ UNCHANGED state
  /\ UNCHANGED <<ledger, enabled, readable, dev, fresh, leaked, step, got,
                 hostVars, crossed, count>>

---------------------------------------------------------------------------
(* DirectManager::tick                                                     *)

\* What desired() keeps of the ledger.  A configuration that cannot be read
\* counts as `direct = true`.
Wanted == IF enabled \/ ~readable THEN ledger.end ELSE None

\* Failures older than two intervals are forgotten at the start of a cycle.
Kept == IF cool.age = "old" THEN Cold ELSE cool

\* The device after removing the direct peer: gone, or what it was when the
\* call fails.
AfterRemove(ok) == IF ok THEN "absent" ELSE dev
\* drop_peer forgets the peer whatever the device answers.
Forget(ok) ==
  /\ state' = Idle
  /\ dev' = AfterRemove(ok) /\ fresh' = (fresh /\ ~ok)
  /\ leaked' = (~ok /\ dev # "absent")

\* try_add: a probe without AllowedIPs; adding a key the device has replaces
\* its AllowedIPs.
Probe(end, quiet, ok, before, wasFresh, wasLeaked) ==
  /\ state' = IF ok THEN [end |-> end, phase |-> "trying", quiet |-> quiet,
                          late |-> FALSE]
                    ELSE Idle
  /\ dev' = IF ok THEN "probe" ELSE before
  /\ fresh' = wasFresh
  /\ leaked' = (wasLeaked /\ ~ok)

Gone ==
  /\ Wanted = None /\ state.phase # "none"
  /\ \E r \in Outcomes(1) : Forget(r[1]) /\ Counted(r)
  /\ cool' = Kept

Rebind ==
  /\ Wanted # None /\ state.phase # "none" /\ state.end # Wanted
  /\ \E r \in Outcomes(2) :
        /\ Probe(Wanted, FALSE, r[2], AfterRemove(r[1]), fresh /\ ~r[1],
                 ~r[1])
        /\ Counted(r)
  /\ cool' = Cold

Matched == Wanted # None /\ state.phase # "none" /\ state.end = Wanted

\* A handshake was seen: the /32 moves to the direct peer.
Establish ==
  /\ Matched /\ state.phase = "trying" /\ fresh
  /\ \E r \in Outcomes(1) :
        /\ IF r[1]
             THEN /\ state' = [state EXCEPT !.phase = "direct",
                                            !.quiet = FALSE, !.late = FALSE]
                  /\ dev' = "routed" /\ cool' = Cold
             ELSE cool' = Kept /\ UNCHANGED <<state, dev>>
        /\ Counted(r)
  /\ UNCHANGED <<fresh, leaked>>

\* A mutant: a path that fails is not taken off the device.
Fail_Keep ==
  /\ Matched /\ ~fresh
  /\ state.phase = "direct" \/ state.late
  /\ \E r \in Outcomes(1) :
        /\ state' = Idle /\ Counted(r)
        /\ UNCHANGED <<dev, fresh, leaked>>
  /\ cool' = [end |-> Wanted, age |-> "young"]

\* No handshake in time, or none for too long: back to the relay.
Fail ==
  /\ Matched /\ ~fresh
  /\ state.phase = "direct" \/ state.late
  /\ \E r \in Outcomes(1) : Forget(r[1]) /\ Counted(r)
  /\ cool' = [end |-> Wanted, age |-> "young"]

Add ==
  /\ Wanted # None /\ state.phase = "none"
  /\ ~(Kept.end = Wanted /\ Kept.age = "young")
  /\ \E r \in Outcomes(1) :
        /\ Probe(Wanted, Kept.end = Wanted, r[1], dev, fresh, leaked)
        /\ Counted(r)
  /\ cool' = Cold

KeepPath ==
  /\ \/ Wanted = None /\ state.phase = "none"
     \/ Matched /\ IF fresh THEN state.phase = "direct"
                   ELSE state.phase = "trying" /\ ~state.late
     \/ /\ Wanted # None /\ state.phase = "none"
        /\ Kept.end = Wanted /\ Kept.age = "young"
  /\ cool' = Kept
  /\ UNCHANGED <<state, dev, fresh, leaked, count>>

\* The first half of a cycle: copy the ledger, then DirectManager::tick.
TickDirect ==
  /\ step = "idle" /\ step' = "routes" /\ got' = ledger
  /\ Gone \/ Rebind \/ Establish \/ Fail \/ Add \/ KeepPath
  /\ UNCHANGED <<ledger, enabled, readable, hostVars, crossed>>

---------------------------------------------------------------------------
(* The second half of a cycle: the host's peer and the OS routes           *)

\* A mutant: the subnets count as applied whatever the device answers.
RebindHost_Early(r) ==
  /\ hostPeer' = (r[2] /\ r[1]) \/ (hostPeer /\ ~r[1])
  /\ hostNets' = IF r[1] /\ r[2] THEN got.nets ELSE hostNets
  /\ extra' = got.nets

\* rebind_host_peer removes, then adds; the applied set moves only when both
\* succeed, so any other outcome is tried again in the next cycle.
RebindHost(r) ==
  /\ hostPeer' = IF r[1] THEN r[2] ELSE hostPeer
  /\ hostNets' = IF r[1] THEN IF r[2] THEN got.nets ELSE {} ELSE hostNets
  /\ extra' = IF r[1] /\ r[2] THEN got.nets ELSE extra

\* sync_routes: a subnet whose call fails keeps its old state.
SyncRoutes(failed) ==
  routes' = {n \in Subnets : IF n \in failed THEN n \in routes
                                             ELSE n \in got.nets}
RouteCalls == (got.nets \ routes) \cup (routes \ got.nets)

TickRoutes ==
  /\ step = "routes" /\ step' = "idle"
  /\ \E failed \in SUBSET RouteCalls :
       IF got.nets # extra /\ readable
         THEN \E r \in Outcomes(2) :
                /\ RebindHost(r) /\ (r[1] \/ r[2])
                /\ count' = [count EXCEPT !.fail =
                     @ + Cardinality({i \in 1..2 : ~r[i]})
                       + Cardinality(failed)]
                /\ SyncRoutes(failed)
         ELSE /\ UNCHANGED <<hostPeer, hostNets, extra>>
              /\ count' = [count EXCEPT !.fail = @ + Cardinality(failed)]
              /\ SyncRoutes(failed)
  /\ count'.fail <= MaxFail
  /\ UNCHANGED <<ledger, enabled, readable, pathVars, got, crossed>>

DirNext == \/ LedgerArrives \/ EndpointAges \/ Configure \/ Handshake \/ Elapse
           \/ TickDirect \/ TickRoutes

Spec == DirInit /\ [][DirNext]_dirVars

---------------------------------------------------------------------------
\* direct.rs drop_peer: traffic to the other member leaves the relay only
\* while the manager knows it has a direct path; the one exception is a
\* removal the device refused, which the manager forgets.
RelayKept == dev = "routed" /\ ~leaked => state.phase = "direct"

\* tunnel.rs rebind_host_peer: when the host's peer is off the device, the
\* next cycle puts it back: the subnets it would apply still differ from
\* those applied.  A ledger that lands in the middle of the cycle may take
\* the difference away.
HostPeerRetried ==
  /\ ~hostPeer /\ ~crossed => ledger.nets # extra
  /\ hostPeer => hostNets = extra

=============================================================================
