---------------------------- MODULE PhoneEngine ----------------------------
(***************************************************************************)
(* How the phone's tunnel finds the host again (engine.rs, poke_tunnel and *)
(* the service's watchers).  The timer thread moves to the next endpoint   *)
(* when no handshake comes; a change of network, or the watchdog, replaces *)
(* the UDP socket.  The two do not exclude each other: a rebind reads the  *)
(* endpoint in use, the timer may then pick another, and each then works   *)
(* on the socket it knows.                                                 *)
(*                                                                         *)
(* A tick is ten seconds.  What takes less than a tick and is due happens  *)
(* before the next: a handshake that can succeed, a rotation, a poke.      *)
(***************************************************************************)
EXTENDS Naturals

CONSTANTS N,             \* the endpoints are 0..N-1
          Nets, NoNet,   \* the networks the phone may be on, and none
          Reach,         \* per network, the endpoints the host answers at
          Unroutable,    \* endpoints to which every send fails at once
          RotateAfter, FailGap, PokeGap, DeadWait, StaleAge, DeadAge, RekeyAge,
          MaxMoves, MaxLate,
          MaxCross       \* how often a rotation and a rebind overlap

Ends == 0..(N - 1)
Never == DeadAge + 1     \* the age of a handshake that never was, or is older

VARIABLES net,           \* the network the phone is on
          sock,          \* [to, via, gen]: the installed socket
          peer, turn,    \* current_peer; the timer's endpoint_index
          age,           \* of the last handshake
          rebound,       \* no handshake since the last rebind
          rested,        \* since the last rotation or rebind, up to RotateAfter
          asked,         \* a handshake was asked for on this socket
          failing,       \* send_failing
          event, quietOn, \* a network event not delivered yet; the 3 s after a poke
          rebind,        \* the rebind under way: what it read
          pick,          \* the rotation under way: the endpoint and the socket's gen
          poked, deadFor, \* the watchdog's lastPokeAt and deadSince
          waited,        \* ticks a host within reach was not reached
          late,          \* an answer on the socket just replaced may still come
          moves, lates, crossed

engineState == <<net, sock, peer, turn, age, rebound, rested, asked, failing, event, quietOn,
                 rebind, pick, poked, deadFor, waited, late, moves, lates,
                 crossed>>
route == <<sock, peer, turn>>
dog == <<poked, deadFor>>

Least(a, b) == IF a < b THEN a ELSE b
Bound == (1 + MaxLate) * (StaleAge + DeadWait + RotateAfter * (N + 1)) + MaxCross * RotateAfter * N

EngineInit ==
  /\ net \in Nets /\ sock = [to |-> 0, via |-> net, gen |-> 0] /\ peer = 0 /\ turn = 0
  /\ age = Never /\ rebound = FALSE /\ rested = 0 /\ asked = TRUE /\ failing = FALSE
  /\ event = FALSE /\ quietOn = FALSE /\ rebind = {} /\ pick = {}
  /\ poked = PokeGap /\ deadFor = 0 /\ waited = 0 /\ late = FALSE
  /\ moves = 0 /\ lates = 0 /\ crossed = 0

Reaches == net # NoNet /\ sock.via = net /\ sock.to \in Reach[net] \ Unroutable
Joined == Reaches /\ age <= RekeyAge /\ ~rebound

(* ---- The host's answer --------------------------------------------------- *)

HandshakeDue == Reaches /\ (asked \/ age >= RekeyAge)
Handshake ==
  /\ HandshakeDue /\ age' = 0 /\ asked' = FALSE /\ rebound' = FALSE
  /\ UNCHANGED <<net, route, rested, failing, event, quietOn, rebind, pick, dog, waited, late,
                 moves, lates, crossed>>

(* The answer to a handshake asked for on the socket just replaced; it     *)
(* counts as one since the rebind.                                         *)
LateHandshake ==
  /\ late /\ late' = FALSE /\ rebound /\ lates < MaxLate /\ lates' = lates + 1
  /\ age' = 0 /\ rebound' = FALSE /\ asked' = FALSE
  /\ UNCHANGED <<net, route, rested, failing, event, quietOn, rebind, pick, dog, waited, moves,
                 crossed>>

(* A rotation and a rebind overlap.                                        *)
Overlaps(other) == IF other = {} THEN UNCHANGED crossed
                   ELSE crossed < MaxCross /\ crossed' = crossed + 1

(* ---- The timer ------------------------------------------------------------- *)

Dead == age > DeadAge \/ rebound \/ age = Never
RotateDue == Dead /\ rested >= RotateAfter /\ pick = {}
RotatePicks ==
  /\ RotateDue /\ ~HandshakeDue /\ Overlaps(rebind) /\ rested' = 0
  /\ turn' = (turn + 1) % N /\ pick' = {[to |-> turn', gen |-> sock.gen]}
  /\ UNCHANGED <<net, sock, peer, age, rebound, asked, failing, event, quietOn, rebind, dog, waited,
                 late, moves, lates>>
(* connect fails without a network; on a socket replaced meanwhile it      *)
(* changes nothing but the endpoint on record.                             *)
RotateConnects ==
  /\ pick # {} /\ pick' = {}
  /\ \E p \in pick :
       IF net = NoNet THEN UNCHANGED <<sock, peer, asked>>
       ELSE /\ peer' = p.to
            /\ IF p.gen = sock.gen THEN sock' = [sock EXCEPT !.to = p.to] /\ asked' = TRUE
               ELSE UNCHANGED <<sock, asked>>
  /\ UNCHANGED <<net, turn, age, rebound, rested, failing, event, quietOn, rebind, dog, waited,
                 late, moves, lates, crossed>>

(* ---- Rebinding ----------------------------------------------------------------- *)

(* poke_tunnel, one at a time: a new socket, connected to the endpoint in  *)
(* use; without a network it gives up.                                     *)
RebindReads ==
  rebind' = IF net = NoNet THEN {} ELSE {[to |-> peer, via |-> net]}
RebindInstalls ==
  /\ rebind # {} /\ rebind' = {}
  /\ \E r \in rebind : sock' = [to |-> r.to, via |-> r.via, gen |-> (sock.gen + 1) % 2]
  /\ rebound' = TRUE /\ rested' = 0 /\ asked' = TRUE /\ late' = Reaches
  /\ UNCHANGED <<net, peer, turn, age, failing, event, quietOn, pick, dog, waited, moves, lates,
                 crossed>>

(* A network event rebinds, unless another did in the last three seconds.  *)
NetworkEvent ==
  /\ event /\ event' = FALSE
  /\ IF quietOn THEN UNCHANGED <<quietOn, rebind, crossed>>
     ELSE rebind = {} /\ quietOn' = TRUE /\ RebindReads /\ Overlaps(pick)
  /\ UNCHANGED <<net, route, age, rebound, rested, asked, failing, pick, dog, waited, late,
                 moves, lates>>
EventMissed ==
  /\ event /\ event' = FALSE
  /\ UNCHANGED <<net, route, age, rebound, rested, asked, failing, quietOn, rebind, pick, dog, waited,
                 late, moves, lates, crossed>>

(* The watchdog: while sends fail, every ten seconds; while the handshake  *)
(* is old for thirty seconds, every thirty.                                *)
PokeOnlyFailing == failing /\ poked >= FailGap
PokeDue == \/ failing /\ poked >= FailGap
           \/ deadFor > DeadWait /\ poked >= PokeGap
WatchdogPokes ==
  /\ PokeDue /\ rebind = {} /\ Overlaps(pick) /\ poked' = 0 /\ RebindReads
  /\ UNCHANGED <<net, route, age, rebound, rested, asked, failing, event, quietOn, pick,
                 deadFor, waited, late, moves, lates>>

(* ---- Time and the network -------------------------------------------------------- *)

Moves ==
  /\ moves < MaxMoves /\ moves' = moves + 1
  /\ \E n \in (Nets \cup {NoNet}) \ {net} : net' = n
  /\ event' = TRUE /\ waited' = 0
  /\ UNCHANGED <<route, age, rebound, rested, asked, failing, quietOn, rebind, pick, dog, late,
                 lates, crossed>>

(* Ten seconds pass.  A send on a socket of another network may fail or go *)
(* nowhere.                                                                *)
Tick ==
  /\ ~HandshakeDue /\ ~RotateDue /\ ~PokeDue /\ rebind = {} /\ pick = {} /\ ~event
  /\ age' = Least(age + 1, Never) /\ rested' = Least(rested + 1, RotateAfter)
  /\ quietOn' = FALSE /\ late' = FALSE /\ poked' = Least(poked + 1, PokeGap)
  /\ deadFor' = IF age' <= StaleAge THEN 0 ELSE Least(deadFor + 1, DeadWait + 1)
  /\ failing' \in IF net = NoNet \/ sock.to \in Unroutable THEN {TRUE}
                  ELSE IF sock.via # net THEN BOOLEAN ELSE {FALSE}
  /\ waited' = IF net = NoNet \/ Reach[net] \ Unroutable = {} \/ Joined THEN 0
               ELSE Least(waited + 1, Bound + 1)
  /\ UNCHANGED <<net, route, rebound, asked, event, rebind, pick, moves, lates, crossed>>

EngineNext == \/ Handshake \/ LateHandshake \/ RotatePicks \/ RotateConnects
              \/ RebindInstalls \/ NetworkEvent \/ EventMissed \/ WatchdogPokes
              \/ Moves \/ Tick

EngineSpec == EngineInit /\ [][EngineNext]_engineState

-----------------------------------------------------------------------------
EngineTypeOK ==
  /\ {sock.to, peer, turn} \subseteq Ends /\ sock.via \in Nets /\ age \in 0..Never
  /\ waited \in 0..(Bound + 1)

(* Whatever events are missed and however rotations and rebinds cross, a   *)
(* phone whose host can be reached at one of its endpoints does reach it   *)
(* within the time of a stale handshake, the watchdog's wait and one turn  *)
(* through the endpoints; a late answer costs that time once more, an      *)
(* overlap one turn (timer_loop, rebind, startKeyWatchdog).                *)
EngineSound == waited <= Bound

(* The doc comment of current_endpoint: it is the endpoint now in use.     *)
SocketTrue == rebind = {} /\ pick = {} /\ net # NoNet => sock.to = peer
=============================================================================
