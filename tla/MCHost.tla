------------------------------- MODULE MCHost -------------------------------
(***************************************************************************)
(* Model checking of the host's file and of those who act on it: the       *)
(* editors of host.toml, the requests the host carries out for members,    *)
(* the session with one member, the tunnels of the daemon, and the direct  *)
(* peers of a member.  The modules share no state, so one run checks them  *)
(* side by side: the initial state chooses the part, and only that part    *)
(* moves.                                                                  *)
(***************************************************************************)
EXTENDS ConfigFile

CONSTANTS Askers, First, Groups, Asked, EditedOps, MaxOps, MaxConns, MaxRev, MaxWire,
          Nets, Fixed, FixedName, IfNames, MaxTunnels, MaxFaults, MaxEnds, Ends,
          Subnets, MaxFail, MaxLedger

VARIABLES part,
          reqFile, job, ver, crossed, ops, after,
          sessFile, needs, tick, dist, noticed, cut, sessConn, reg, rtt, down, link,
          opened, ledger, ended,
          serving, table, tableLock, startJob, tun, nextTunnel, kernel, router, book,
          raced, rough, dlCount,
          dirLedger, enabled, readable, state, cool, dev, fresh, step, got, hostPeer,
          hostNets, extra, routes, leaked, dirCrossed, count

R == INSTANCE HostRequests WITH file <- reqFile
S == INSTANCE ControlSession WITH file <- sessFile, conn <- sessConn
T == INSTANCE DaemonLifecycle WITH lock <- tableLock, job <- startJob,
                                       count <- dlCount, dev <- kernel,
                                       next <- nextTunnel, active <- table,
                                       Clash <- {{1, 3}}
D == INSTANCE DirectPeers WITH ledger <- dirLedger, crossed <- dirCrossed

ASSUME HostAssumption == /\ R!RequestsAssumption /\ S!SessionAssumption
                         /\ T!LifecycleAssumption /\ D!DirAssumption

requestsState == <<reqFile, job, ver, crossed, ops, after>>
sessionState == <<sessFile, needs, tick, dist, noticed, cut, sessConn, reg, rtt, down,
                  link, opened, ledger, ended>>
tunnelsState == <<serving, table, tableLock, startJob, tun, nextTunnel, kernel,
                  router, book, raced, rough, dlCount>>
directState == <<dirLedger, enabled, readable, state, cool, dev, fresh, step, got,
                 hostPeer, hostNets, extra, routes, leaked, dirCrossed, count>>
allVars == <<part, vars, requestsState, sessionState, tunnelsState, directState>>

HostInit == /\ part \in {"edits", "requests", "session", "tunnels", "direct"}
            /\ Init /\ R!Init /\ S!Init /\ T!Init /\ D!DirInit
            /\ part # "session" => needs
            /\ part # "direct" => enabled
            /\ part # "tunnels" => book = {}

EditsStep == Next /\ UNCHANGED <<requestsState, sessionState, tunnelsState,
                                     directState>>
RequestsStep == R!Next /\ UNCHANGED <<vars, sessionState, tunnelsState, directState>>
SessionStep == S!Next /\ UNCHANGED <<vars, requestsState, tunnelsState, directState>>
TunnelsStep == T!Next /\ UNCHANGED <<vars, requestsState, sessionState, directState>>
DirectStep == D!DirNext /\ UNCHANGED <<vars, requestsState, sessionState, tunnelsState>>

HostNext == /\ UNCHANGED part
            /\ \/ part = "edits" /\ EditsStep
               \/ part = "requests" /\ RequestsStep
               \/ part = "session" /\ SessionStep
               \/ part = "tunnels" /\ TunnelsStep
               \/ part = "direct" /\ DirectStep

HostSpec == HostInit /\ [][HostNext]_allVars

AllKinds == {"append", "remove", "rotate", "label", "accept", "approve", "record",
             "deny", "policy"}

(* The state of every part has its type.                                   *)
HostTypeOK == TypeOK /\ R!TypeOK /\ S!TypeOK /\ T!TypeOK /\ D!DirTypeOK

(* What members ask for: DNS names stay apart unless two processes overlap *)
(* (set_peer_dns_name), and of a member whose administration ended one     *)
(* request may still get through (apply_admin_op).  The session: the       *)
(* registry holds the connection that is served (register_connection), and *)
(* the isolation of a member that awaits approval is restored by the next  *)
(* distribution (host_writer).                                             *)
ControlSound == /\ R!LabelsApart /\ R!OneLateWrite
                /\ S!RegistryTrue /\ S!WindowCloses

(* The tunnels of the daemon: listed ones never overlap (plan_interface),  *)
(* an interface belongs to a task that will remove it (tear_down), a       *)
(* supervised tunnel has its interface unless two tasks of it met, and a   *)
(* daemon that ends undisturbed leaves no interface (serve, stop_all).     *)
TunnelsSound == T!TunnelsApart /\ T!DeviceOwned /\ T!DeviceKept /\ T!NothingLeft

(* Direct peers: traffic leaves the relay only for a direct path           *)
(* (DirectManager::tick), and the host's peer is put back by the next      *)
(* cycle (rebind_host_peer).                                               *)
PathsSound == D!RelayKept /\ D!HostPeerRetried
=============================================================================
