---------------------------- MODULE KeyRotation ----------------------------
(***************************************************************************)
(* Device-key rotation of one member (ADR-0020).  The member holds its     *)
(* key in member.key (keyFile) and, while a change is under way, the new   *)
(* key in member.key.new (newFile); the host holds the member's public key *)
(* in host.toml (cfg) and, until its next 5 s re-read, possibly another    *)
(* one in the WireGuard device (wg).  The two talk over control sessions,  *)
(* TCP connections through the tunnel, so a request or a reply travels     *)
(* only while the key the tunnel runs with is one the host's device knows. *)
(*                                                                         *)
(* A key is the number of its generation; NoKey stands for a file that is  *)
(* absent or whose content is not a key (written only in part).            *)
(*                                                                         *)
(* A restart of the tunnel in place aborts the task that owns the control  *)
(* session but not the reader and writer it spawned, and the MemberLink    *)
(* outlives the restart: a session may go on, unowned, and still fill the  *)
(* link's only rotate_result slot.  A reply says accepted or rejected and  *)
(* not for which key; the field "key" is a history annotation that no      *)
(* guard reads.                                                            *)
(***************************************************************************)
EXTENDS Naturals, Sequences

CONSTANTS
    MaxKey,        \* keys ever generated, the first one included
    MaxSession,    \* control sessions ever opened
    MaxQueue,      \* requests, and replies, one connection holds unread
    MaxCrash,      \* stops or crashes of the member's daemon
    MaxOutage,     \* times the underlying network is lost
    MaxManual,     \* rotations asked for by the user
    MaxReconfig,   \* restarts in place for a changed setting
    MaxBadEdit,    \* times host.toml is left unreadable for a while
    MaxWriteError, \* failed or interrupted writes of member.key
    MaxFaults      \* all of these together

ASSUME BoundsAssumption ==
    /\ MaxKey \in Nat \ {0} /\ MaxSession \in Nat /\ MaxQueue \in Nat
    /\ MaxCrash \in Nat /\ MaxOutage \in Nat /\ MaxManual \in Nat
    /\ MaxReconfig \in Nat /\ MaxBadEdit \in Nat /\ MaxWriteError \in Nat

NoKey == 0
Keys == 1 .. MaxKey
Sessions == 1 .. MaxSession
Reply == [ok : BOOLEAN, key : Keys]
NoReply == [ok |-> FALSE, key |-> NoKey]

VARIABLES
    keyFile, newFile, keySource,                   \* member, on disk
    up, running, onPending, attempted, manual,     \* member, in memory
    rx, dead,                                      \* host bytes seen, silent for 45 s
    session, outbox, owned, result,                \* the member's link
    open, req, rep,                                \* control connections
    cfg, wg, readable, isolated, hostSession,      \* host
    net, left, gen, misled                         \* network, bounds, history

disk == <<keyFile, newFile, keySource>>
proc == <<up, running, onPending, attempted, rx, dead, owned>>
link == <<session, outbox, result>>
wire == <<open, req, rep>>
host == <<cfg, wg, readable, isolated, hostSession>>
vars == <<disk, proc, manual, link, wire, host, net, left, gen, misled>>

Budget == [crash : 0 .. MaxCrash, outage : 0 .. MaxOutage,
           manual : 0 .. MaxManual, reconfig : 0 .. MaxReconfig,
           edit : 0 .. MaxBadEdit, write : 0 .. MaxWriteError]

Spent == MaxCrash + MaxOutage + MaxManual + MaxReconfig + MaxBadEdit + MaxWriteError
           - (left.crash + left.outage + left.manual + left.reconfig + left.edit + left.write)
Spend(what) == /\ left[what] > 0 /\ Spent < MaxFaults
               /\ left' = [left EXCEPT ![what] = @ - 1]

\* The host's device accepts what the tunnel sends, and the network carries it.
Reach == up /\ net /\ running \in wg

Init ==
    /\ keyFile = 1 /\ newFile = NoKey /\ keySource \in {"token", "self"}
    /\ up = FALSE /\ running = NoKey /\ onPending = FALSE
    /\ attempted = 0 /\ manual = FALSE /\ rx = FALSE /\ dead = FALSE
    /\ session = 0 /\ outbox = FALSE /\ owned = FALSE /\ result = NoReply
    /\ open = {} /\ req = [s \in Sessions |-> <<>>] /\ rep = [s \in Sessions |-> <<>>]
    /\ cfg = 1 /\ wg = {1} /\ readable = TRUE /\ isolated \in BOOLEAN
    /\ hostSession = 0 /\ net = TRUE /\ gen = 1 /\ misled = FALSE
    /\ left = [crash |-> MaxCrash, outage |-> MaxOutage, manual |-> MaxManual,
               reconfig |-> MaxReconfig, edit |-> MaxBadEdit,
               write |-> MaxWriteError]

-----------------------------------------------------------------------------
(* The tunnel and its restarts.                                            *)

\* Rotation::new and the new supervisor run, on the key files kf and nf.  The
\* configured key is read even when the pending one is then used; when it
\* cannot be read the tunnel is gone.
Relaunch(kf, nf, usePending) ==
    /\ up' = (kf # NoKey)
    /\ running' = IF kf = NoKey THEN NoKey ELSE IF usePending THEN nf ELSE kf
    /\ onPending' = (nf # NoKey /\ running' = nf)
    /\ attempted' = 0 /\ rx' = FALSE /\ dead' = FALSE /\ owned' = FALSE

Start ==
    /\ ~up /\ keyFile # NoKey
    /\ Relaunch(keyFile, newFile, FALSE)
    /\ manual' = FALSE /\ outbox' = FALSE /\ result' = NoReply
    /\ open' = {} /\ UNCHANGED <<session, req, rep>>
    /\ UNCHANGED <<disk, host, net, left, gen, misled>>

\* Everything the process remembers goes; the files stay.
Forget ==
    /\ up' = FALSE /\ running' = NoKey /\ onPending' = FALSE
    /\ attempted' = 0 /\ rx' = FALSE /\ dead' = FALSE /\ owned' = FALSE
    /\ manual' = FALSE /\ outbox' = FALSE /\ result' = NoReply
    /\ open' = {} /\ UNCHANGED <<session, req, rep>>

Crash ==
    /\ up /\ Spend("crash") /\ Forget
    /\ UNCHANGED <<disk, host, net, gen, misled>>

\* listen_port, mtu or host_endpoint changed.
ReconfigRestart ==
    /\ up /\ Spend("reconfig")
    /\ Relaunch(keyFile, newFile, FALSE)
    /\ UNCHANGED <<disk, manual, link, wire, host, net, gen, misled>>

-----------------------------------------------------------------------------
(* Rotation::tick, one action per way through it.                          *)

\* commit_pending: member.key takes the new key, then .new is removed and
\* key_source becomes "self"; a failure of the last two is only logged.
Commit ==
    /\ newFile # NoKey
    /\ keyFile' = newFile
    /\ newFile' \in {NoKey, newFile}
    /\ keySource' \in {keySource, "self"}

\* A reply about another key than the pending one, or a rejection of a key
\* the host has taken or may still take (history only).
Misleading ==
    /\ newFile # NoKey
    /\ \/ result.ok /\ result.key # newFile
       \/ ~result.ok /\ \/ cfg = newFile
                        \/ \E s \in open : \E i \in DOMAIN req[s] : req[s][i] = newFile

TakeResult ==
    /\ up /\ result # NoReply
    /\ result' = NoReply
    /\ misled' = (misled \/ Misleading)
    /\ UNCHANGED <<session, outbox, wire, host, net, gen>>

\* Mutant of TickAccepted: the tunnel is left running with the replaced key.
TickAccepted_NoRestart ==
    /\ TakeResult /\ result.ok
    /\ Commit
    /\ manual' = FALSE
    /\ UNCHANGED <<proc, left>>

TickAccepted ==
    /\ TakeResult /\ result.ok
    /\ Commit
    /\ manual' = FALSE
    /\ Relaunch(keyFile', newFile', FALSE)
    /\ UNCHANGED left

\* commit_pending fails at its first step: nothing to read in .new.
TickAcceptedNoPending ==
    /\ TakeResult /\ result.ok /\ newFile = NoKey
    /\ UNCHANGED <<disk, proc, manual, left>>

TickRejected ==
    /\ TakeResult /\ ~result.ok
    /\ newFile' = NoKey /\ manual' = FALSE
    /\ UNCHANGED <<keyFile, keySource, proc, left>>

\* Mutant of TickPendingWorks: commit as soon as the pending key is in use.
TickPendingWorks_NoTraffic ==
    /\ up /\ result = NoReply /\ onPending
    /\ Commit
    /\ onPending' = FALSE
    /\ UNCHANGED <<up, running, attempted, rx, dead, owned, manual, link, wire,
                   host, net, left, gen, misled>>

\* The pending key is in use and the host was heard: commit, no restart.
TickPendingWorks ==
    /\ up /\ result = NoReply /\ onPending /\ rx
    /\ Commit
    /\ onPending' = FALSE
    /\ UNCHANGED <<up, running, attempted, rx, dead, owned, manual, link, wire,
                   host, net, left, gen, misled>>

\* Mutant of TickPendingDead: no way back from the pending key.
TickPendingDead_Stays ==
    /\ up /\ result = NoReply /\ onPending /\ ~rx /\ dead
    /\ Relaunch(keyFile, newFile, newFile # NoKey)
    /\ UNCHANGED <<disk, manual, link, wire, host, net, left, gen, misled>>

TickPendingDead ==
    /\ up /\ result = NoReply /\ onPending /\ ~rx /\ dead
    /\ Relaunch(keyFile, newFile, FALSE)
    /\ UNCHANGED <<disk, manual, link, wire, host, net, left, gen, misled>>

TickTryPending ==
    /\ up /\ result = NoReply /\ ~onPending /\ dead /\ newFile # NoKey
    /\ Relaunch(keyFile, newFile, TRUE)
    /\ UNCHANGED <<disk, manual, link, wire, host, net, left, gen, misled>>

\* Mutant of EnsurePending: the request goes out before the key is on disk.
EnsurePending_SendFirst ==
    /\ gen < MaxKey /\ gen' = gen + 1
    /\ newFile' \in {newFile, gen + 1}

\* ensure_pending: the pending key if there is one, else a fresh one, on disk
\* before anything is sent.
EnsurePending ==
    \/ newFile # NoKey /\ UNCHANGED <<newFile, gen>>
    \/ newFile = NoKey /\ gen < MaxKey /\ gen' = gen + 1 /\ newFile' = gen + 1

TickRequest ==
    /\ up /\ result = NoReply /\ ~onPending /\ ~(dead /\ newFile # NoKey)
    /\ keySource # "self" \/ manual
    /\ outbox /\ attempted # session
    /\ EnsurePending
    /\ session \in open => Len(req[session]) < MaxQueue
    /\ IF session \in open
       THEN /\ req' = [req EXCEPT ![session] = Append(@, newFile')]
            /\ attempted' = session
       ELSE UNCHANGED <<req, attempted>>
    /\ UNCHANGED <<keyFile, keySource, up, running, onPending, rx, dead, owned,
                   manual, link, open, rep, host, net, left, misled>>

\* write_secret_file truncates and then writes: an error leaves member.key
\* as it was or empty, and commit_pending returns it (the reply is spent).
WriteError ==
    /\ newFile # NoKey
    /\ Spend("write")
    /\ keyFile' \in {keyFile, NoKey}
    /\ UNCHANGED <<newFile, keySource>>

TickAcceptedWriteError ==
    /\ TakeResult /\ result.ok /\ WriteError
    /\ UNCHANGED <<proc, manual>>

TickPendingWriteError ==
    /\ up /\ result = NoReply /\ onPending /\ rx
    /\ WriteError
    /\ UNCHANGED <<proc, manual, link, wire, host, net, gen, misled>>

\* Mutant of CrashInCommit: .new is removed before member.key is written.
CrashInCommit_RemoveFirst ==
    /\ up /\ Spend("crash")
    /\ newFile # NoKey
    /\ (result # NoReply /\ result.ok) \/ (result = NoReply /\ onPending /\ rx)
    /\ misled' = (misled \/ (result # NoReply /\ Misleading))
    /\ keyFile' \in {keyFile, newFile} /\ newFile' = NoKey
    /\ UNCHANGED keySource
    /\ Forget
    /\ UNCHANGED <<host, net, gen>>

\* The process dies inside commit_pending: in the middle of the write, or
\* after it and before .new is removed or key_source recorded.
CrashInCommit ==
    /\ up /\ Spend("crash")
    /\ newFile # NoKey
    /\ (result # NoReply /\ result.ok) \/ (result = NoReply /\ onPending /\ rx)
    /\ misled' = (misled \/ (result # NoReply /\ Misleading))
    /\ \/ MaxWriteError > 0 /\ keyFile' = NoKey /\ UNCHANGED newFile
       \/ keyFile' = newFile /\ newFile' \in {NoKey, newFile}
    /\ UNCHANGED keySource
    /\ Forget
    /\ UNCHANGED <<host, net, gen>>

TickActs ==
    \/ TickAccepted \/ TickAcceptedNoPending \/ TickRejected
    \/ TickPendingWorks \/ TickPendingDead \/ TickTryPending \/ TickRequest

-----------------------------------------------------------------------------
(* The member's link: run_member_client, member_session, MemberLink.       *)

\* attach: a new session, the link's slots emptied.
Connect ==
    /\ Reach /\ ~owned /\ session < MaxSession
    /\ session' = session + 1
    /\ outbox' = TRUE /\ owned' = TRUE /\ result' = NoReply
    /\ open' = open \cup {session + 1}
    /\ UNCHANGED <<disk, up, running, onPending, attempted, rx, dead, manual,
                   req, rep, host, net, left, gen, misled>>

\* A connection ends; what it carried is lost.  Only the session its client
\* task still owns is detached from the link.
SessionEnd ==
    \E s \in open :
    /\ open' = open \ {s}
    /\ req' = [req EXCEPT ![s] = <<>>] /\ rep' = [rep EXCEPT ![s] = <<>>]
    /\ IF s = session /\ owned
       THEN outbox' = FALSE /\ owned' = FALSE
       ELSE UNCHANGED <<outbox, owned>>
    /\ UNCHANGED <<disk, up, running, onPending, attempted, rx, dead, manual,
                   session, result, host, net, left, gen, misled>>

\* member_reader: the latest RotateKeyResult overwrites the slot.
ReceiveReply ==
    \E s \in open :
    /\ Reach /\ rep[s] # <<>>
    /\ result' = Head(rep[s])
    /\ rep' = [rep EXCEPT ![s] = Tail(@)]
    /\ UNCHANGED <<disk, proc, manual, session, outbox, open, req, host, net,
                   left, gen, misled>>

\* RequestKeyRotation over IPC.
AskManual ==
    /\ up /\ ~manual /\ Spend("manual")
    /\ manual' = TRUE
    /\ UNCHANGED <<disk, proc, link, wire, host, net, gen, misled>>

-----------------------------------------------------------------------------
(* The host.                                                               *)

\* register_connection: the newest session replaces the one before, whose
\* reader is closed.
HostRegister ==
    /\ Reach /\ session \in open /\ hostSession < session
    /\ hostSession' = session
    /\ UNCHANGED <<disk, proc, manual, link, wire, cfg, wg, readable, isolated,
                   net, left, gen, misled>>

\* Mutant of HostHandle: the readers of replaced sessions go on.
HostHandle_AnySession ==
    \E s \in open :
    /\ Reach /\ ~isolated /\ readable /\ req[s] # <<>> /\ Len(rep[s]) < MaxQueue
    /\ cfg' = Head(req[s])
    /\ rep' = [rep EXCEPT ![s] = Append(@, [ok |-> TRUE, key |-> Head(req[s])])]
    /\ req' = [req EXCEPT ![s] = Tail(@)]
    /\ UNCHANGED <<disk, proc, manual, link, open, wg, readable, isolated,
                   hostSession, net, left, gen, misled>>

\* host_reader and apply_rotate_key: dropped from an isolated member; refused
\* when host.toml cannot be read; otherwise host.toml takes the key.
HostHandle ==
    /\ Reach /\ hostSession \in open /\ req[hostSession] # <<>>
    /\ Len(rep[hostSession]) < MaxQueue
    /\ LET key == Head(req[hostSession])
           Answer(ok) == rep' = [rep EXCEPT ![hostSession] =
                                   Append(@, [ok |-> ok, key |-> key])]
       IN \/ isolated /\ UNCHANGED <<cfg, rep>>
          \/ ~isolated /\ ~readable /\ Answer(FALSE) /\ UNCHANGED cfg
          \/ ~isolated /\ readable /\ Answer(TRUE) /\ cfg' = key
    /\ req' = [req EXCEPT ![hostSession] = Tail(@)]
    /\ UNCHANGED <<disk, proc, manual, link, open, wg, readable, isolated,
                   hostSession, net, left, gen, misled>>

\* sync_peers: the old key leaves the device before the new one enters.
HostSync ==
    /\ readable /\ wg # {cfg}
    /\ wg' = {cfg}
    /\ UNCHANGED <<disk, proc, manual, link, wire, cfg, readable, isolated,
                   hostSession, net, left, gen, misled>>

Approve ==
    /\ isolated /\ isolated' = FALSE
    /\ UNCHANGED <<disk, proc, manual, link, wire, cfg, wg, readable,
                   hostSession, net, left, gen, misled>>

-----------------------------------------------------------------------------
(* The environment.                                                        *)

\* host.toml edited by hand into something Config::load refuses, and mended.
BadEdit ==
    /\ readable /\ Spend("edit") /\ readable' = FALSE
    /\ UNCHANGED <<disk, proc, manual, link, wire, cfg, wg, isolated,
                   hostSession, net, gen, misled>>

MendEdit ==
    /\ ~readable /\ readable' = TRUE
    /\ UNCHANGED <<disk, proc, manual, link, wire, cfg, wg, isolated,
                   hostSession, net, left, gen, misled>>

NetDown ==
    /\ net /\ Spend("outage") /\ net' = FALSE
    /\ UNCHANGED <<disk, proc, manual, link, wire, host, gen, misled>>

NetUp ==
    /\ ~net /\ net' = TRUE
    /\ UNCHANGED <<disk, proc, manual, link, wire, host, left, gen, misled>>

\* Bytes from the host: at least every 35 s on a working tunnel.
Hear ==
    /\ Reach /\ (~rx \/ dead)
    /\ rx' = TRUE /\ dead' = FALSE
    /\ UNCHANGED <<disk, up, running, onPending, attempted, owned, manual, link,
                   wire, host, net, left, gen, misled>>

\* DEAD_LINK_TIMEOUT passes without any.
Silence ==
    /\ up /\ ~Reach /\ ~dead
    /\ dead' = TRUE
    /\ UNCHANGED <<disk, up, running, onPending, attempted, rx, owned, manual,
                   link, wire, host, net, left, gen, misled>>

Next ==
    \/ Start \/ Crash \/ ReconfigRestart
    \/ TickActs \/ TickAcceptedWriteError \/ TickPendingWriteError \/ CrashInCommit
    \/ Connect \/ SessionEnd \/ ReceiveReply \/ AskManual
    \/ HostRegister \/ HostHandle \/ HostSync \/ Approve
    \/ BadEdit \/ MendEdit \/ NetDown \/ NetUp \/ Hear \/ Silence

\* The 5 s ticks of both sides, keepalives, the user mending what is broken,
\* and the daemon coming back after a stop.
Fairness ==
    /\ WF_vars(TickActs) /\ WF_vars(HostSync)
    /\ WF_vars(Hear) /\ WF_vars(Silence)
    /\ WF_vars(Start) /\ WF_vars(MendEdit) /\ WF_vars(NetUp)

Spec == Init /\ [][Next]_vars
FairSpec == Spec /\ Fairness
-----------------------------------------------------------------------------
(* Properties.                                                             *)

Queued(s, k) == \E i \in DOMAIN req[s] : req[s][i] = k

\* Every variable stays in its range; in particular nothing but a key that was
\* written to .new before is ever sent to the host (TickRequest).
MayKey == 0 .. MaxKey
TypeDisk == keyFile \in MayKey /\ newFile \in MayKey /\ keySource \in {"token", "self"}
TypeFlags ==
    /\ up \in BOOLEAN /\ onPending \in BOOLEAN /\ manual \in BOOLEAN
    /\ rx \in BOOLEAN /\ dead \in BOOLEAN /\ outbox \in BOOLEAN
    /\ owned \in BOOLEAN /\ readable \in BOOLEAN /\ isolated \in BOOLEAN
    /\ net \in BOOLEAN /\ misled \in BOOLEAN
TypeProc == running \in MayKey /\ attempted \in 0 .. MaxSession
TypeLink == session \in 0 .. MaxSession /\ result \in Reply \cup {NoReply}
TypeWire ==
    /\ open \subseteq Sessions
    /\ req \in [Sessions -> Seq(Keys)] /\ rep \in [Sessions -> Seq(Reply)]
TypeHost == cfg \in Keys /\ wg \subseteq Keys /\ hostSession \in 0 .. MaxSession
TypeEnv == left \in Budget /\ gen \in Keys
TypeOK ==
    /\ TypeDisk /\ TypeFlags /\ TypeProc /\ TypeLink /\ TypeWire /\ TypeHost
    /\ TypeEnv

\* Whatever is lost, delayed or interrupted, the private half of the key the
\* host will use is in one of the member's two files: .new is written before
\* the request and kept until the host is known to have the key.  Only a
\* reply that is about something else than the pending key (misled) can
\* break it.
HostKeyHeld == ~misled => cfg \in {keyFile, newFile}

\* The host never goes back to an older key: a request repeated on a session
\* that was replaced cannot undo the rotation made on its successor.
HostNeverReverts == [][cfg' >= cfg]_vars

\* While the tunnel runs, the key it runs with has not been dropped from both
\* files, so a crash at this moment does not lose a working key.
RunningKeyHeld == (up /\ ~misled /\ keyFile # NoKey) => running \in {keyFile, newFile}

\* member.key is overwritten only with a key that host.toml already holds:
\* commit_pending waits for the acceptance or for traffic under the new key.
CommitOnlyTaken ==
    [][(keyFile' # keyFile /\ keyFile' # NoKey /\ ~misled') => keyFile' = cfg]_vars

\* What the module documentation of rotate.rs promises without condition: the
\* host's key is never lost to the member.
NeverLockedOut == cfg \in {keyFile, newFile}

\* keyfiles.rs: the key file is consistent whatever fails, so the member can
\* always start.
KeyFileReadable == keyFile # NoKey

\* After the last fault the two sides meet again on one key, by themselves:
\* the member alternates between its two files until the host answers.
Reconverges ==
    <>[](misled \/ keyFile = NoKey \/ (up /\ running \in wg))

-----------------------------------------------------------------------------
(* What makes HostKeyHeld inductive.                                       *)

\* A fresh key is generated only when .new is empty, so .new holds the latest.
LatestPending ==
    /\ newFile \in {NoKey, gen} /\ keyFile <= gen /\ cfg <= gen
    /\ \A s \in Sessions : \A i \in DOMAIN req[s] : req[s][i] <= gen

\* Nothing is queued on a session yet to be opened.
FreshSessions ==
    /\ hostSession <= session /\ \A s \in open : s <= session
    /\ \A s \in Sessions : s > session => req[s] = <<>> /\ rep[s] = <<>>

\* What the host may still handle is in the order of generation and not older
\* than the key it has.
OrderedRequests ==
    /\ \A s \in Sessions : s >= hostSession =>
         \A i \in DOMAIN req[s] : cfg <= req[s][i]
    /\ \A s, t \in Sessions : \A i \in DOMAIN req[s], j \in DOMAIN req[t] :
         (s < t \/ (s = t /\ i <= j)) => req[s][i] <= req[t][j]

\* An acceptance, read or unread, is about a key the host has or had.
AcceptedTaken ==
    /\ \A s \in Sessions : \A i \in DOMAIN rep[s] : rep[s][i].ok => rep[s][i].key <= cfg
    /\ result.ok => result.key <= cfg

\* Bytes from the host mean it has, or had, the key the tunnel runs with.
HeardTaken ==
    /\ \A k \in wg : k <= cfg
    /\ rx => running <= cfg
    /\ onPending /\ newFile # NoKey => running = newFile

HeldOrQueued ==
    ~misled =>
      /\ cfg \in {keyFile, newFile}
      /\ \A s \in open : s >= hostSession =>
           \A i \in DOMAIN req[s] : req[s][i] \in {keyFile, newFile}

Custody ==
    /\ LatestPending /\ FreshSessions /\ OrderedRequests /\ AcceptedTaken
    /\ HeardTaken /\ HeldOrQueued
=============================================================================
