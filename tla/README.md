# peercove: a verification project in TLA+

peercove is an invite-based VPN built on WireGuard. One machine is the *host* of a
network; *members* join it with an invite token. Each runs a daemon (Rust, `peercove-cli`)
that keeps one tunnel per network, and a desktop interface talks to that daemon over local
IPC; Android has an engine of its own (`peercove-mobile`) inside the application. Host and
members share a control channel (TCP inside the tunnel, newline-delimited JSON) for the
member list, key changes, DNS labels, invites, memos and administration, and every device
runs a message server for chat, files and groups.

This directory models the parts of that program in which several actors, failures or
restarts make the code hard to test, checks the models with TLC on small instances, and
proves the properties that matter most with TLAPS.

## 1. Inventory

| Component | Source (`src/crates/...`) | State it keeps | What is hard |
|---|---|---|---|
| Key rotation | `peercove-cli/src/rotate.rs`, `peercove-ops/src/keyfiles.rs` | `member.key`, `member.key.new`, `key_source`; the running key; the host's registered key | two machines change one key over the tunnel that key protects; lost replies, crashes inside a commit, repeated requests |
| Configuration file | `peercove-ops/src/{peers,acl,dns,invite}.rs` | `host.toml`, `host.toml.lock` | read-modify-write by daemon, CLI and UI at once; validation before replacing; torn writes |
| Peer synchronisation | `peercove-cli/src/commands/tunnel.rs` | known peers, pending removals, the device's peers | device calls that fail between two phases, edits between two ticks |
| Control channel | `peercove-cli/src/control.rs` | host: connection table, outboxes; member: `MemberLink` slots | sessions that overlap, answers that arrive for the request before, rights withdrawn while a request waits |
| Direct connections | `peercove-cli/src/direct.rs`, `commands/tunnel.rs` | one state per candidate, the host's peer, routes | failing calls, a ledger that lands inside a cycle |
| Invites and approval | `peercove-ops/src/{peers,invite}.rs`, `control.rs` | expiry, device binding, isolation | a member that connects as its invite expires, or awaits approval |
| Groups | `peercove-cli/src/groups.rs`, `msg.rs`, `daemon.rs` | copies with revisions, acknowledged sets | edits by several devices while others are offline |
| Chat queue | `peercove-cli/src/{chat,daemon,msg}.rs` | history, send queue, its file | retries of what was delivered, a crash between file writes |
| File transfer | `peercove-cli/src/msg.rs` | partial files, markers | resuming a file that changed |
| Shared memos | `peercove-cli/src/memoshare.rs`, `peercove-memo/src/shared.rs` | database, edit locks, caches | lock expiry racing a save; events out of order; migrations that meet |
| Local memos, schedules | `peercove-memo/src/lib.rs` | memos, folders, links, reminders | operations in several transactions |
| Daemon lifecycle | `peercove-cli/src/daemon.rs`, `commands/tunnel.rs`, `upnp.rs` | table of tunnels, autostart list, interfaces, ports | start against stop, the end of the daemon against both |
| Access control | `peercove-core/src/acl.rs`, `peercove-ops/src/acl.rs`, `backend/` | policy, iptables chains, session table | rules replaced one command at a time; fragments; processes that die |
| Names | `peercove-core/src/dns.rs`, `peercove-ops/src/dns.rs`, `peercove-cli/src/dns.rs` | labels, records, zones | names derived on every node from a ledger that may be older |
| Backup and restore | `peercove-ops/src/backup.rs` | archive, directory of a network | edits beside the copy, a death between two renames |
| Health, quality, ports | `peercove-cli/src/{health,quality,upnp}.rs` | batches of checks | batches against edits, stop and one another |
| Android and mobile engine | `peercove-mobile/src/*.rs`, `src/apps/peercove-android` | chat queue, keys, groups, endpoints, notices, reminders | a second implementation on threads of its own; a process that is killed |
| Address allocation, tokens, IPC framing, service, command line, desktop views | `peercove-core`, `peercove-cli`, `apps/peercove-ui` | none of their own | boundaries and platform calls |

How they interact: the UI and the CLI send requests to the daemon over IPC and also edit
`host.toml` themselves; the daemon's supervisor of each tunnel reads `host.toml` every five
seconds and brings the WireGuard device, the routes and the member list in line with it;
control sessions carry requests of members, which the host applies to `host.toml`; message
servers on all devices exchange chat, files and group updates directly.

What makes each component correct, and is hard to see from its tests, is what the runs of
section 3 check; the hazards behind each property, at their lines, are listed in
`PROJECT.json`.

## 2. Modules

Daemon and host:

| Module | Models | State | Actions |
|---|---|---|---|
| `KeyRotation` | `Rotation::tick`, `keyfiles.rs`, the member's link and sessions, `apply_rotate_key`, the host's peer swap | key files, running key, link slot, requests and replies, `host.toml` key, device keys | branches of `tick`, crash points of a commit, session and network events |
| `ConfigFile` | the edits of `host.toml` in `peercove-ops` | the document, the lock, each process's loaded copy | an edit's unlocked half by kind, then lock, write, refusal, death in the write |
| `PeerSync` | `sync_peers` and what runs between its ticks | file, device, known peers, pending removals, sessions | the passes of a tick, edits, session events, restart |
| `HostRequests` | the requests members make of the host, beside the edits of its interface | the file as far as requests check it, the job of each side | receive and check, prepare, write, edit |
| `ControlSession` | the supervisor's distribution, `handle_member`, the registry, the member's client | file, distribution, connections, registry, ledger | load, publish, steps of each connection's tasks, member's reads |
| `MemberLink` | how requests find their answers, desktop and Android | reply slots, numbers, outbox, wires | ask, time out, poll, write, handle, read, attach, detach |
| `DirectPeers` | `DirectManager::tick` for one candidate, `rebind_host_peer` | state, cool-down, device, routes | ledger, ageing, cycle halves with the outcome of each call |
| `DaemonLifecycle` | start, stop, restart in place, recovery, end | table, its lock, tunnels, interfaces, ports, autostart book | steps of each between its awaits, death |
| `GroupGossip` | `GroupStore`, group edits, propagation and retry | copy per device, acks, exchanges, edits under way | edit (read half, apply half), send, receive, ack, loss, restart |
| `ChatQueue` | the queue from `chat_send` to `pump_chat_queue`, the receiver | history, queue, file, pumps, saves, handlers | request, save step, pump step, receiver step, restart |
| `FileTransfer` | offer, resumption, receipt | source versions, inodes, part files, markers | steps of each attempt, source change, crash |
| `AclPolicy` | the policy's edits, compilation and evaluation | `[acl]`, the old format | edits |
| `ForwardChain` | `LinuxBackend`'s rules | chains, the job under way | one iptables command at a time, failure, death |
| `PacketRelay` | the relay of Windows | peers, policy, session table, marks | one packet, one change |
| `DnsZone` | labels, records, distribution, zones, answers | members, names, records, sent and received ledger, zone | edits, distribution, zone building |
| `NetworkBackup` | backup beside edits, restore | peers, key files, archive, directories | steps between file operations, death |
| `ServiceHealth` | `HealthMonitor` | batches, results | schedule, take, complete, stop |

Memos:

| Module | Models | State | Actions |
|---|---|---|---|
| `MemoLease` | what the single-editor rule promises (abstract) | holder, text, what each has read, archive | create, take, drop, read, replace, archive, erase |
| `MemoLock` | the edit lock, revisions, versions and trash of one shared memo | row, versions, lock, requests between their two steps, screens | each request's steps, expiry, sweep, cleanup after a lost connection |
| `MemoFeed` | how a memo reaches a member's cache | row, tasks, wire, sync, cache | change, task steps, connect, sync steps |
| `MemoSheet` | cells and merges of a sheet | cells with revisions, screens | batch write, merge |
| `RowFeed` | rows without a lock (cells, schedule events) on the way to a cache | row, events not yet sent, cache | change, send, connect, replace |
| `SheetCache` | sheets and presence as a member sees them | host's sheets, cache, presence lists | change, sync steps, look, leave |
| `MemoShelf` | folders, titles, links, limits of the cache | folders, memos, cache | folder and memo operations, sync |
| `StoreOpen` | opening and migrating the databases | version, tables, openers | steps of an open, death |
| `LocalMemos` | the memos of one device | memos, folders, reminders | each operation, in its transactions |
| `LineDiff` | `diff_lines`, `lcs_diff` | two texts | all pairs of texts, against a reference definition |

Android:

| Module | Models | State | Actions |
|---|---|---|---|
| `PhoneChat` | the queue of three threads | history, queue, file, threads, the former session | steps of each between two locks or file operations, reconnect, death |
| `PhoneGroups` | commit after delivery | copies, tasks | edit halves, deliveries, updates of desktops |
| `PhoneKeys` | the VPN service, its watchdogs, `rotate_key` | key files, tunnel, slot, threads | steps of each, lost and late answers, death |
| `PhoneEngine` | endpoint choice, rebinding, watchdog | socket, peer, ages | a tick of ten seconds, network events |
| `PhoneReminders` | rows and alarms | rows, alarms, jobs | steps of each coroutine and receiver, failed calls, a screen that is left, death, reboot |
| `ChatNotices` | notices of one conversation | notices, memories, read position, threads | steps of watchers, actions, reading |

What moves independently is checked together in five sum modules: `MCDevice`, `MCHost`,
`MCShared`, `MCNode` and `MCLive`. In each the initial state chooses one part, and only that
part moves; a property speaks of the part chosen. The state spaces add up and do not
multiply, and one run covers several components. `MCHost`, `MCDevice` and `MCLive` give every part
its own variables; in `MCShared` and `MCNode` those of the part that moves are kept in
registers `s1`, `s2`, … in the order its module declares them, so that a state stays small.
`KeyRotation`, `PeerSync`, `GroupGossip`, `ConfigFile` and `ChatQueue` are run by themselves.

The modules are independent where one shows what another takes for granted: `PeerSync` takes
an edit of the file as one step because `ConfigFile` shows that edits of peers do not disturb
each other (`PeersKept`); `KeyRotation` takes the host's side of a rotation as one step for the
same reason; `PacketRelay` and `ForwardChain` take the policy as the pairs it allows because `AclPolicy`
shows what compilation keeps.

### What is abstracted

- A key is the number of its generation, an address, label, device, message or peer a model
  value, settings of a peer a version number. Formats, wording and logging are left out.
- Timers are left out: a step that a timer starts may happen at any time. This admits more
  interleavings than the code has; fairness (below) says that such steps do happen. Where
  the length of times matters (`PhoneEngine`, `PacketRelay`) they are scaled and keep their order.
- *KeyRotation.* "Heard" stands for received bytes growing under the running key and
  "silent" for the 45 s without any. A restart in place leaves the reader and writer tasks
  of the old session running; they may still fill the link's reply slot. `misled` is a
  history variable: a reply about something else than the pending key was taken.
- *ConfigFile.* The daemon is one editor (it serialises its sessions with its own lock), the
  UI another. `torn` records that a process died inside `fs::write`. The ACL is written as a
  whole, as the code does: `write_deny` leaves nothing but pairs of addresses, `write_policy` nothing but
  groups and rules; only enabled rules are validated. The policy's default is left out.
- *PeerSync.* A tick works on one load of the file. Device calls fail within a budget; what
  a failed remove-and-add leaves is a choice. `sync_routes`, the isolation rules and the ACL
  are not part of the tick; a tick they prevent is a tick that does not happen. Sessions and rotations
  find the peer by the address alone, as the code does, also when the address has gone to another member.
- *GroupGossip.* One group; who is online is a choice of the sender's step. The first half
  of an edit reads the copy and computes the new one, the second applies and sends it, since
  the code releases the lock in between. A save of the groups file always succeeds: one that fails
  would let a restart return to an older copy, which is a milder form of the lost file (`Wipe`), and what is
  claimed of acks and versions is claimed while no file is lost.
- *ChatQueue.* A round of a pump takes any queued message: which ones are due is a matter of
  time. `handle_incoming` checks and appends under two locks, hence two steps. `MaxTrouble`
  bounds all that goes wrong together.
- *MemoLock.* A text is the number of the revision that first had it. `Expire` stands for 120 s
  without activity. Ten minutes decide whether a save archives first, so both are possible.
- *DaemonLifecycle.* Every tunnel is taken as a host's with UPnP; the kernel's own removal of an
  interface does not fail; interface names are numbers.
- *DnsZone.* Edits are atomic (`ConfigFile`, `HostRequests` have their races); one network, and
  questions that parse.
- *PhoneEngine.* A tick is ten seconds. A handshake takes less.
- *PhoneReminders.* Alarms are registered again only at `BOOT_COMPLETED`, as in the manifest;
  collisions of request codes are left out. A database that is busy when the alarm fires, a title that
  cannot be read and a screen that is left are faults of their own, beside death.
- *PhoneChat.* A session is replaced by a death (`Restart`) and by a reconnect without one (`Reconnect`):
  the new session starts from the files, while threads still in the former one deliver its messages
  and save its queue over the new one's file (`former`). There is one former session at a time, and a reconnect
  does not fall inside `reconcile_identities` or `clear_chat_history`; a failed write leaves the
  old file. Messages received are left out.
- *FileTransfer.* One file name. `crossed` is a history variable: the transfers that had one path at the
  same time, of which the property says nothing (section 5).

## 3. Runs

| Run (module) | Bounds | Checks | Shows |
|---|---|---|---|
| `key_rotation_rejected` (`KeyRotation`) | an unreadable `host.toml` | `NeverLockedOut` **violated** | finding 1 |
| `config_policy` (`ConfigFile`) | edits of the access policy | `NoLostUpdate` **violated** | finding 2 |
| `sync` (`PeerSync`) | one address, 3 keys, 2 settings, one failed call or one restart | `TypeOK` `NothingForgotten` `GoneInTwoTicks` `NoFalseNotice` `OnePeerPerAddress` `NoticedFirst` `DeviceFollowsFile` | the supervisor's account covers the device, removals are announced and take two cycles, and the device follows the file |
| `gossip` (`GroupGossip`) | 3 devices, all kinds of edits, a restart or a lost file | `TypeOK` `AckSound` `SameVersionSameGroup` `OnlyForward` | acks are not believed too early and copies move forward |
| `gossip_ties` (`GroupGossip`) | renames of one revision | `Agreement` **violated** | finding 3 |
| `chat` (`ChatQueue`) | 2 messages (direct, to all), 2 peers, 2 pumps (alike: a symmetry), any two troubles | `TypeOK` `DeliveredTrue` `OneAtATime` `ShownOnce` `NoSilentLoss` | concurrent pumps, saves and restarts |
| `chat_restart` (`ChatQueue`) | one peer, one pump, a restart | `KeptForRetry` **violated** | finding 4 |
| `device` (`MCDevice`) | keys: 3 keys, 2 sessions, 2 queued requests, any two of crash, outage, manual rotation, changed setting; link: 4 requests, half of them numbered, 2 sessions; files: 3 transfers of 2 blocks, two at a time, 2 versions | `TypeOK` `HostKeyHeld` `RunningKeyHeld` `AnswersMatched` `Verified` `CommitOnlyTaken` `HostNeverReverts` | no interleaving loses the key in use; a request is told its own answer; a file reported complete is the one hashed, unless its transfer shared a path with another |
| `live` (`MCLive`) | keys: 2 keys, 2 sessions, any two of crash, outage, unreadable file, failed write; chat: one trouble; groups: renames that cross, departures, one lost exchange | `KeysMeet` `Delivered` `SameRevision` | what the retries of each achieve |
| `shared` (`MCShared`) | memo: a member and the host, 3 revisions, one upset; the other parts two of each | `SharedTypeOK` `SharedSound` `TextsSound` `LeaseHeld` | the lock implements the lease; an undisturbed synchronisation brings caches up to date; what else is listed at `SharedSound`; caches drop no more than they must and differences are right (`TextsSound`) |
| `host` (`MCHost`) | file: 2 processes, 2 addresses, 3 keys, 4 edits of all kinds, one death; requests: 3 members, 3 operations; session: 2 connections; tunnels: 3 networks, 2 tunnels, one fault; paths: 2 endpoints, 2 failures | `HostTypeOK` `RevokedGone` `ControlSound` `TunnelsSound` `PathsSound` `PeersKept` `DeviceBound` | the lock and the second load protect the peers; the registry, the tunnels and the host's peer survive every crossing |
| `node` (`MCNode`) | two computers, policies of 2 rules, 2 messages or reads, 2 connections, one death of each | `NodeTypeOK` `HostSound` `PhoneSound` | the parts listed at `HostSound` and `PhoneSound` |

Why these bounds: the failures of interest need two of something, once. Two sessions of
one member, one of them replaced; a key, its successor and one more, so that a stale request
or reply can meet a newer rotation; two editors of one file, with enough edits for an invite,
an acceptance, a rotation, a removal and a reuse; a removed, a rotated and a new key for one
address; two writers of one revision and a third device to hear both; two pumps, and a second
message whose save writes the queue without the first; two openers of one old database; two
transfers that resume a third; a policy and its successor. One address suffices for `sync`
because the passes treat addresses separately and keys of different addresses never meet; the
theorems of section 6 hold for any number.

Troubles are bounded one by one and together: `MaxFaults` (`KeyRotation`), `MaxTrouble` (`PeerSync`,
`ChatQueue`) and `MaxUpset` (`GroupGossip`) bound all that goes wrong in a behaviour, `MaxOps` of
`PhoneChat` its operations, reconnects, failed saves and deaths, `MaxFails` of `ForwardChain` its failures and deaths. One
trouble at every point of every interleaving, and two where one prepares the other (a crash inside a
rotation that an outage has delayed, a lost ack and a restart from an old file), are what the
code has to survive; that more of them change nothing is what the theorems say, whose bounds are any
natural numbers.

`CHECK_DEADLOCK FALSE` stands where the bounds let a behaviour end (all edits made, all keys
used, all messages delivered); the device's supervisor never stops, so `sync` checks for
deadlock as well.

### Fairness

- Keys (`KeyRotation`, and `KeyFair` of `MCLive`): the supervisors of both sides tick every five
  seconds for as long as the tunnel is up (`TickActs`, `HostSync`), keepalives go out every 25
  seconds (`Hear`), and the silence timeout fires (`Silence`). That the daemon is started again,
  that a broken file is mended and that the network returns are assumptions about the world,
  without which there is nothing to reconverge to. Opening a session is *not* assumed.
- `PeerSync`: the tick recurs, and a session that has said hello goes on to register.
- Groups (`GroupFair`): a task that has read goes on to apply, reconcile recurs every cycle, the
  30-second retry to each member that lacks the revision recurs, and an exchange under way
  ends (with an ack, a rejection or a timeout). Losses are bounded: the network is lossy,
  not dead.
- Chat (`ChatFair`): some save, some delivery, some round and some handler that can go on does; this
  is weaker than the code, where each of them does. The five-second timer starts rounds,
  and a message is due again ten seconds after it failed. Rounds that find everyone online
  recur.
- `ControlSession`, `MemoLock`, `MemoFeed` and `RowFeed` state the fairness of their tasks and a
  property of what must eventually happen (`LedgerArrives`, `FreedAfterLoss`, `SyncEnds`,
  `ReplaceEnds`). These hold on the bounds of their parts; they are no runs of their own, since
  the safety of the same parts is what the runs are spent on. Each is seen by running the
  module by itself with its `Fairness` and the property.

## 4. Findings

Four disagreements have a run that shows them:

1. `key_rotation_rejected`: the host applies a request, the reply is lost, the member repeats
   the request, and at that moment `host.toml` cannot be read: the host refuses, and the
   member deletes `member.key.new`, which holds the only private half of the key the host has.
2. `config_policy`: `remove_peer` computes the deny pairs to keep before it takes the lock, and
   the edits of permission groups read the whole policy in one lock period and write it in
   another; a policy change made in between is lost.
3. `gossip_ties`: two members write the same revision; each marks the other as having that
   revision although one of them keeps its own copy, so neither sends again.
4. `chat_restart`: a pump has the message out of the queue for the whole delivery attempt; a
   save in that time (that of `chat_send` itself, if a timed round was quicker) writes the file
   without it, and a daemon that ends then does not resend it.

The others are listed in `PROJECT.json` with the lines of the code and of the text they
disagree with. Each is defined, as the claim that does not hold, in the module named; it is
seen by giving that module the constants of its part in the configuration of its sum module
and naming the claim as the only property.

| Module | Claims refuted | In short |
|---|---|---|
| `MemoSheet` | `NeverBlind` | a cell blanked and filled again is at revision 1 once more |
| `ControlSession` | `NoLedgerBeforeApproval` | isolation follows the last published distribution |
| `FileTransfer` | `AllVerified` | two transfers of one name may share a part file |
| `DaemonLifecycle` | `AlwaysDevice` `AlwaysClean` `PortsClosed` `LeftoverCleaned` | a start overlaps the teardown of a stop; a start that waits outlives the end; a failed bring-up leaves its port; a leftover fails the next start |
| `ChatNotices` | `UnreadShown` `ReadIsGone` `ReadGrows` `NeverHidden` `SkippedWasThis` | actions and watchers are not ordered; the memory of a removed network is taken for the new one's |
| `PhoneKeys` | `NeverShutOut` `SwitchFinds` | a refusal deletes the pending key; the switch looks twice |
| `PhoneChat` | `NeverToAnother` `SendingListed` `OnceQueued` `SavedAtRest` `SeqOnce` `KeptByReconnect` | the ledger may be older than the address's holder; a message in a hand is neither listed nor saved, and a reconnect loses it |
| `PhoneGroups` | `FailedIsNowhere` `OneGroupPerVersion` `LeftIsOut` | delivered, but all acknowledgements lost |
| `PhoneEngine` | `SocketTrue` | a rebind and a rotation each work on the socket they know |
| `PhoneReminders` | `AlwaysArmed` `NeverLost` | a death, a screen left or a busy database between row and alarm, or between row and notice |
| `NetworkBackup` | `TargetStays` `RestoredNotRunning` `PskOwn` `PskKept` | a death between two renames; a tunnel that starts after the question; two readings of one directory |
| `DnsZone` | `NoTheft` `ExactFirst` `RecordAnswers` `ShownTrue` `SameNames` `IsolatedHidden` | derived labels are not counted as taken; wildcards before exact aliases |
| `ServiceHealth` | `NoneAfterStop` `DeviceDown` | workers outlive their batch; a device's address is looked for among the members' |
| `ForwardChain` | `NoWindow` `AlwaysApart` `ApprovedReaches` | rules go in one by one, isolation last |
| `PacketRelay` | `AsReassembled` | a later fragment without its first is dropped |
| `AclPolicy` | `SameResult` `GroupMeansMembers` | deny pairs shown as rules do not cover the networks behind |
| `MemoShelf` | `FiledAlike` `NamesDiffer` | deleting a folder gives its memos no new revision |
| `MemoFeed`, `RowFeed` | `Newest` `RightsRepaired` `RowNewest` | two tasks may send in the other order; rights have no revision |
| `SheetCache` | `NotMyself` `OpenedTrue` `NoGhost` | one presence list for everybody; only the first sheets are fetched |
| `LocalMemos` | `NoOrphans` `LinkedLiterally` `LimitHeld` | the purge leaves reminders; count, then insert |
| `StoreOpen` | `NeverRefused` | the loser of two migrations fails once |

## 5. Other disagreements

Claims of comments that TLC refutes in the modules with runs of their own:

- `KeyRotation!KeyFileReadable` (constants of `Live.cfg`): `commit_pending` overwrites `member.key` by
  truncating it; after a failed write neither a start nor a restart in place reads `.new`.
- `KeyRotation!NeverLockedOut` with `MaxBadEdit = 0` (constants of `Device.cfg`): a reply does not say
  which key it is about; one delayed past the fallback commits the next pending key.
- `ConfigFile!UniqueLabels` (constants of `Host.cfg`): the check against labels in use is made without the
  lock and not repeated.
- `ConfigFile!NoReferenceLeft` (the same): a rotation leaves the old key in the permission
  groups, where the later removal of the member does not find it.
- `ConfigFile!NoRuleLeft` (the same): a policy read before a member's removal and written after it brings a rule
  of the removed member back; validation rejects it while it is enabled and lets a disabled one pass.
  That enabled ones do not come back is `RevokedGone`.
- `ConfigFile!FileWhole` (the same): `write_validated` truncates before it writes.
- `PeerSync!OnlyGoneTold` (`PeerSync.cfg`): if the device fails to remove the old key of a rotation,
  the third pass of that tick sends `Removed` to the member that rotated.
- `PeerSync!NoticedFirst` without its last two cases: an address reused within one cycle drops
  its former member unannounced, and a key that became eligible again stays in
  `pending_removal`, so its later removal skips the first cycle.
- `GroupGossip!Agreement` (`GroupGossipTies.cfg`) with `MaxName = 1` and `Kinds = {"leave"}`: a device that left is no
  member of its own copy and does not repeat the update; with `MaxWipe = 1` and no edits: a device that lost
  its file is sent nothing until the next edit, since the others have its ack.
- `GroupGossip!SameVersionSameGroup` without `departed = {}`: reconcile and the user of one device
  may both write the next revision, under one author.
- `FileTransfer!AllVerified` (constants of `Device.cfg`): between the choice of a free name and the creation of
  its part nothing stops another transfer from choosing it; both then write one part.
- `PhoneChat!KeptByReconnect` (constants of `Node.cfg`): a thread of the user interface that is in `send_chat` when
  the phone reconnects puts its message back into the former session's queue; if it was not in `chatq.json` yet,
  the new session does not have it, and its next save writes over what the former one saved.
- `ChatQueue!ShownOnce` without `~overlap`: a timed-out attempt and its retry that reach the
  receiver together are both shown.

Met while reading, and no property of a module:

- Access policy: `write_deny` replaces the whole `[acl]` table, or removes it, so a removal that found a
  deny pair in a stale read erases a policy another process has meanwhile migrated to rules; rules by
  address that were made from deny pairs outlive their member.
- Sessions and rotations look the peer up by its address: until the next tick a removed member is taken for the
  one its address has gone to (`PeerSync!Hello`, `Rotate`).
- Groups: a failed save of `groups.json` is logged and forgotten; a restart returns to the older copy.
- Chat: a message whose recipient left the network is discarded and, after a restart, looks sent.
- Shared memos: `prune_expired` drops an expired lock without the closing version that a sweep would
  make; acquiring one's own lock again moves its `revision_at_acquire`; the total capacity is
  checked before the automatic snapshot that adds to it; a batch of cells counts against the limit
  in the order of its cells, and may give a value to a cell hidden by a merge.
- Requests: renaming a peer does not check DNS labels; requests for settings rewrite the whole record; an
  unnumbered answer may be that of an earlier request that timed out (`control.rs:421`).
- Tunnels: a removal the device refused leaves a /32 peer nobody knows of; a ledger that lands between
  the two halves of a cycle can hide from `rebind_host_peer` that the host's peer is off the device;
  the log line of `apply_acl` says it will not be tried again before the next change, but every tick
  does; `autostart.json` is loaded, changed and saved without a lock, and a broken file counts as empty;
  an entry stays in the table after its task has died.
- Names: the resolution of an alias blocks the supervisor for up to three seconds a name.
- Memos of a device: a folder's rename is not checked against others; reminders that fired count toward
  the limit; a title in the cache may resolve to another memo than on the host, when the newest one
  of that title is not visible.
- Phone: the outbox survives a session, so a request reported as failed may be carried out later;
  `groups.json` is saved without a temporary file; `receive_file` has the race of the daemon's
  `unique_path`; the throttle of network events acts on the leading edge and drops the last event of a
  burst; a socket that cannot be made lets the rotation starve.

## 6. Proofs

A proof holds for every value of the constants that satisfies the named assumptions of its
module (`BoundsAssumption`, `DeviceAssumption` and so on): bounds are natural numbers, the
set of transfers is finite, and no more than the code takes for granted. Every invariant
was checked with TLC before it was proved.

**`DeviceProofs`, keys** (`TypeCorrect`, `KeyNeverLost`, `KeyNeverReverts`, `CommitSafe`,
`RunningKeyKept`). That the key the host holds is on the member's disk is not inductive: the
host may take any request on its way, and the member may believe any answer. `Custody` adds what
is needed. A pending key is the latest one generated (`LatestPending`); every request of the
session that may still be read is for a key on disk (`FreshSessions`), requests are in
the order of their keys (`OrderedRequests`), what was accepted and what was heard is what
the host took (`AcceptedTaken`, `HeardTaken`), and the host's key is held or is about to be
replaced by one on its way (`HeldOrQueued`). For the running key, `Trial` and `Settling` say where a
rotation stands between the switch and the commit.

**`GroupGossipProofs`** (`TypeCorrect`, `AcksTrue`, `CopiesForward`, `VersionsAgree`). `Sound` extends
`AckSound` to what is on its way: an ack under way speaks of a copy the device has or had,
and copies only move forward (`MergeCopy`, a lemma about the ordering of versions). For
`VersionsAgree`, `Seen` says that every copy anywhere is one its author once wrote, and
`OneAuthor` that each author writes a revision once.

**`HostProofs`, the file** (`EditsSound`, `TypeCorrect`, `RevokedStaysGone`, `NoPeerLost`, `DeviceStays`). `Inv` follows
an edit from its unlocked half to its write: the document a process works on under
the lock is the file (`LoadedCurrent`), the key it brings is nobody's (`BroughtNew`), no edit
names a revoked key (`RevokedUnused`), the device it accepts still finds its peer free
(`AcceptFree`), and only the daemon rotates (`RotateByDaemon`).

**`PeerSyncProofs`** (`SyncInvariant`, `TypeCorrect`, `AccountComplete`, `RemovedInTime`, `AddressesApart`,
`OnlyTheRemovedAreTold`, `AnnouncedFirst`). The state inside a tick is described pass by pass: what the
supervisor's account still owes the device (`AccountTrue`), which peers a pass has dealt with
(`PassedOver`, `PendingAnnounced`, `SwappedOut`), and to whom each entry belongs (`Belongs`, `MembersTrue`,
`LeftBehind`). `RemovedInTime` rests on `AgeBound`: the ticks a removed peer has stayed are paid
for, two by right and one by each device call that failed. What edits and sessions do between the passes is
two lemmas, `FileMoves` and `Quiet`.

**`ChatQueueProofs`** (`TypeCorrect`, `QueueInvariant`, `AckedIsShown`, `OneCopyOnly`, `NoneTwice`, `NoneLost`).
`CopiesSound` says of a copy of a message, in the queue, in a pump's hand or in the file,
that the peers it counts as done have it; `OneCopy` and `Apart` that queue and hands are disjoint;
`AboutToShow` that no second showing is prepared while connections do not overlap; `NotLost`
where an unfinished message is. The lemmas about sequences without repetition are proved by
minimal counterexample.

**`SharedProofs`, the edit lock** (`TypeCorrect`, `LockImplementsLease`). The refinement: under the mapping of
`MCShared`, every step of `MemoLock` is a step of `MemoLease` or leaves it alone, one lemma
for each. What it needs beyond types (`Typed`, with `RowSound`: the row is one of
the revisions, the versions are earlier ones) is `Known`: what a screen, or
an acquire between its two steps, believes of a revision is the text that revision has,
so that the right it obtains is over a text it has read.

**`DeviceProofs`, link and files** (`AnswersReachTheirOwn`, `WhatIsReportedIsVerified`), theorems of the sum module
`MCDevice`, whose other parts leave the variables alone. *Link*: `OwnSession` says that on the
desktop everything under way belongs to the session and was asked in it, and that without a session
nothing is under way. *Files*: what is in a part under a writer is what it hashed (`Writing`), what was
reported complete is under no name that is written (`InodesApart`), an inode is given out once
(`Counted`, which bounds inodes by the transfers that have opened a part). The theorem is for any number of
transfers at a time; it leaves out those that had a path at the same time as another (`crossed`), of which
it is false (section 4), and shows that such a pair does no harm to the rest.

**`HostProofs`, the other parts** (`DirectPathsSound`, `ControlStaysSound`, `TunnelsStaySound`, `HostTypes`), theorems
of `MCHost`, under `HostAssumption`: the bounds are natural numbers (a connection has room for one ledger
at least), subnets are finitely many, interface names are positive numbers, the host is no member of its own
network and rights are granted by it alone. *Direct path*: between the halves of a
cycle the ledger's subnets are those the cycle works with, unless another ledger landed (`CycleLedger`).
*Session*: the registry holds every registered connection that was not told to close (`InRegistry`), a
connection accepted while its member awaits approval is isolated (`AcceptedApart`), and no
distribution says that a member awaits approval before it has said Hello (`Awaiting`). *Requests*: a plan
carries the number of writes it was prepared at; as long as that number stands, what was
found free is free (`PreparedNow`), and an administrator's request that is past its check is not
counted against the withdrawal yet (`PastItsCheck`). *Tunnels*: a start past its checks holds the
table and the checks still hold (`Starting`), an interface belongs to a live task of its name
(`Owned`), and an end that nothing disturbed finds no start under way and every live task among those
it waits for (`Calm`). The pair of networks that overlap is fixed in `MCHost`; the proof uses of it only
that overlapping is symmetric. *Types* (`HostTypes`): the types of `MCHost` are not inductive either. What is on the
wire of a connection is bounded by the connection's place (`WireTyped`: nothing before it runs, `MaxWire`
while it runs, one word more for the removal notice when it has left that place); the number of writes is
bounded because a request counts when it begins and each process has one under way (`RequestsMore`); rights are
those of members because an edit is written only if it still finds its target (`WithinWritten`); a recovery starts at
zero and counts to three (`TriesKept`); the calls of one cycle fail within what is left of the budget (`CountedIs`).

**`MemoProofs` and `SharedProofs`** (`SharedTypes`, `SharedPartsSound`), theorems of `MCShared`, under
`SharedAssumption`: the bounds are natural numbers, there is at least one memo and finitely many, and
`NoFolder` is no name. Each part has its inductive invariant, and `SharedInv` says that the part chosen has its
own; the other parts' variables do not exist, since a register belongs to the part that moves.

- *Feed* (`FeedInv`): while nothing disturbs a synchronisation, the answer on the wire, and what the task holds of
  it, is the memo as the member may see it (`FeedQuiet`); a revision never exceeds the changes made.
- *Row* (`RowInv`): while nothing changes after a connection, the list under way is the host's row.
- *Sheets in a cache* (`CacheInv`): an undisturbed synchronisation gets the host's own metas and contents
  (`CacheTrue`), has the one answer it waits for on the wire (`CacheWire`), and what it is past is replaced
  (`CacheFilled`).
- *Cells* (`SheetInv`): what a screen shows of a cell's present life is not newer than the cell, and is what the cell holds
  if it is of the same revision (`SheetKnown`). Across lives this is false (`NeverBlind`, section 4).
- *Opening a store* (`StoreInv`): an opener's transaction has all the steps up to its next one, all of the file
  as long as nothing was committed since it began, and a file has the tables its version promises.
- *Folders, memos and links* (`ShelfInv`): times of an update tell memos apart (`ShelfApart`); what a cache or an event
  knows of a revision is what it was (`ShelfKnown`); once the list has been read, the last event of a memo
  on the wire, or the cache if there is none, shows it as it is unless it is still to be fetched
  (`ShelfRight`), and likewise the folders (`ShelfFiled`).
- *Local memos* (`LocalInv`): a memo that is not gone is in a folder that exists (`LocalFiled`); what a taker has read
  stands until somebody writes (`LocalWatched`), which is what keeps a reminder from being handed out twice;
  a reminder of a memo that is gone is still to be deleted by a request under way (`LocalLeft`).
- *Reminders of a phone* (`ReminderInv`): a row that is set has its alarm, or a job that will arm it, or the device has
  just started, or a cut (a death, a failed call, a screen left, a crossing cancellation) or the loss of its
  target accounts for it (`ReminderArmed`, `ReminderShown`).
- *Groups of a phone* (`GroupInv`): what a task delivers was applied before (`GroupTasks`); a newer version of the
  phone's own elsewhere is one that its user's edit delivered (`GroupBehind`). The phone and two other devices.

`MemoProofs` has the parts up to the shelf, `SharedProofs` the others and the sum.

**`NodeProofs`** (`PhoneKeysTyped`, `PhoneKeysSound`, `PhoneChatSound`, `RelayIsSound`), theorems of three parts of
`MCNode`, each about the part's own specification.

- *Keys* (`PhoneKeys`, with at least one key): that the host's key is in one of the two files is not
  inductive, since requests and answers carry no number and there is one slot for all who ask. `Once`: a watchdog
  asks once per start of the tunnel, and the user once. `Sound`, which holds until somebody is misled, adds that only one asks at a time
  (`OneAsks`), that nothing is under way of one that has not asked and that what one waits for is the last under way
  (`Orderly`), that requests under way are for one of the two files and never go back behind the host's key
  (`WayFits`), and that a tunnel seen working has no key later than the host's (`Seen`). The proof
  attempt showed that the history variable `misled` left out a case: a watchdog that outlives its start, or finds
  another key pending, and confirms what the tunnel it looked at did not use. It is part of `DogConfirms` now.
- *Chat* (`PhoneChat`, no assumption): between two locks a message may be in the queue, in a thread's hand, in a copy
  to be written or in the file, and whether it is due differs among them. So `ChatInv` follows what a message is
  (`Core`) wherever it is, in this session or the former one: it has its row in the history, is delivered or was given up
  (`Traced`), a new session restores from the file nothing else, none is lost (`NothingLost`), and each is meant for the member known at the address or has slipped
  past the pruning (`ChatFits`); while `reconcile_identities` is under way this is said of the member it is about to
  remember, too: of everything but the file before it is written, and of everything after.
- *Relay* (`PacketRelay`, under `RelayAssumption`): an entry of the session table or a fragment's mark expires at most a
  lifetime after the packet that paid for it, and not before the next pruning (`PaidBy`); so what a look after the
  pruning finds was paid for recently (`PrunedIs`), and what it lets through pays again. The theorem does
  not depend on the size of the table.

What stays with TLC, and why:

- Everything that must eventually happen (`KeysMeet`, `Delivered`, `SameRevision`, `DeviceFollowsFile`):
  the prover has no rules for fairness and `ENABLED`.
- What recursive definitions and sums over sets compute: `LineDiff` against its reference and what a
  member's cache drops to fit its capacity (both in `TextsSound`), `DnsZone` on
  the names it derives, `AclPolicy` on the rules it compiles; induction over data is
  not available to the prover.
- Not proved: of the sums of `MCNode` the parts other than keys, chat and relay. Of those `PolicySound`
  and `ZoneSound` rest on recursion, `ChainSound` and `ArchiveSound` on the order of long scripts of steps,
  `EngineSound` is a bound on scaled times, and `NoticesSound` and `HealthSound` were left for later.

## 7. Plan

Done: every module of section 2, the runs of section 3, the theorems of section 6. What is left,
in this order:

1. The parts of `HostSound` and `PhoneSound` without a theorem that do not rest on recursion (`ServiceHealth`,
   `ChatNotices`, `ForwardChain`, `NetworkBackup`).
2. Coverage: `memoshare.rs` and `msg.rs` are mapped least in relation to their length.

## 8. Not modelled, and why

- What a backend asks of the operating system beyond success or failure: addresses, routes,
  the WireGuard driver, `netsh`, `wg`; WireGuard's own handshake, which is external.
- Encodings: invite tokens, the control channel's JSON, IPC frames, archives and their
  encryption, DNS packets. They are pure functions with tests of their own in the repository.
- Address allocation and the overlap of networks, pure functions over sets.
- Service registration, command line and terminal output.
- Statistics of connection quality: their numbers are shown and decide nothing.
- The desktop interface and the Android screens: they hold no state that the daemon or the
  engine depends on. They appear as the second editor of `ConfigFile`, as users who press
  buttons, and as readers in `MemoLock`, `SheetCache` and `ChatNotices`.

`PROJECT.json` has the status of every component, and what a partly modelled one leaves out.
