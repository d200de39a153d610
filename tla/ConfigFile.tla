----------------------------- MODULE ConfigFile -----------------------------
(***************************************************************************)
(* host.toml and the programs that edit it: the daemon on behalf of its    *)
(* members, the desktop UI and the CLI, each a process of its own.  An     *)
(* edit first loads the configuration without a lock, to find its target   *)
(* and to refuse what conflicts, then takes the lock host.toml.lock, loads *)
(* the document again, edits it, validates the result and writes it.  The  *)
(* daemon runs the edits of all control sessions one after the other.      *)
(*                                                                         *)
(* The content is what these edits depend on: per virtual address a peer's *)
(* key, DNS label, accepting device and approval; custom DNS records that  *)
(* point at a member; and the ACL, as pairs of addresses that must not     *)
(* talk, members that rules name, and one permission group.  What a writer *)
(* of the ACL leaves out is lost: the pairs (write_deny) and the policy    *)
(* (write_policy) each replace the whole table, and only enabled rules are *)
(* resolved when the result is validated.  The default action is left out, *)
(* it goes the way of the rules.                                           *)
(***************************************************************************)
EXTENDS Naturals, FiniteSets

CONSTANTS
    Procs,         \* the processes that edit, the daemon among them
    Daemon,
    Kinds,         \* the kinds of edits considered
    Addrs,         \* virtual addresses
    Labels,        \* DNS labels
    Devices,       \* devices that may present an invite
    MaxKey,        \* keys ever generated
    MaxEdit,       \* edits ever begun
    MaxCrash       \* processes that die while they write the file

CONSTANTS Free, NoLabel, NoDevice

ASSUME ConfigAssumption ==
    /\ Daemon \in Procs /\ Free \notin Procs
    /\ NoLabel \notin Labels /\ NoDevice \notin Devices
    /\ MaxKey \in Nat /\ MaxEdit \in Nat /\ MaxCrash \in Nat

NoKey == 0
Keys == 1 .. MaxKey
Pairs == {pair \in SUBSET Addrs : Cardinality(pair) = 2}

\* The table [acl]: the pairs of the old form; the members that enabled rules
\* and those that disabled rules name; the pairs that rules keep apart by
\* address; the permission group, and whether an enabled rule is about it.
Acls ==
    [deny : SUBSET Pairs, rule : SUBSET Keys, off : SUBSET Keys,
     block : SUBSET Pairs, group : SUBSET Keys, groupRule : BOOLEAN]

Documents ==
    [key : [Addrs -> Keys \cup {NoKey}], label : [Addrs -> Labels \cup {NoLabel}],
     device : [Addrs -> Devices \cup {NoDevice}], approved : [Addrs -> BOOLEAN],
     record : SUBSET (Labels \X Keys), acl : Acls]

\* write_deny: the pairs are all there is in the table.
OnlyPairs(pairs) ==
    [deny |-> pairs, rule |-> {}, off |-> {}, block |-> {}, group |-> {},
     groupRule |-> FALSE]

EmptyDoc ==
    [key |-> [a \in Addrs |-> NoKey], label |-> [a \in Addrs |-> NoLabel],
     device |-> [a \in Addrs |-> NoDevice], approved |-> [a \in Addrs |-> FALSE],
     record |-> {}, acl |-> OnlyPairs({})]

VARIABLES
    file,      \* the document in host.toml
    torn,      \* host.toml was left half written
    lock,      \* the process that holds host.toml.lock, or Free
    pc,        \* per process: "idle", "checked" or "locked"
    op,        \* per process: the edit it is about to make
    doc,       \* per process: the document it has loaded under the lock
    gen,       \* keys generated
    edits,     \* edits begun
    crashes,
    revoked    \* history: keys whose peer was removed

vars == <<file, torn, lock, pc, op, doc, gen, edits, crashes, revoked>>

NoOp == [kind |-> "none"]

Init ==
    /\ file = EmptyDoc /\ torn = FALSE /\ lock = Free
    /\ pc = [p \in Procs |-> "idle"] /\ op = [p \in Procs |-> NoOp]
    /\ doc = [p \in Procs |-> EmptyDoc]
    /\ gen = 0 /\ edits = 0 /\ crashes = 0 /\ revoked = {}

-----------------------------------------------------------------------------
(* What a document says.                                                   *)

Registered(d) == {d.key[a] : a \in Addrs} \ {NoKey}
TakenLabels(d, except) ==
    {d.label[a] : a \in {b \in Addrs \ except : d.key[b] # NoKey}}
        \cup {r[1] : r \in d.record}

\* The tables of peers and of DNS records.
Members(d) == <<d.key, d.label, d.device, d.approved, d.record>>

\* Config::validate, as far as the edits can break it: keys are unique, only a
\* device that joined is approved, records and enabled rules name members that
\* exist, and the group that a rule is about exists, whoever is in it.
Valid(d) ==
    /\ \A a \in Addrs : d.approved[a] => d.device[a] # NoDevice
    /\ \A a, b \in Addrs : d.key[a] = d.key[b] /\ d.key[a] # NoKey => a = b
    /\ \A r \in d.record : r[2] \in Registered(d)
    /\ d.acl.rule \subseteq Registered(d)
    /\ d.acl.groupRule => d.acl.group # {}

-----------------------------------------------------------------------------
(* First half of an edit: load, look up, refuse.                           *)

Begin(p, edit) ==
    /\ pc[p] = "idle" /\ ~torn /\ edits < MaxEdit /\ edit.kind \in Kinds
    /\ pc' = [pc EXCEPT ![p] = "checked"]
    /\ op' = [op EXCEPT ![p] = edit]
    /\ edits' = edits + 1
    /\ UNCHANGED <<file, torn, lock, doc, crashes, revoked>>

\* invite: the first free address and a label no one has, a fresh key.
BeginInvite(p) ==
    \E a \in Addrs, l \in Labels :
    /\ file.key[a] = NoKey /\ l \notin TakenLabels(file, {})
    /\ gen < MaxKey /\ gen' = gen + 1
    /\ Begin(p, [kind |-> "append", addr |-> a, key |-> gen + 1, label |-> l])

\* remove_peer: the pairs to keep are those of the document loaded here.
BeginRemove(p) ==
    \E a \in Addrs :
    /\ file.key[a] # NoKey
    /\ Begin(p, [kind |-> "remove", addr |-> a, key |-> file.key[a], deny |-> file.acl.deny])
    /\ UNCHANGED gen

\* rotate_peer_key: from the member's own session, with a key it generated.
BeginRotate(p) ==
    \E a \in Addrs :
    /\ p = Daemon /\ file.key[a] # NoKey
    /\ gen < MaxKey /\ gen' = gen + 1
    /\ Begin(p, [kind |-> "rotate", key |-> file.key[a], new |-> gen + 1])

\* set_peer_dns_name: a label in use is an error.
BeginLabel(p) ==
    \E a \in Addrs, l \in Labels :
    /\ file.key[a] # NoKey /\ file.label[a] # l /\ l \notin TakenLabels(file, {a})
    /\ Begin(p, [kind |-> "label", key |-> file.key[a], label |-> l])
    /\ UNCHANGED gen

\* Mutant of BeginAccept: the control sessions' requests are not serialised.
BeginAccept_AnyProcess(p) ==
    \E a \in Addrs, d \in Devices :
    /\ file.key[a] # NoKey /\ file.device[a] = NoDevice
    /\ Begin(p, [kind |-> "accept", key |-> file.key[a], device |-> d])
    /\ UNCHANGED gen

\* mark_invite_accepted_by_ip, on a member's Hello.
BeginAccept(p) ==
    \E a \in Addrs, d \in Devices :
    /\ p = Daemon
    /\ file.key[a] # NoKey /\ file.device[a] = NoDevice
    /\ Begin(p, [kind |-> "accept", key |-> file.key[a], device |-> d])
    /\ UNCHANGED gen

BeginApprove(p) ==
    \E a \in Addrs :
    /\ file.key[a] # NoKey /\ file.device[a] # NoDevice /\ ~file.approved[a]
    /\ Begin(p, [kind |-> "approve", key |-> file.key[a]])
    /\ UNCHANGED gen

\* add_record: a custom name for a member.
BeginRecord(p) ==
    \E k \in Registered(file), l \in Labels :
    /\ l \notin TakenLabels(file, {})
    /\ Begin(p, [kind |-> "record", key |-> k, label |-> l])
    /\ UNCHANGED gen

\* set_deny: the pairs replace those in the file, whatever they are by then.
BeginDeny(p) ==
    \E d \in SUBSET Pairs :
    /\ Begin(p, [kind |-> "deny", deny |-> d])
    /\ UNCHANGED gen

\* A policy as its editors make it: read_policy turns the pairs into rules about
\* addresses; the rules of members on and off, or members of the group, changed.
Revised(acl, on, off, member) ==
    [deny |-> {}, rule |-> (acl.rule \ off) \cup on, off |-> (acl.off \ on) \cup off,
     block |-> acl.block \cup acl.deny, group |-> acl.group \cup member,
     groupRule |-> acl.groupRule \/ member # {}]

Policy(on, off, member) ==
    [kind |-> "policy", acl |-> Revised(file.acl, on, off, member),
     on |-> on, off |-> off, member |-> member]

\* The rule about a member, saved by the ACL editor as a whole policy: added,
\* disabled or enabled again.
BeginRule(p) ==
    \E k \in Registered(file) :
    /\ \/ k \notin file.acl.rule /\ Begin(p, Policy({k}, {}, {}))
       \/ k \notin file.acl.off /\ Begin(p, Policy({}, {k}, {}))
    /\ UNCHANGED gen

\* perm_group_create or perm_group_set_members, with a rule about the group:
\* read_policy here, the whole policy written later.
BeginGroup(p) ==
    \E k \in Registered(file) \ file.acl.group :
    /\ Begin(p, Policy({}, {}, {k}))
    /\ UNCHANGED gen

-----------------------------------------------------------------------------
(* Second half: lock, load, edit, validate, write.                         *)

\* Mutant of Lock: the lock file does not exclude (load_doc without the lock).
Lock_NoExclusion(p) ==
    /\ pc[p] = "checked" /\ ~torn
    /\ lock' = p
    /\ doc' = [doc EXCEPT ![p] = file]
    /\ pc' = [pc EXCEPT ![p] = "locked"]
    /\ UNCHANGED <<file, torn, op, gen, edits, crashes, revoked>>

\* load_doc_locked.
Lock(p) ==
    /\ pc[p] = "checked" /\ ~torn /\ lock = Free
    /\ lock' = p
    /\ doc' = [doc EXCEPT ![p] = file]
    /\ pc' = [pc EXCEPT ![p] = "locked"]
    /\ UNCHANGED <<file, torn, op, gen, edits, crashes, revoked>>

\* The edit finds its target in the document: a peer by its key.
Found(e, d) ==
    CASE e.kind = "append" -> d.key[e.addr] = NoKey /\ e.key \notin Registered(d)
      [] e.kind \in {"deny", "policy", "record"} -> TRUE
      [] OTHER -> e.key \in Registered(d)

Holder(d, k) == CHOOSE a \in Addrs : d.key[a] = k

Renamed(S, old, new) == IF old \in S THEN (S \ {old}) \cup {new} ELSE S

\* What a removal leaves of the ACL.  A pair it had read that names the address
\* makes it write the pairs it had read, and only them; otherwise it takes the
\* member out of the rules and the group, and a rule about an empty group with it.
AclWithout(e, acl) ==
    LET group == acl.group \ {e.key}
    IN  IF \E pair \in e.deny : e.addr \in pair
        THEN OnlyPairs({pair \in e.deny : e.addr \notin pair})
        ELSE [deny |-> acl.deny, rule |-> acl.rule \ {e.key}, off |-> acl.off \ {e.key},
              block |-> acl.block, group |-> group,
              groupRule |-> acl.groupRule /\ group # {}]

Removed(e, d) ==
    LET a == Holder(d, e.key)
    IN  [d EXCEPT !.key[a] = NoKey, !.label[a] = NoLabel, !.device[a] = NoDevice,
                  !.approved[a] = FALSE, !.acl = AclWithout(e, d.acl),
                  !.record = {r \in @ : r[2] # e.key}]

\* rotate_peer_key rewrites the peer and the records, not the ACL.
Rotated(e, d) ==
    [d EXCEPT !.key[Holder(d, e.key)] = e.new,
              !.record = {<<r[1], IF r[2] = e.key THEN e.new ELSE r[2]>> : r \in @}]

Edited(e, d) ==
    CASE e.kind = "append" -> [d EXCEPT !.key[e.addr] = e.key, !.label[e.addr] = e.label]
      [] e.kind = "remove" -> Removed(e, d)
      [] e.kind = "rotate" -> Rotated(e, d)
      [] e.kind = "label" -> [d EXCEPT !.label[Holder(d, e.key)] = e.label]
      [] e.kind = "accept" -> [d EXCEPT !.device[Holder(d, e.key)] = e.device]
      [] e.kind = "approve" -> [d EXCEPT !.approved[Holder(d, e.key)] = TRUE]
      [] e.kind = "record" -> [d EXCEPT !.record = @ \cup {<<e.label, e.key>>}]
      [] e.kind = "deny" -> [d EXCEPT !.acl = OnlyPairs(e.deny)]
      [] e.kind = "policy" -> [d EXCEPT !.acl = e.acl]

Done(p) ==
    /\ pc' = [pc EXCEPT ![p] = "idle"] /\ op' = [op EXCEPT ![p] = NoOp]
    /\ doc' = [doc EXCEPT ![p] = EmptyDoc]
    /\ lock' = IF lock = p THEN Free ELSE lock

\* Mutant of Write: the result is not validated.
Write_Unvalidated(p) ==
    /\ pc[p] = "locked" /\ Found(op[p], doc[p])
    /\ file' = Edited(op[p], doc[p])
    /\ revoked' = IF op[p].kind = "remove" THEN revoked \cup {op[p].key} ELSE revoked
    /\ Done(p)
    /\ UNCHANGED <<torn, gen, edits, crashes>>

\* write_validated.
Write(p) ==
    /\ pc[p] = "locked" /\ Found(op[p], doc[p]) /\ Valid(Edited(op[p], doc[p]))
    /\ file' = Edited(op[p], doc[p])
    /\ revoked' = IF op[p].kind = "remove" THEN revoked \cup {op[p].key} ELSE revoked
    /\ Done(p)
    /\ UNCHANGED <<torn, gen, edits, crashes>>

\* The target is gone, or the result would not validate: an error, no write.
Refuse(p) ==
    /\ pc[p] = "locked"
    /\ ~(Found(op[p], doc[p]) /\ Valid(Edited(op[p], doc[p])))
    /\ Done(p)
    /\ UNCHANGED <<file, torn, gen, edits, crashes, revoked>>

\* fs::write truncates and writes in place; the process dies in between and
\* the operating system releases its lock.
WriteCrash(p) ==
    /\ pc[p] = "locked" /\ Found(op[p], doc[p]) /\ Valid(Edited(op[p], doc[p]))
    /\ crashes < MaxCrash /\ crashes' = crashes + 1
    /\ torn' = TRUE
    /\ Done(p)
    /\ UNCHANGED <<file, gen, edits, revoked>>

Step(p) ==
    \/ BeginInvite(p) \/ BeginRemove(p) \/ BeginRotate(p) \/ BeginLabel(p)
    \/ BeginAccept(p) \/ BeginApprove(p) \/ BeginRecord(p) \/ BeginDeny(p)
    \/ BeginRule(p) \/ BeginGroup(p)
    \/ Lock(p) \/ Write(p) \/ Refuse(p) \/ WriteCrash(p)

Next == \E p \in Procs : Step(p)

Spec == Init /\ [][Next]_vars
-----------------------------------------------------------------------------
(* Properties.                                                             *)

\* host.toml always passes Config::validate, and the lock has one holder.
TypeOK ==
    /\ file \in Documents /\ Valid(file) /\ torn \in BOOLEAN
    /\ lock \in Procs \cup {Free}
    /\ pc \in [Procs -> {"idle", "checked", "locked"}]
    /\ \A p \in Procs : pc[p] = "locked" => lock = p
    /\ doc \in [Procs -> Documents]
    /\ gen \in 0 .. MaxKey /\ edits \in 0 .. MaxEdit /\ crashes \in 0 .. MaxCrash
    /\ revoked \subseteq Keys

\* A removed member does not come back, neither as a peer nor through a record or
\* a rule that is applied: "失効したメンバーが復活しうる" is what the lock is there
\* to prevent.  A disabled rule about it is no part of this: nothing resolves it,
\* so a policy read before the removal brings it back.
RevokedGone ==
    revoked \cap (Registered(file) \cup file.acl.rule \cup {r[2] : r \in file.record}) = {}

\* An edit with what it took from its first, unlocked load brought up to date.
Refreshed(e, f) ==
    CASE e.kind = "remove" -> [e EXCEPT !.deny = f.acl.deny]
      [] e.kind = "policy" -> [e EXCEPT !.acl = Revised(f.acl, e.on, e.off, e.member)]
      [] OTHER -> e

\* The peers and the records that an edit writes are its own change applied to
\* those in the file at that moment, whatever it had read before it got the
\* lock: no edit undoes another (ConfigLock).
PeersKept ==
    [][\A p \in Procs :
         (pc[p] = "locked" /\ pc'[p] = "idle" /\ file' # file)
            => Members(file') = Members(Edited(Refreshed(op[p], file), file))]_vars

\* The same of the whole document, the access policy included.
NoLostUpdate ==
    [][\A p \in Procs :
         (pc[p] = "locked" /\ pc'[p] = "idle" /\ file' # file)
            => file' = Edited(Refreshed(op[p], file), file)]_vars

\* An invite is used by the device that presented it first and no other; only
\* the removal of the peer frees its address.
DeviceBound ==
    [][\A a \in Addrs :
         (file.device[a] # NoDevice /\ file'.device[a] # file.device[a])
            => file'.key[a] = NoKey]_vars

\* ADR-0021: a DNS name in use is an error when it is set.
UniqueLabels ==
    \A a, b \in Addrs :
      (file.key[a] # NoKey /\ file.key[b] # NoKey /\ file.label[a] = file.label[b])
         => a = b

\* docs/verification.md: once a member is removed, no reference by public key is
\* left.  So with all members removed the group is empty; but it keeps a key
\* its member has since replaced, and one that a stale policy brought back.
NoReferenceLeft == Registered(file) = {} => file.acl.group = {}

\* The same of the rules: refuted by a disabled rule that such a policy brings back.
NoRuleLeft == Registered(file) = {} => file.acl.off = {}

\* acl.rs: the policy is replaced atomically.
FileWhole == ~torn
=============================================================================
