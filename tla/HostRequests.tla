----------------------------- MODULE HostRequests -----------------------------
(***************************************************************************)
(* What the members ask of the host over the control channel, and what the *)
(* host's own interface does to the same host.toml meanwhile.  The daemon  *)
(* handles one request at a time (HostRequests.lock); a request is checked *)
(* against the file, prepared from a second load, and written under the    *)
(* lock of the file.  The interface is another process: it asks nobody,    *)
(* but its edits also prepare first and write later.                       *)
(*                                                                         *)
(* host.toml is reduced to what the requests check and change: who is a    *)
(* peer and who of them waits for approval, rights, names and DNS names,   *)
(* top-level records, two settings and the groups of the ACL policy.  The  *)
(* DNS label of a name is the name itself.                                 *)
(***************************************************************************)
EXTENDS Naturals, FiniteSets

CONSTANTS Askers,     \* virtual addresses
          First,      \* the members of the initial file
          Labels, NoLabel,
          Groups,     \* ids of permission groups
          Asked,      \* the operations the members ask for
          EditedOps,  \* the operations of the host's interface
          MaxOps      \* operations begun in all

VARIABLES file,      \* host.toml
          job,       \* job[p]: the operation process p is at
          ver,       \* writes of the file
          crossed,   \* some write came between the preparation and the write of another
          ops,       \* what MaxOps counts
          after      \* after[m]: writes for administrator m since it lost the right

reqVars == <<file, job, ver, crossed, ops, after>>

Sides == {"daemon", "ui"}
Idle == [at |-> "idle"]
Settings == [approval : BOOLEAN, invites : BOOLEAN]

Init ==
    /\ file = [here |-> First, waiting |-> {}, admin |-> {}, invite |-> {},
               name |-> [m \in Askers |-> NoLabel], dns |-> [m \in Askers |-> NoLabel],
               record |-> {}, subnet |-> {}, set |-> [approval |-> FALSE, invites |-> TRUE],
               groups |-> {}, rules |-> {}]
    /\ job = [p \in Sides |-> Idle]
    /\ ver = 0 /\ crossed = FALSE /\ ops = 0
    /\ after = [m \in Askers |-> 0]

(* The label a member has: its DNS name, or the one its name gives, or one *)
(* made of its address.                                                    *)
peer_dns_label(f, m) == IF f.dns[m] # NoLabel THEN f.dns[m]
                        ELSE IF f.name[m] # NoLabel THEN f.name[m] ELSE m
taken_dns_labels(f, except) ==
    {peer_dns_label(f, m) : m \in f.here \ except} \cup f.record

OwnOps == {"dns_name", "display_name"}
TargetOps == {"remove", "rename", "approve", "can_invite", "set_dns", "subnets"}
SettingOps == {"set_approval", "set_invites"}
RecordOps == {"record_add", "record_remove"}
GroupOps == {"group_create", "group_delete"}
AdminOps == TargetOps \cup SettingOps \cup RecordOps \cup GroupOps
AllOps == OwnOps \cup AdminOps \cup {"invite", "grant", "revoke"}

\* Rights are granted on the host alone, and the host is no member of its own.
RequestsAssumption == /\ First \subseteq Askers /\ "host" \notin Askers /\ MaxOps \in Nat
                      /\ Asked \subseteq AllOps \ {"grant", "revoke"} /\ EditedOps \subseteq AllOps

(* First load: may this member ask for this?                               *)
May_Always(m, op, target) == m \in file.here
MayInvite(m) == file.set.invites /\ m \in file.invite \cup file.admin
MayAdminister(m, op, target) == /\ m \in file.admin
                                /\ op \in TargetOps => target # m
May(m, op, target) ==
    /\ m \in file.here
    /\ op = "invite" => MayInvite(m)
    /\ op \in AdminOps => MayAdminister(m, op, target)

(* Second load: what is refused at once, and what the write will need.     *)
LabelFree(label, except) == label \notin taken_dns_labels(file, except)
NameFree(label, m) == \A n \in file.here \ {m} : file.name[n] # label

Prepared_NamesOnly(op, target, label, group) ==
    /\ op \in OwnOps \cup TargetOps \cup {"grant", "revoke"} => target \in file.here
    /\ op \in {"dns_name", "set_dns"} => \A m \in file.here \ {target} : file.name[m] # label
    /\ op = "invite" => target \notin file.here
    /\ op = "record_add" => label \notin file.record
    /\ op = "record_remove" => label \in file.record

Prepared(op, target, label, group) ==
    /\ op \in OwnOps \cup TargetOps \cup {"grant", "revoke"} => target \in file.here
    /\ op \in {"dns_name", "set_dns"} => LabelFree(label, {target})
    /\ op \in {"display_name", "rename"} => NameFree(label, target)
    /\ op = "invite" => target \notin file.here /\ LabelFree(label, {})
    /\ op = "approve" => target \in file.waiting
    /\ op = "record_add" => LabelFree(label, {})
    /\ op = "record_remove" => label \in file.record
    /\ op = "group_create" => group \notin file.groups
    /\ op = "group_delete" => group \in file.groups

Plan(op, actor, target, label, group) ==
    [at |-> "write", op |-> op, actor |-> actor, target |-> target, label |-> label,
     group |-> group, ver |-> ver, set |-> file.set, groups |-> file.groups,
     rules |-> file.rules]

\* A request that passes its check; an isolated session's requests are not read.
Receive(m, op, target) ==
    /\ job["daemon"].at = "idle" /\ ops < MaxOps /\ ops' = ops + 1
    /\ m \notin file.waiting /\ May(m, op, target)
    /\ job' = [job EXCEPT !["daemon"] =
                 [at |-> "checked", op |-> op, actor |-> m, target |-> target]]
    /\ UNCHANGED <<file, ver, crossed, after>>

Prepare(label, group) ==
    LET j == job["daemon"] IN
    /\ j.at = "checked"
    /\ IF Prepared(j.op, j.target, label, group)
       THEN job' = [job EXCEPT !["daemon"] = Plan(j.op, j.actor, j.target, label, group)]
       ELSE job' = [job EXCEPT !["daemon"] = Idle]
    /\ UNCHANGED <<file, ver, crossed, ops, after>>

\* The interface and the command line: no check of rights, and the only grants.
Edit(op, target, label, group) ==
    /\ job["ui"].at = "idle" /\ ops < MaxOps /\ ops' = ops + 1
    /\ Prepared(op, target, label, group)
    /\ job' = [job EXCEPT !["ui"] = Plan(op, "host", target, label, group)]
    /\ UNCHANGED <<file, ver, crossed, after>>

(* Under the file's lock: the tables are found again by key, settings and  *)
(* policy are written whole, as they were read before.                     *)
SetDnsName(f, m, label) == [f EXCEPT !.dns[m] = label]
Rename(f, m, label) == [f EXCEPT !.name[m] = label]
ApproveMember(f, m) == [f EXCEPT !.waiting = @ \ {m}]
SetCanInvite(f, m) == [f EXCEPT !.invite = @ \cup {m}]
SetAdmin(f, m, given) == [f EXCEPT !.admin = IF given THEN @ \cup {m} ELSE @ \ {m}]
SetSubnets(f, m) == [f EXCEPT !.subnet = @ \cup {m}]
RemoveMember(f, m) ==
    [f EXCEPT !.here = @ \ {m}, !.waiting = @ \ {m}, !.admin = @ \ {m},
              !.invite = @ \ {m}, !.subnet = @ \ {m},
              !.name[m] = NoLabel, !.dns[m] = NoLabel]
AddRecord(f, label) == [f EXCEPT !.record = @ \cup {label}]
RemoveRecord(f, label) == [f EXCEPT !.record = @ \ {label}]
WriteSettings(f, set) == [f EXCEPT !.set = set]
WritePolicy(f, groups, rules) == [f EXCEPT !.groups = groups, !.rules = rules]
AddInvited(f, m, label, approval) ==
    [f EXCEPT !.here = @ \cup {m}, !.dns[m] = label,
              !.waiting = IF approval THEN @ \cup {m} ELSE @]

Written(f, j) ==
    CASE j.op \in {"dns_name", "set_dns"} -> SetDnsName(f, j.target, j.label)
      [] j.op \in {"display_name", "rename"} -> Rename(f, j.target, j.label)
      [] j.op = "remove" -> RemoveMember(f, j.target)
      [] j.op = "approve" -> ApproveMember(f, j.target)
      [] j.op = "can_invite" -> SetCanInvite(f, j.target)
      [] j.op \in {"grant", "revoke"} -> SetAdmin(f, j.target, j.op = "grant")
      [] j.op = "subnets" -> SetSubnets(f, j.target)
      [] j.op = "set_approval" -> WriteSettings(f, [j.set EXCEPT !.approval = ~@])
      [] j.op = "set_invites" -> WriteSettings(f, [j.set EXCEPT !.invites = ~@])
      [] j.op = "record_add" -> AddRecord(f, j.label)
      [] j.op = "record_remove" -> RemoveRecord(f, j.label)
      [] j.op = "group_create" -> WritePolicy(f, j.groups \cup {j.group}, j.rules \cup {j.group})
      [] j.op = "group_delete" -> WritePolicy(f, j.groups \ {j.group}, j.rules \ {j.group})
      [] j.op = "invite" -> AddInvited(f, j.target, j.label, j.set.approval)

\* The document under the lock has the peer, respectively the record, or the edit fails.
Found(j) == /\ j.op \in OwnOps \cup TargetOps \cup {"grant", "revoke"} => j.target \in file.here
            /\ j.op = "invite" => j.target \notin file.here
            /\ j.op = "record_add" => j.label \notin file.record
            /\ j.op = "record_remove" => j.label \in file.record

Write(p) ==
    LET j == job[p] IN
    /\ j.at = "write" /\ job' = [job EXCEPT ![p] = Idle]
    /\ IF Found(j)
       THEN /\ file' = Written(file, j) /\ ver' = ver + 1
            /\ crossed' = (crossed \/ j.ver # ver)
            /\ after' = [m \in Askers |->
                           IF m \in file'.admin \/ m \notin file'.here THEN 0
                           ELSE IF j.actor = m /\ j.op \in AdminOps THEN after[m] + 1
                           ELSE after[m]]
       ELSE UNCHANGED <<file, ver, crossed, after>>
    /\ UNCHANGED ops

Next == \/ \E m, t \in Askers, op \in Asked : (op \in OwnOps => t = m) /\ Receive(m, op, t)
        \/ \E l \in Labels, g \in Groups : Prepare(l, g)
        \/ \E op \in EditedOps, t \in Askers, l \in Labels, g \in Groups : Edit(op, t, l, g)
        \/ \E p \in Sides : Write(p)

Spec == Init /\ [][Next]_reqVars

TypeOK ==
    /\ file.here \subseteq Askers /\ file.waiting \subseteq file.here
    /\ file.admin \subseteq file.here /\ file.invite \subseteq file.here
    /\ file.subnet \subseteq file.here
    /\ file.name \in [Askers -> Labels \cup {NoLabel}]
    /\ file.dns \in [Askers -> Labels \cup {NoLabel}]
    /\ file.record \subseteq Labels /\ file.set \in Settings
    /\ file.groups \subseteq Groups /\ file.rules \subseteq Groups
    /\ \A p \in Sides : job[p].at \in {"idle", "checked", "write"}
    /\ ver \in 0 .. MaxOps /\ ops \in 0 .. MaxOps /\ crossed \in BOOLEAN
    /\ after \in [Askers -> 0 .. MaxOps]

(* A DNS name that was set belongs to one member and to no record, unless  *)
(* two processes overlapped: a label found free may be taken before the    *)
(* write, which looks at it no more.                                       *)
LabelsApart ==
    crossed \/ \A m \in file.here : file.dns[m] # NoLabel =>
        /\ file.dns[m] \notin file.record
        /\ \A n \in file.here \ {m} : file.dns[n] # file.dns[m]

(* A member whose administration was withdrawn gets at most the one        *)
(* request through that was already past its check: rights are read from   *)
(* the file for every request and requests are handled one at a time.      *)
OneLateWrite == \A m \in Askers : after[m] <= 1
===============================================================================
