------------------------------ MODULE AclPolicy -----------------------------
(***************************************************************************)
(* The access policy of a network: the [acl] section of host.toml and what *)
(* changes it, its compilation into rules on addresses (AclPolicy::compile,*)
(* peercove-core/src/acl.rs), the verdict on a packet (evaluate), and the  *)
(* pairs that may not use a direct path (force_relay_pairs).               *)
(*                                                                         *)
(* A member is its own address; B also advertises the network Lan behind   *)
(* it.  A packet is [src, dst, service], where a service stands for a      *)
(* protocol and its port: "web" is the TCP port the rules name, "other"    *)
(* everything else.  An edit that does not compile is refused (validate).  *)
(***************************************************************************)
EXTENDS Naturals, Sequences, FiniteSets

CONSTANTS A, B, Lan, Host, MaxRules

PolicyAssumption == Cardinality({A, B, Lan, Host}) = 4 /\ MaxRules \in Nat

VARIABLES config,  \* the part of host.toml the policy is built from
          legacy   \* the pairs of the old format just turned into rules

policyVars == <<config, legacy>>

Members == {A, B}
Addresses == {A, B, Lan}
Services == {"web", "other"}
NoGroup == {"no group"}

(* The targets the edits of this model use.                                *)
Any == [kind |-> "any"]
Member(m) == [kind |-> "member", member |-> m]
Group == [kind |-> "group"]
Subnet(n) == [kind |-> "subnet", net |-> n]
Service == [kind |-> "service"]   \* a DNS record for B with a port
Sources == {Any, Member(A), Group}
Destinations == {Any, Member(B), Subnet(Lan), Service}
Rules == [action : {"allow", "deny"}, source : Sources, destination : Destinations,
          ports : {{}, {"web"}}, legacy : {FALSE}]

PolicyTypeOK ==
  /\ config.peers \subseteq Members
  /\ config.group \in SUBSET (Members \cup {Host}) \cup {NoGroup}
  /\ config.record \in BOOLEAN
  /\ config.deny \subseteq {{A, B}}
  /\ config.default \in {"allow", "deny"}
  /\ Len(config.rules) <= MaxRules + 2

(* peer_networks: the member's address and what it advertises.             *)
Networks(m) == IF m = B THEN {B, Lan} ELSE {m}

(* resolve_target: an empty set stands for every address, and a target that*)
(* does not exist for an error.  Members of a group that are not peers,    *)
(* the host among them, are passed over.                                   *)
Failed == {"error"}
Resolve(c, t) ==
  CASE t.kind = "any" -> {}
    [] t.kind = "member" -> IF t.member \in c.peers THEN Networks(t.member) ELSE Failed
    [] t.kind = "group" -> IF c.group = NoGroup THEN Failed
                           ELSE UNION {Networks(m) : m \in c.group \cap c.peers}
    [] t.kind = "subnet" -> {t.net}
    [] t.kind = "service" -> IF c.record /\ B \in c.peers THEN {B} ELSE Failed

(* compile: each pair of the old format denies both ways, networks         *)
(* included, before the rules in their order.                              *)
SideNetworks(c, m) == IF m \in c.peers THEN Networks(m) ELSE {m}
DenyRule(c, m, n) == [action |-> "deny", source |-> SideNetworks(c, m),
                      destination |-> SideNetworks(c, n), ports |-> {}, legacy |-> TRUE]

Compile(c) ==
  [default |-> c.default,
   rules |-> (IF c.deny = {} THEN <<>> ELSE <<DenyRule(c, A, B), DenyRule(c, B, A)>>)
             \o [i \in 1..Len(c.rules) |->
                   [c.rules[i] EXCEPT !.source = Resolve(c, @), !.destination = Resolve(c, @)]]]

Compiles(c) == \A i \in 1..Len(c.rules) :
  /\ Resolve(c, c.rules[i].source) # Failed
  /\ Resolve(c, c.rules[i].destination) # Failed

(* evaluate: the first rule that fits decides.                             *)
Covers(nets, ip) == nets = {} \/ ip \in nets
Fits(rule, p) == /\ Covers(rule.source, p.src) /\ Covers(rule.destination, p.dst)
                 /\ rule.ports = {} \/ p.service \in rule.ports

Evaluate(policy, p) ==
  LET fitting == {i \in 1..Len(policy.rules) : Fits(policy.rules[i], p)}
  IN IF fitting = {} THEN policy.default
     ELSE policy.rules[CHOOSE i \in fitting : \A j \in fitting : i <= j].action

(* force_relay_pairs: pairs that a rule, or a default of deny, concerns.   *)
Concerns(rule, m, n) == Covers(rule.source, m) /\ Covers(rule.destination, n)
ForcedOneWay(policy, m, n) ==
  \/ policy.default = "deny"
  \/ \E i \in 1..Len(policy.rules) :
       Concerns(policy.rules[i], m, n) /\ ~policy.rules[i].legacy

ForcedToRelay(policy, m, n) ==
  \/ policy.default = "deny"
  \/ \E i \in 1..Len(policy.rules) :
       LET rule == policy.rules[i]
       IN (Concerns(rule, m, n) \/ Concerns(rule, n, m)) /\ ~rule.legacy

(* The pairs kept from a direct path in the distribution (run_loop,        *)
(* personalize): those of the old format and those forced to relay.        *)
Direct(c, m, n) == {m, n} \notin c.deny /\ ~ForcedToRelay(Compile(c), m, n)

-----------------------------------------------------------------------------

PolicyInit ==
  /\ config = [peers |-> Members, group |-> NoGroup, record |-> TRUE,
               deny |-> {}, default |-> "allow", rules |-> <<>>]
  /\ legacy = {}

(* write_validated: what does not compile is not written.                  *)
Save(c) == Compiles(c) /\ config' = c

(* set_deny: the section is replaced by the pairs.                         *)
SetDeny(pairs) ==
  /\ Save([config EXCEPT !.deny = pairs, !.rules = <<>>, !.group = NoGroup,
                         !.default = "allow"])
  /\ legacy' = {}

(* read_policy shows the pairs of the old format as rules, write_policy    *)
(* saves the whole section without the pairs.                              *)
AsRules(pairs) ==
  IF pairs = {} THEN <<>>
  ELSE LET deny(m, n) == [action |-> "deny", source |-> Subnet(m), destination |-> Subnet(n),
                          ports |-> {}, legacy |-> FALSE]
       IN <<deny(A, B), deny(B, A)>>

Written(rules, default, group) ==
  /\ Len(rules) <= MaxRules + Len(AsRules(config.deny))
  /\ Save([config EXCEPT !.deny = {}, !.rules = rules, !.default = default, !.group = group])
  /\ legacy' = config.deny

AddRule == \E r \in Rules :
  Written(Append(AsRules(config.deny) \o config.rules, r), config.default, config.group)

SetDefault == \E d \in {"allow", "deny"} :
  Written(AsRules(config.deny) \o config.rules, d, config.group)

(* perm_group_create and perm_group_set_members: a group may be empty, or  *)
(* hold only the host.                                                     *)
SetGroup == \E g \in SUBSET (Members \cup {Host}) :
  Written(AsRules(config.deny) \o config.rules, config.default, g)

(* remove_peer takes the member out of pairs and groups, removes a group   *)
(* that becomes empty, and every rule that names the member, such a group  *)
(* or a service of the member.                                             *)
Without(c, m) ==
  LET emptied == c.group # NoGroup /\ c.group = {m}
      named(t) == \/ t = Member(m)
                  \/ t.kind = "group" /\ emptied
                  \/ t.kind = "service" /\ m = B
  IN [c EXCEPT !.peers = @ \ {m},
               !.deny = {},
               !.group = IF @ = NoGroup \/ emptied THEN NoGroup ELSE @ \ {m},
               !.record = @ /\ m # B,
               !.rules = SelectSeq(@, LAMBDA r : ~named(r.source) /\ ~named(r.destination))]

RemovePeer(m) == /\ m \in config.peers
                 /\ Save(Without(config, m))
                 /\ legacy' = {}

PolicyNext ==
  \/ SetDeny({{A, B}}) \/ SetDeny({})
  \/ AddRule \/ SetDefault \/ SetGroup
  \/ \E m \in Members : RemovePeer(m)

PolicySpec == PolicyInit /\ [][PolicyNext]_policyVars

-----------------------------------------------------------------------------

Packets == [src : Addresses, dst : Addresses, service : Services]

(* A direct path goes past the host's filter, so two members may only have *)
(* one when the policy lets everything between their addresses through     *)
(* (force_relay_pairs, personalize).                                       *)
DirectAllowed ==
  \A m, n \in config.peers : m # n /\ Direct(config, m, n) =>
    \A p \in Packets : {p.src, p.dst} = {m, n} => Evaluate(Compile(config), p) = "allow"

(* A member can always be removed: what remove_peer leaves behind still    *)
(* compiles, so its own cleaning never makes the write be refused.         *)
Removable == \A m \in config.peers : Compiles(Without(config, m))

(* Unless a group without a peer is involved, a target means the addresses *)
(* it names, and the first rule that names both ends of a packet decides   *)
(* (resolve_target, evaluate).                                             *)
Names(t, ip) ==
  \/ t = Any
  \/ \E m \in config.peers :
       /\ ip \in Networks(m)
       /\ t = Member(m) \/ (t = Group /\ config.group # NoGroup /\ m \in config.group)
  \/ t = Subnet(ip)
  \/ t = Service /\ ip = B

Decided(p) ==
  LET naming == {i \in 1..Len(config.rules) :
                   /\ Names(config.rules[i].source, p.src)
                   /\ Names(config.rules[i].destination, p.dst)
                   /\ config.rules[i].ports = {} \/ p.service \in config.rules[i].ports}
  IN IF \E pair \in config.deny :
          \E m, n \in pair : /\ m # n
                             /\ p.src \in SideNetworks(config, m)
                             /\ p.dst \in SideNetworks(config, n)
       THEN "deny"
     ELSE IF naming = {} THEN config.default
     ELSE config.rules[CHOOSE i \in naming : \A j \in naming : i <= j].action

GroupHasPeer == config.group = NoGroup \/ config.group \cap config.peers # {}

DecisionTrue == GroupHasPeer => \A p \in Packets : Evaluate(Compile(config), p) = Decided(p)

PolicySound == DirectAllowed /\ Removable /\ DecisionTrue

(* The comment in resolve_target: members of a group that are no peers are *)
(* passed over, so a rule on a group concerns its members only.            *)
GroupMeansMembers == \A p \in Packets : Evaluate(Compile(config), p) = Decided(p)

(* The doc comment of read_policy: the pairs of the old format are shown as*)
(* rules with the same result.                                             *)
SameResult == [][legacy' # {} /\ Len(config'.rules) = 2 /\ config'.default = config.default =>
                   \A p \in Packets : Evaluate(Compile(config'), p)
                                        = Evaluate(Compile(config), p)]_policyVars
=============================================================================
