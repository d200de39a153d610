---------------------------- MODULE ForwardChain ----------------------------
(***************************************************************************)
(* The host's relay on Linux (LinuxBackend, backend/linux.rs): the rules   *)
(* PeerCove keeps in the FORWARD and INPUT chains of iptables for relaying,*)
(* the access policy and the waiting devices kept apart.                   *)
(*                                                                         *)
(* The backend runs one iptables command after another; packets are judged *)
(* by the chains as they stand between two commands.  A command may fail,  *)
(* and the process may die, which leaves its rules in the chains and takes *)
(* its knowledge of them.  A job is the sequence of commands of one call;  *)
(* when a command it depends on fails, the call takes back what it did.    *)
(*                                                                         *)
(* Abstracted: OUTPUT mirrors INPUT; protocols, ports and networks only    *)
(* say which packets a rule fits, so a rule names sets of members; the     *)
(* reply rule accepts packets of established flows.  The chains end in what*)
(* the system had before, which accepts.                                   *)
(***************************************************************************)
EXTENDS Naturals, Sequences, FiniteSets

CONSTANTS Nodes, Waiting,   \* devices; those that may have to wait for approval
          Policies,         \* the policies the host may be given
          MaxGen,           \* policies applied by one process
          MaxFails          \* commands that fail and deaths

ChainAssumption == MaxGen \in Nat /\ MaxFails \in Nat

VARIABLES forward, input,   \* the rules of PeerCove in the two chains, first to last
          running,          \* the tunnel is up
          todo,             \* commands still to run
          job,              \* the call they belong to, and what it intends
          done,             \* rules the call inserted so far
          aclRules, policy, gen,  \* what the process knows it applied
          isolated, relayRule,
          fails, deaths,
          lost              \* a command whose failure is only logged failed

chainVars == <<forward, input, running, todo, job, done, aclRules, policy, gen, isolated,
               relayRule, fails, deaths, lost>>

Everybody == Nodes
Rule(what, g, from, to, act) ==
  [what |-> what, gen |-> g, from |-> from, to |-> to, act |-> act]
Insert(chain, rule, must) == [op |-> "-I", chain |-> chain, rule |-> rule, must |-> must]
Delete(chain, rule) == [op |-> "-D", chain |-> chain, rule |-> rule, must |-> FALSE]
NoPolicy == [default |-> "allow", rules |-> <<>>, none |-> TRUE]
Idle == [kind |-> "idle"]

RelayRule == Rule("relay", 0, Everybody, Everybody, "ACCEPT")
(* isolation_rule_args: the order they are inserted in, so that what is    *)
(* accepted ends on top.  what is "control" fits the control channel only.     *)
IsolationRules(n) ==
  <<[chain |-> "FORWARD", rule |-> Rule("apart", 0, {n}, Everybody, "DROP")],
    [chain |-> "FORWARD", rule |-> Rule("apart", 0, Everybody, {n}, "DROP")],
    [chain |-> "INPUT", rule |-> Rule("apart", 0, {n}, {}, "DROP")],
    [chain |-> "INPUT", rule |-> Rule("control", 0, {n}, {}, "ACCEPT")]>>

Flatten(ss) == LET f[i \in 0..Len(ss)] == IF i = 0 THEN <<>> ELSE f[i - 1] \o ss[i]
               IN f[Len(ss)]
Listed(S) == CHOOSE s \in [1..Cardinality(S) -> S] : \A x \in S : \E i \in DOMAIN s : s[i] = x

IsolationCommands(op, S, must) ==
  Flatten([k \in 1..Cardinality(S) |->
    [i \in 1..4 |-> [op |-> op, chain |-> IsolationRules(Listed(S)[k])[i].chain,
                     rule |-> IsolationRules(Listed(S)[k])[i].rule, must |-> must]]])

(* sync_acl: the reply rule when anything is denied, the policy's rules,   *)
(* and a last one for a default of deny; each carries the generation.      *)
ReplyRule(g) == Rule("reply", g, Everybody, Everybody, "ACCEPT")
Denies(p) == p.default = "deny" \/ \E i \in 1..Len(p.rules) : p.rules[i].act = "DROP"
Desired(p, g) ==
  (IF Denies(p) THEN <<ReplyRule(g)>> ELSE <<>>)
  \o [i \in 1..Len(p.rules) |-> Rule("policy", g, p.rules[i].from, p.rules[i].to, p.rules[i].act)]
  \o (IF p.default = "deny" THEN <<Rule("default", g, Everybody, Everybody, "DROP")>>
      ELSE <<>>)

Backwards(s) == [i \in 1..Len(s) |-> s[Len(s) + 1 - i]]

ChainInit ==
  /\ forward = <<>> /\ input = <<>> /\ running = FALSE
  /\ todo = <<>> /\ job = Idle /\ done = <<>>
  /\ aclRules = <<>> /\ policy = NoPolicy /\ gen = 0 /\ isolated = {} /\ relayRule = FALSE
  /\ fails = 0 /\ deaths = 0 /\ lost = FALSE

Begin(what, commands) ==
  /\ job' = what /\ todo' = commands /\ done' = <<>>
  /\ UNCHANGED <<forward, input, fails, deaths, lost>>
IsIdle == job = Idle /\ todo = <<>>

(* apply_relay_rule: one left behind is deleted, then one is inserted;     *)
(* failing to is only logged.                                              *)
RelayCommands == <<Delete("FORWARD", RelayRule), Insert("FORWARD", RelayRule, FALSE)>>
Up == /\ IsIdle /\ ~running /\ running' = TRUE /\ relayRule' = TRUE
      /\ Begin([kind |-> "up"], RelayCommands)
      /\ UNCHANGED <<aclRules, policy, gen, isolated>>

(* sync_acl: the new rules are inserted from the last to the first, then   *)
(* the old ones deleted; then the isolation is put back on top.            *)
ReassertNever == <<>>

Reassert == IsolationCommands("-D", isolated, FALSE) \o IsolationCommands("-I", isolated, FALSE)
DeleteAll(rules) == [i \in 1..Len(rules) |-> Delete("FORWARD", rules[i])]
InsertAll(rules) == [i \in 1..Len(rules) |-> Insert("FORWARD", Backwards(rules)[i], TRUE)]

SyncAcl(p) ==
  /\ IsIdle /\ running /\ p # policy /\ gen < MaxGen
  /\ gen' = gen + 1
  /\ Begin([kind |-> "acl", policy |-> p, old |-> policy],
           InsertAll(Desired(p, gen')) \o DeleteAll(aclRules) \o Reassert)
  /\ UNCHANGED <<running, aclRules, policy, isolated, relayRule>>

(* sync_isolation: all rules out, then those wanted in.                    *)
SyncIsolation(S) ==
  /\ IsIdle /\ running /\ S # isolated
  /\ Begin([kind |-> "apart", wanted |-> S],
           IsolationCommands("-D", isolated, FALSE) \o IsolationCommands("-I", S, TRUE))
  /\ UNCHANGED <<running, aclRules, policy, gen, isolated, relayRule>>

ClearRelay == IF relayRule THEN <<Delete("FORWARD", RelayRule)>> ELSE <<>>
Down ==
  /\ IsIdle /\ running
  /\ Begin([kind |-> "down"],
           IsolationCommands("-D", isolated, FALSE) \o DeleteAll(aclRules)
             \o ClearRelay)
  /\ UNCHANGED <<running, aclRules, policy, gen, isolated, relayRule>>

(* iptables -I puts a rule first; -D deletes the first rule that is equal. *)
Applied(chain, c) ==
  IF c.op = "-I" THEN <<c.rule>> \o chain
  ELSE LET at == {i \in 1..Len(chain) : chain[i] = c.rule}
       IN IF at = {} THEN chain
          ELSE LET k == CHOOSE i \in at : \A j \in at : i <= j
               IN SubSeq(chain, 1, k - 1) \o SubSeq(chain, k + 1, Len(chain))

Command ==
  /\ todo # <<>> /\ todo' = Tail(todo)
  /\ LET c == Head(todo)
     IN /\ forward' = IF c.chain = "FORWARD" THEN Applied(forward, c) ELSE forward
        /\ input' = IF c.chain = "INPUT" THEN Applied(input, c) ELSE input
        /\ done' = IF c.op = "-I" /\ c.must THEN Append(done, c) ELSE done
  /\ UNCHANGED <<running, job, aclRules, policy, gen, isolated, relayRule, fails, deaths, lost>>

(* A command fails: sync_acl deletes the rules it inserted and             *)
(* sync_isolation all rules of the devices reached, and both report it;    *)
(* elsewhere the failure is logged.                                        *)
Rollback == [i \in 1..Len(done) |-> [done[i] EXCEPT !.op = "-D", !.must = FALSE]]

CommandFails ==
  /\ todo # <<>> /\ fails + deaths < MaxFails /\ fails' = fails + 1
  /\ IF Head(todo).must
       THEN /\ todo' = Rollback /\ done' = <<>>
            /\ job' = [kind |-> IF job.kind = "acl" THEN "acl failed" ELSE "apart failed"]
            /\ UNCHANGED <<lost, relayRule>>
       ELSE /\ todo' = Tail(todo) /\ lost' = TRUE
            /\ relayRule' = (relayRule /\ job.kind # "up")
            /\ UNCHANGED <<job, done>>
  /\ UNCHANGED <<forward, input, running, aclRules, policy, gen, isolated, deaths>>

(* The call returns.                                                       *)
Return ==
  /\ todo = <<>> /\ job # Idle /\ job' = Idle /\ done' = <<>>
  /\ aclRules' = CASE job.kind = "acl" -> Desired(job.policy, gen)
                   [] job.kind = "down" -> <<>> [] OTHER -> aclRules
  /\ policy' = CASE job.kind = "acl" -> job.policy
                 [] job.kind = "down" -> NoPolicy [] OTHER -> policy
  /\ isolated' = CASE job.kind = "apart" -> job.wanted
                   [] job.kind \in {"apart failed", "down"} -> {} [] OTHER -> isolated
  /\ running' = (running /\ job.kind # "down")
  /\ relayRule' = (relayRule /\ job.kind # "down")
  /\ gen' = IF job.kind = "down" THEN 0 ELSE gen
  /\ UNCHANGED <<forward, input, todo, fails, deaths, lost>>

(* The process dies.  The interface goes with the next `peercove down`,    *)
(* the rules stay.                                                         *)
Die ==
  /\ running /\ fails + deaths < MaxFails /\ deaths' = deaths + 1
  /\ running' = FALSE /\ todo' = <<>> /\ job' = Idle /\ done' = <<>>
  /\ aclRules' = <<>> /\ policy' = NoPolicy /\ gen' = 0 /\ isolated' = {} /\ relayRule' = FALSE
  /\ UNCHANGED <<forward, input, fails, lost>>

ChainNext ==
  \/ Up \/ Down \/ Command \/ CommandFails \/ Return \/ Die
  \/ \E p \in Policies : SyncAcl(p)
  \/ \E S \in SUBSET Waiting : SyncIsolation(S)

ChainSpec == ChainInit /\ [][ChainNext]_chainVars

-----------------------------------------------------------------------------

Packets == {p \in [src : Nodes, dst : Nodes, reply : BOOLEAN] : p.src # p.dst}

Matches(rule, p) == /\ p.src \in rule.from /\ p.dst \in rule.to
                    /\ rule.what = "reply" => p.reply

First(chain, fits(_)) ==
  LET at == {i \in 1..Len(chain) : fits(chain[i])}
  IN IF at = {} THEN "ACCEPT" ELSE chain[CHOOSE i \in at : \A j \in at : i <= j].act

Verdict(p) == First(forward, LAMBDA rule : Matches(rule, p))
HostVerdict(n, control) ==
  First(input, LAMBDA rule : n \in rule.from /\ (rule.what = "control" => control))

(* AclPolicy::evaluate on the packet that opened the flow, as the reference*)
Meant(pol, p) ==
  LET fitting == {i \in 1..Len(pol.rules) : p.src \in pol.rules[i].from /\ p.dst \in pol.rules[i].to}
  IN IF p.reply THEN "ACCEPT"
     ELSE IF fitting # {} THEN pol.rules[CHOOSE i \in fitting : \A j \in fitting : i <= j].act
     ELSE IF pol.default = "deny" THEN "DROP" ELSE "ACCEPT"

Apart(p) == p.src \in isolated \/ p.dst \in isolated

(* Whatever failed and was taken back and whatever rules a process that    *)
(* died left behind: while no call is under way, the chain does to every   *)
(* packet between members what the policy and the isolation the process    *)
(* believes to be applied say (sync_acl, sync_isolation,                   *)
(* reassert_isolation_top, apply_relay_rule).                              *)
ChainTrue == running /\ IsIdle /\ ~lost =>
  \A p \in Packets : Verdict(p) = IF Apart(p) THEN "DROP" ELSE Meant(policy, p)

(* A device kept apart reaches of the host only the control channel, while *)
(* no call is under way (isolation_rule_args).                             *)
HostTrue == running /\ IsIdle /\ ~lost =>
  \A n \in isolated : HostVerdict(n, FALSE) = "DROP" /\ HostVerdict(n, TRUE) = "ACCEPT"

(* In the middle of a reload nothing gets through that the old policy      *)
(* denies and no rule of the new one accepts, and with a default of deny   *)
(* in both there is no moment at which everything passes (sync_acl inserts *)
(* before it deletes).                                                     *)
ReloadSound == job.kind = "acl" /\ ~lost /\ isolated = {} =>
  \A p \in Packets :
    /\ Meant(job.old, p) = "DROP" /\ Meant(job.policy, p) = "DROP"
    /\ \A i \in 1..Len(job.policy.rules) :
         job.policy.rules[i].act = "ACCEPT" => ~Matches(Rule("policy", 0, job.policy.rules[i].from,
                                                     job.policy.rules[i].to, "ACCEPT"), p)
    => Verdict(p) = "DROP"

ChainSound == ChainTrue /\ HostTrue /\ ReloadSound

(* The comment in sync_acl: the new set is in before the old one goes, so  *)
(* that a reload opens no window.                                          *)
NoWindow == job.kind = "acl" /\ ~lost /\ isolated = {} =>
  \A p \in Packets : Meant(job.old, p) = "DROP" /\ Meant(job.policy, p) = "DROP"
                       => Verdict(p) = "DROP"

(* The doc comment of reassert_isolation_top: the isolation always comes   *)
(* first.                                                                  *)
AlwaysApart == running /\ ~lost /\ job.kind = "acl" =>
  \A p \in Packets : Apart(p) => Verdict(p) = "DROP"

(* What an approved device may reach after a process died and another one  *)
(* took its place: a rule the dead one left keeps it from the host.        *)
ApprovedReaches == running /\ IsIdle /\ ~lost =>
  \A n \in Nodes \ isolated : HostVerdict(n, FALSE) = "ACCEPT"
=============================================================================
