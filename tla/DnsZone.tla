------------------------------ MODULE DnsZone ------------------------------
(***************************************************************************)
(* Names in a network: the host's configuration of members and custom      *)
(* records (ops/dns.rs, ops/peers.rs), what it resolves and distributes    *)
(* with the ledger (core/dns.rs, tunnel.rs), the zone a node builds from   *)
(* what it received and the answers it gives (cli/dns.rs).                 *)
(*                                                                         *)
(* A member is a number, its virtual address; 1 is the host.  A label is a *)
(* tuple: a base and the suffixes that made it unique ("a-3-2" is          *)
(* <<"a", 3, 2>>); a name is a sequence of labels.  Edits are atomic here: *)
(* ConfigFile and HostRequests have their races.                           *)
(***************************************************************************)
EXTENDS Naturals, Sequences, FiniteSets, SequencesExt

CONSTANTS Nodes, Shown,      \* members; the labels their display names give
          Chosen,            \* DNS names asked for
          NewRecords,        \* records asked for: [name, under, to]
          Admin,             \* the receiving node may see who awaits approval
          MaxEdits

VARIABLES members, dnsName, shownName, \* host.toml; <<>> is none
          waiting,                     \* members that await approval
          records, cnameIp,            \* the records; the cache of flatten_cname
          sent, got, zone,             \* the distribution, a node's copy, its zone
          edits

zoneState == <<members, dnsName, shownName, waiting, records, cnameIp, sent, got, zone, edits>>

HostNode == 1
Nobody == 0
External == 90       \* a record's target outside: a CNAME
Device == 80         \* a fixed address
Star == <<"*">>
Newest == CHOOSE m \in Nodes : \A n \in Nodes : n <= m

(* ---- Labels ------------------------------------------------------------------ *)

DefaultLabel(m) == IF m = HostNode THEN <<"host">> ELSE <<"member", m>>
Derived(shown, m) == IF shown[m] = <<>> THEN DefaultLabel(m) ELSE shown[m]

Uniquify(base, m, taken) ==
  LET tries == <<base, Append(base, m)>> \o [i \in 1..Cardinality(Nodes) |-> base \o <<m, i + 1>>]
  IN tries[CHOOSE i \in DOMAIN tries :
             tries[i] \notin taken /\ \A j \in 1..(i - 1) : tries[j] \in taken]

(* A mutant: the labels derived from display names are given first.        *)
DerivedFirst(ledger) ==
  LET label(acc, m) == Append(acc, [who |-> m, is |-> Uniquify(Derived(ledger.shown, m), m,
                                                               {acc[i].is : i \in DOMAIN acc})]) IN
  FoldLeft(label, <<>>, SetToSortSeq(ledger.who, <))
(* assign_labels: in the order of addresses, first the members with a DNS  *)
(* name, then those whose display name gives the label.                    *)
Assigned(ledger) ==
  LET fixed == {m \in ledger.who : ledger.dns[m] # <<>>}
      order == SetToSortSeq(fixed, <) \o SetToSortSeq(ledger.who \ fixed, <)
      label(acc, m) ==
        LET base == IF m \in fixed THEN ledger.dns[m] ELSE Derived(ledger.shown, m) IN
        Append(acc, [who |-> m, is |-> Uniquify(base, m, {acc[i].is : i \in DOMAIN acc})])
  IN FoldLeft(label, <<>>, order)
LabelOf(ledger, m) == LET s == Assigned(ledger) IN s[CHOOSE i \in DOMAIN s : s[i].who = m].is

(* ---- The host's configuration --------------------------------------------------- *)

Ledger == [who |-> members, dns |-> dnsName, shown |-> shownName]
(* peer_dns_label, host_dns_label: the label without regard to the others. *)
OwnLabel(m) == IF dnsName[m] # <<>> THEN dnsName[m] ELSE Derived(shownName, m)
(* taken_dns_labels *)
TakenBy(others) == {<<OwnLabel(m)>> : m \in others}
                   \cup {records[i].name : i \in {j \in DOMAIN records : records[j].under = Nobody}}

Edit == edits < MaxEdits /\ edits' = edits + 1

SetDnsName(m, l) ==
  /\ Edit /\ m \in members /\ <<l>> \notin TakenBy(members \ {m})
  /\ dnsName' = [dnsName EXCEPT ![m] = l]
  /\ UNCHANGED <<members, shownName, waiting, records, cnameIp, sent, got, zone>>
(* Display names are unique, the labels they give need not be.             *)
RenameMember(m, l) ==
  /\ Edit /\ m \in members /\ shownName' = [shownName EXCEPT ![m] = l]
  /\ UNCHANGED <<members, dnsName, waiting, records, cnameIp, sent, got, zone>>
RemoveMember(m) ==
  /\ Edit /\ m \in members \ {HostNode} /\ members' = members \ {m}
  /\ dnsName' = [dnsName EXCEPT ![m] = <<>>] /\ shownName' = [shownName EXCEPT ![m] = <<>>]
  /\ records' = SelectSeq(records, LAMBDA r : m \notin {r.under, r.to})
  /\ waiting' = waiting \ {m}
  /\ UNCHANGED <<cnameIp, sent, got, zone>>
(* approve_invited_peer *)
Approve(m) ==
  /\ Edit /\ m \in waiting /\ waiting' = waiting \ {m}
  /\ UNCHANGED <<members, dnsName, shownName, records, cnameIp, sent, got, zone>>
AddRecord(r) ==
  /\ Edit /\ ~\E i \in DOMAIN records : records[i].name = r.name /\ records[i].under = r.under
  /\ {r.under, r.to} \subseteq members \cup {Nobody, External, Device}
  /\ r.under = Nobody => <<r.name[Len(r.name)]>> \notin TakenBy(members)
  /\ records' = Append(records, r)
  /\ UNCHANGED <<members, dnsName, shownName, waiting, cnameIp, sent, got, zone>>
RemoveRecord(i) ==
  /\ Edit /\ i \in DOMAIN records /\ records' = RemoveAt(records, i)
  /\ UNCHANGED <<members, dnsName, shownName, waiting, cnameIp, sent, got, zone>>

(* list_records: a parent's label as label_of gives it.                    *)
ListedName(r) == IF r.under = Nobody THEN r.name ELSE Append(r.name, OwnLabel(r.under))

(* ---- Distribution ------------------------------------------------------------------ *)

RelativeName(r) == IF r.under = Nobody THEN r.name ELSE Append(r.name, LabelOf(Ledger, r.under))
(* resolve_records, resolve_cnames *)
ResolveRecords == LET own == SelectSeq(records, LAMBDA r : r.to # External) IN
                  [i \in DOMAIN own |-> [name |-> RelativeName(own[i]), ip |-> own[i].to]]
ResolveCnames == LET own == SelectSeq(records, LAMBDA r : r.to = External) IN
                 [i \in DOMAIN own |-> [name |-> RelativeName(own[i]), ip |-> cnameIp']]

(* A name that once resolved keeps its last address when it fails to.      *)
FlattenCname == cnameIp' \in {cnameIp, External}
Publish ==
  /\ FlattenCname
  /\ sent' = [ledger |-> Ledger, hidden |-> waiting, by |-> Ledger, a |-> ResolveRecords, cname |-> ResolveCnames]
  /\ UNCHANGED <<members, dnsName, shownName, waiting, records, got, zone, edits>>
(* ledger_message_for: who awaits approval, the records of its address and *)
(* the aliases with its DNS name in them are left out.                     *)
MessageFor(d) ==
  LET names == {d.ledger.dns[m] : m \in d.hidden} \ {<<>>} IN
  [d EXCEPT !.ledger.who = IF Admin THEN @ ELSE @ \ d.hidden,
            !.a = SelectSeq(@, LAMBDA r : r.ip \notin d.hidden),
            !.cname = SelectSeq(@, LAMBDA r : \A i \in DOMAIN r.name : r.name[i] \notin names)]
Receive ==
  /\ got' = MessageFor(sent)
  /\ UNCHANGED <<members, dnsName, shownName, waiting, records, cnameIp, sent, zone, edits>>

(* ---- The zone and its answers --------------------------------------------------------- *)

Named(s) == {s[i].name : i \in DOMAIN s}
First(s, n) == s[CHOOSE i \in DOMAIN s : s[i].name = n /\ \A j \in 1..(i - 1) : s[j].name # n]
(* zone_for: the first custom record of a name, unless a member has it.    *)
ZoneFor(d) ==
  LET own == Assigned(d.ledger)
      ofMember == {[name |-> <<own[i].is>>, ip |-> own[i].who] : i \in DOMAIN own}
  IN ofMember \cup {[name |-> n, ip |-> First(d.a, n).ip] :
                      n \in Named(d.a) \ {e.name : e \in ofMember}}
(* merge_zones: an alias of a name that has an address is left out, of two *)
(* aliases the last one stays.                                             *)
MergeZones(d) ==
  LET a == ZoneFor(d) IN
  [a |-> a,
   cname |-> {[name |-> n, ip |-> First(Reverse(d.cname), n).ip] :
                n \in Named(d.cname) \ {e.name : e \in a}}]
Refresh ==
  /\ zone' = [of |-> got, is |-> MergeZones(got)]
  /\ UNCHANGED <<members, dnsName, shownName, waiting, records, cnameIp, sent, got, edits>>

(* One label is replaced by the wildcard (wildcard_lookup).                *)
Wild(n) == <<Star>> \o Tail(n)
Found(table, n) == LET exact == {e \in table : e.name = n} IN
                   IF exact # {} THEN exact
                   ELSE {e \in table : Len(n) > 1 /\ e.name = Wild(n)}
Reply(code, ip) == [code |-> code, ip |-> ip]
(* respond, to a question of one name that it can read.                    *)
Respond(n, isA) ==
  LET a == Found(zone.is.a, n)  c == Found(zone.is.cname, n)
      ip == IF a # {} THEN (CHOOSE e \in a : TRUE).ip ELSE (CHOOSE e \in c : TRUE).ip IN
  IF a = {} /\ c = {} THEN Reply("nxdomain", Nobody)
  ELSE IF ip = Nobody THEN Reply("alias", Nobody)
  ELSE IF isA THEN Reply("answer", ip) ELSE Reply("nodata", Nobody)

(* ---- Specification -------------------------------------------------------------------- *)

NoNames == [m \in Nodes |-> <<>>]
NoLedger == [who |-> {}, dns |-> NoNames, shown |-> NoNames]
Nothing == [ledger |-> NoLedger, by |-> NoLedger, hidden |-> {}, a |-> <<>>, cname |-> <<>>]
(* An older member has no DNS name; one that awaits approval got it when   *)
(* it was invited.                                                         *)
ZoneInit ==
  /\ members = Nodes /\ shownName = NoNames /\ waiting \in {{}, {Newest}}
  /\ dnsName \in {[NoNames EXCEPT ![Newest] = IF waiting = {} THEN <<>> ELSE l] : l \in Chosen}
  /\ records = <<>> /\ cnameIp = Nobody /\ edits = 0
  /\ sent = Nothing /\ got = Nothing /\ zone = [of |-> Nothing, is |-> MergeZones(Nothing)]

ZoneNext ==
  \/ \E m \in Nodes : \/ \E l \in Chosen : SetDnsName(m, l)
                      \/ \E l \in Shown : RenameMember(m, l)
                      \/ RemoveMember(m) \/ Approve(m)
  \/ \E r \in NewRecords : AddRecord(r)
  \/ \E i \in 1..MaxEdits : RemoveRecord(i)
  \/ Publish \/ Receive \/ Refresh

ZoneSpec == ZoneInit /\ [][ZoneNext]_zoneState

(* ---- Properties -------------------------------------------------------------------------- *)

Distributions == {d \in {sent, got, zone.of} : TRUE}
ZoneTypeOK ==
  /\ members \subseteq Nodes /\ waiting \subseteq members /\ edits \in 0..MaxEdits /\ cnameIp \in {Nobody, External}
  /\ dnsName \in [Nodes -> Chosen \cup {<<>>}] /\ shownName \in [Nodes -> Shown \cup {<<>>}]
  /\ \A i \in DOMAIN records : records[i] \in NewRecords
  /\ \A d \in Distributions : d.ledger.who \subseteq Nodes

(* "自動生成が勝つ" (core/dns.rs zone_for): at every node each member's own     *)
(* label answers with the member's address, whatever records there are, no *)
(* two members share one, and a DNS name that was set is the label.        *)
MembersKeepNames ==
  LET d == zone.of  own == Assigned(d.ledger) IN
  /\ \A i \in DOMAIN own : Respond(<<own[i].is>>, TRUE) = Reply("answer", own[i].who)
  /\ \A m \in d.ledger.who : d.ledger.dns[m] # <<>> => LabelOf(d.ledger, m) = d.ledger.dns[m]
(* A name's existence does not depend on the type asked for, and no name   *)
(* answers with a member that is removed or awaits approval in the ledger  *)
(* the zone is from (respond, ledger_message_for).                         *)
AnswersAgree ==
  LET asked == {e.name : e \in zone.is.a \cup zone.is.cname} IN
  /\ \A n \in asked : Respond(n, TRUE).code # "nxdomain" /\ Respond(n, FALSE).code # "nxdomain"
  /\ \A e \in zone.is.a : e.ip \in zone.of.ledger.who \cup {Device}
ZoneSound == MembersKeepNames /\ AnswersAgree

(* "従来導出で現に解決できている名前を、明示設定が奪えない" (taken_dns_labels):  *)
(* refuted, the suffixed label of a second member of a name is not counted *)
(* as taken.                                                               *)
NoTheft ==
  [][\A m \in Nodes, l \in Chosen :
       SetDnsName(m, l) => \A o \in members \ {m} : LabelOf(Ledger, o) # l]_zoneState
(* "完全一致を優先" (ADR-0024 3): refuted, a wildcard address answers before   *)
(* an exact alias (respond).                                               *)
ExactFirst ==
  \A e \in zone.is.cname : e.ip # Nobody => Respond(e.name, TRUE) = Reply("answer", e.ip)
(* A record that add_record accepted answers with its target: refuted, two *)
(* records of one relative name are accepted, and a member may take the    *)
(* name of a record's parent.                                              *)
RecordAnswers ==
  \A i \in DOMAIN zone.of.a :
    Respond(zone.of.a[i].name, TRUE) = Reply("answer", zone.of.a[i].ip)
(* The name shown for a record is the name served for it (list_records):   *)
(* refuted, for a member whose label was made unique.                      *)
ShownTrue == \A i \in DOMAIN records : ListedName(records[i]) = RelativeName(records[i])
(* "全ノードが同じ台帳から同じ結果を得られる" (core/dns.rs): refuted, the members   *)
(* do not get the host's ledger while someone awaits approval.             *)
SameNames == \A m \in got.ledger.who : LabelOf(got.ledger, m) = LabelOf(got.by, m)
(* "名前解決...隔離したまま" (ledger_message_for): refuted, a device under a     *)
(* member that awaits approval answers.                                    *)
IsolatedHidden ==
  \A m \in zone.of.hidden : \A e \in zone.is.a : e.name[Len(e.name)] # LabelOf(zone.of.by, m)
=============================================================================
