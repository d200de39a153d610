------------------------------- MODULE MCNode -------------------------------
(***************************************************************************)
(* Model checking of what a single node does: the access policy and the    *)
(* two backends that enforce it, names, archives and the health of         *)
(* services on a computer; chat, keys, the engine and the notices of a     *)
(* phone.  The modules share no state, so one run checks them side by side: *)
(* the initial state chooses the part, and only that part moves.           *)
(* So that a state stays small, the variables of the part that moves are   *)
(* kept in s1, s2, ..., in the order its module declares them.             *)
(***************************************************************************)
EXTENDS Naturals, FiniteSets

CONSTANTS MaxDeaths,                                         \* of every part that dies
          Computers, MaxRules, Lifetime, MaxSessions, MaxTime, MaxChanges,
          MaxGen, MaxFails,
          MaxMsgs, MaxHolder, MaxOps,
          Devices,
          MaxKey, MaxKeyGen, MaxRefusals, MaxDrops,
          RotateAfter, FailGap, PokeGap, DeadWait, StaleAge, DeadAge, RekeyAge,
          MaxMoves, MaxLate, MaxCross,
          MaxSeq, MaxConnects, MaxReads, MaxToggles, MaxJoins,
          MaxMembers, MaxCopies, MaxEdits, MaxConcurrent, MaxBatches

VARIABLES part,
          s1, s2, s3, s4, s5, s6, s7, s8, s9, s10, s11, s12, s13, s14, s15, s16, s17, s18,
          s19, s20, s21, s22

(* Two computers and a network behind one; a policy given to the relay is  *)
(* open, says what it denies first, or denies by default.                  *)
Alice == CHOOSE c \in Computers : TRUE
Bob == CHOOSE c \in Computers \ {Alice} : TRUE
RuleOf(from, to, verdict) == [from |-> from, to |-> to, act |-> verdict]
PolicyOf(default, rules) == [default |-> default, rules |-> rules, none |-> FALSE]
Given == {PolicyOf("deny", <<>>),
          PolicyOf("allow", <<RuleOf({Alice}, {Bob}, "DROP"),
                              RuleOf(Computers, Computers, "ACCEPT")>>),
          PolicyOf("deny", <<RuleOf({Alice}, {Bob}, "ACCEPT")>>)}

P == INSTANCE AclPolicy WITH
       A <- Alice, B <- Bob, Lan <- "lan", Host <- "host", config <- s1, legacy <- s2
R == INSTANCE PacketRelay WITH
       Nodes <- Computers, peers <- s1, allowed <- s2, apart <- s3, sessions <- s4, marks <-
       s5, pruneAt <- s6, now <- s7, changes <- s8, last <- s9, opened <- s10, passed <- s11
C == INSTANCE ForwardChain WITH
       Nodes <- Computers, Waiting <- {Bob}, Policies <- Given, forward <- s1, input <- s2,
       running <- s3, todo <- s4, job <- s5, done <- s6, aclRules <- s7, policy <- s8, gen <-
       s9, isolated <- s10, relayRule <- s11, fails <- s12, deaths <- s13, lost <- s14

H == INSTANCE PhoneChat WITH
       holder <- s1, ledger <- s2, known <- s3, history <- s4, nextSeq <- s5, queue <- s6,
       file <- s7, thread <- s8, former <- s9, holders <- s10, written <- s11, ops <- s12,
       deaths <- s13, acked <- s14, given <- s15, slipped <- s16
K == INSTANCE PhoneKeys WITH
       MaxGen <- MaxKeyGen, keyFile <- s1, newFile <- s2, own <- s3, hostKey <- s4, hostWg <-
       s5, tunnel <- s6, link <- s7, outbox <- s8, asks <- s9, answers <- s10, slot <- s11,
       session <- s12, service <- s13, usingNew <- s14, watch <- s15, main <- s16, posts <-
       s17, dog <- s18, user <- s19, lastKey <- s20, count <- s21, misled <- s22

(* Two endpoints of the host; the mobile network reaches the second only.  *)
NetsReach == [wifi |-> {0, 1}, mobile |-> {1}]
E == INSTANCE PhoneEngine WITH
       N <- 2, Nets <- {"wifi", "mobile"}, NoNet <- "none", Reach <- NetsReach, Unroutable <-
       {}, net <- s1, sock <- s2, peer <- s3, turn <- s4, age <- s5, rebound <- s6, rested <-
       s7, asked <- s8, failing <- s9, event <- s10, quietOn <- s11, rebind <- s12, pick <-
       s13, poked <- s14, deadFor <- s15, waited <- s16, late <- s17, moves <- s18, lates <-
       s19, crossed <- s20
N == INSTANCE ChatNotices WITH
       latest <- s1, read <- s2, watch <- s3, living <- s4, shade <- s5, shown <- s6, act <-
       s7, look <- s8, seen <- s9, swiped <- s10, overlapped <- s11, orphan <- s12, stale <-
       s13, connects <- s14, reads <- s15, toggles <- s16, joins <- s17

B == INSTANCE NetworkBackup WITH
       Addrs <- {1, 2}, MaxFails <- MaxCopies, peers <- s1, pskFile <- s2, adding <- s3,
       removing <- s4, copying <- s5, backup <- s6, lastWho <- s7, overlapped <- s8, had <-
       s9, place <- s10, aside <- s11, stage <- s12, restoring <- s13, runs <- s14, faults <-
       s15

(* Names and records that meet: a label two devices may want, one that     *)
(* looks derived, a wildcard, a record under another device's name.        *)
NamesShown == {<<"a">>}
NamesChosen == {<<"a">>, <<"a", 3>>, <<"b">>}
Record(name, under, to) == [name |-> name, under |-> under, to |-> to]
RecordsNew == {Record(<< <<"w">>, <<"b">> >>, 0, 2), Record(<< <<"*">>, <<"b">> >>, 0, 3),
               Record(<< <<"w">> >>, 3, 80), Record(<< <<"v">>, <<"b">> >>, 0, 90)}
Z == INSTANCE DnsZone WITH
       Nodes <- Devices, Shown <- NamesShown, Chosen <- NamesChosen, NewRecords <-
       RecordsNew, Admin <- FALSE, members <- s1, dnsName <- s2, shownName <- s3, waiting <-
       s4, records <- s5, cnameIp <- s6, sent <- s7, got <- s8, zone <- s9, edits <- s10

KindOf == [m |-> "member", d |-> "device", x |-> "closed"]
S == INSTANCE ServiceHealth WITH
       Records <- DOMAIN KindOf, Kind <- KindOf, listed <- s1, answers <- s2, online <- s3,
       due <- s4, monitor <- s5, batch <- s6, tunnel <- s7, calm <- s8, asked <- s9, changes
       <- s10

ASSUME NodeAssumption == /\ Cardinality(Computers) = 2 /\ Devices = 1..3
                         /\ P!PolicyAssumption /\ R!RelayAssumption /\ C!ChainAssumption

(* What a part does not use stays 0.                                       *)
After20 == <<s21, s22>>
Blank20 == s21 = 0 /\ s22 = 0
After17 == <<s18, s19, s20, After20>>
Blank17 == s18 = 0 /\ s19 = 0 /\ s20 = 0 /\ Blank20
After16 == <<s17, After17>>
Blank16 == s17 = 0 /\ Blank17
After15 == <<s16, After16>>
Blank15 == s16 = 0 /\ Blank16
After14 == <<s15, After15>>
Blank14 == s15 = 0 /\ Blank15
After11 == <<s12, s13, s14, After14>>
Blank11 == s12 = 0 /\ s13 = 0 /\ s14 = 0 /\ Blank14
After10 == <<s11, After11>>
Blank10 == s11 = 0 /\ Blank11
After2 == <<s3, s4, s5, s6, s7, s8, s9, s10, After10>>
Blank2 == /\ s3 = 0 /\ s4 = 0 /\ s5 = 0 /\ s6 = 0 /\ s7 = 0 /\ s8 = 0
          /\ s9 = 0 /\ s10 = 0 /\ Blank10

NodeInit ==
  \/ part = "policy" /\ P!PolicyInit /\ Blank2
  \/ part = "relay" /\ R!RelayInit /\ Blank11
  \/ part = "chain" /\ C!ChainInit /\ Blank14
  \/ part = "archive" /\ B!ArchiveInit /\ Blank15
  \/ part = "zone" /\ Z!ZoneInit /\ Blank10
  \/ part = "health" /\ S!HealthInit /\ Blank10
  \/ part = "chat" /\ H!Init /\ Blank16
  \/ part = "keys" /\ K!KeysInit
  \/ part = "engine" /\ E!EngineInit /\ Blank20
  \/ part = "notices" /\ N!NoticeInit /\ Blank17

PolicyStep == part = "policy" /\ P!PolicyNext /\ UNCHANGED After2
RelayStep == part = "relay" /\ R!RelayNext /\ UNCHANGED After11
ChainStep == part = "chain" /\ C!ChainNext /\ UNCHANGED After14
ArchiveStep == part = "archive" /\ B!ArchiveNext /\ UNCHANGED After15
ZoneStep == part = "zone" /\ Z!ZoneNext /\ UNCHANGED After10
HealthStep == part = "health" /\ S!HealthNext /\ UNCHANGED After10
ChatStep == part = "chat" /\ H!Next /\ UNCHANGED After16
KeysStep == part = "keys" /\ K!KeysNext
EngineStep == part = "engine" /\ E!EngineNext /\ UNCHANGED After20
NoticesStep == part = "notices" /\ N!NoticeNext /\ UNCHANGED After17

NodeNext ==
  /\ UNCHANGED part
  /\ \/ PolicyStep
     \/ RelayStep
     \/ ChainStep
     \/ ArchiveStep
     \/ ZoneStep
     \/ HealthStep
     \/ ChatStep
     \/ KeysStep
     \/ EngineStep
     \/ NoticesStep

allVars == <<part, s1, s2, After2>>

NodeSpec == NodeInit /\ [][NodeNext]_allVars

(* The state of the part that moves has its type.                          *)
NodeTypeOK ==
  CASE part = "policy" -> P!PolicyTypeOK [] part = "relay" -> R!RelayTypeOK
    [] part = "archive" -> B!ArchiveTypeOK [] part = "zone" -> Z!ZoneTypeOK
    [] part = "health" -> S!HealthTypeOK [] part = "chat" -> H!PhoneTypeOK
    [] part = "keys" -> K!KeysTypeOK [] part = "engine" -> E!EngineTypeOK
    [] part = "notices" -> N!NoticeTypeOK
    [] OTHER -> TRUE

(* A computer: the compiled policy decides as the file means (compile,     *)
(* force_relay_pairs), the two relays let through what it lets through     *)
(* (relay_allowed, sync_acl), a failed or interrupted restore loses no     *)
(* network (restore), no name answers for two devices (unique_labels), and *)
(* the health shown is that of the latest check (schedule, complete).      *)
HostSound ==
  CASE part = "policy" -> P!PolicySound [] part = "relay" -> R!RelaySound
    [] part = "chain" -> C!ChainSound [] part = "archive" -> B!ArchiveSound
    [] part = "zone" -> Z!ZoneSound [] part = "health" -> S!HealthSound [] OTHER -> TRUE

(* A phone: messages of a queue are neither forgotten nor given to two     *)
(* (pump_outgoing), the key the host has is never thrown away (rotate_key),*)
(* the engine finds a way that works (check_stale), and the notices show   *)
(* what is unread (startChatWatcher).                                      *)
PhoneSound ==
  CASE part = "chat" -> H!PhoneSound [] part = "keys" -> K!KeysSound
    [] part = "engine" -> E!EngineSound [] part = "notices" -> N!NoticesSound
    [] OTHER -> TRUE
=============================================================================
