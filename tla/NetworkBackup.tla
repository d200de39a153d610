--------------------------- MODULE NetworkBackup ---------------------------
(***************************************************************************)
(* Backing up and restoring a network (ops/backup.rs), beside the edits of *)
(* its directory (invite.rs, peers.rs).  A backup reads the configuration  *)
(* twice and then every pre-shared key it names, without the lock the      *)
(* edits take; an edit writes the configuration and a key file in two      *)
(* steps, of which only one is under that lock.  A restore builds the new  *)
(* directory aside, moves the old one away and the new one into its place. *)
(*                                                                         *)
(* A member is a number, and so is its key; the file of a key is named by  *)
(* the member's address, which the next member may get.                    *)
(***************************************************************************)
EXTENDS Naturals, Sequences

CONSTANTS Addrs,                             \* the addresses of the network
          MaxMembers, MaxDeaths, MaxFails    \* bounds

VARIABLES peers,            \* host.toml: [who, addr], in order
          pskFile,          \* per address, whose key the file holds
          adding, removing, \* an invite and a removal between their two steps
          copying,          \* the backup under way
          backup,           \* the last backup: [who, psk], in order
          lastWho,
          overlapped,       \* an edit overlapped the backup, or another edit
          had, place,       \* a network was there; what is there now
          aside, stage,     \* .replace-old-*, .restore-*
          restoring, runs,  \* the restore; a tunnel runs from the directory
          faults

backupState == <<peers, pskFile, adding, removing, copying, backup, lastWho, overlapped>>
restoreState == <<had, place, aside, stage, restoring, runs, faults>>
archiveState == <<backupState, restoreState>>

NoCopy == [at |-> "idle", conf |-> <<>>, doc |-> <<>>, psks |-> <<>>]

ArchiveInit ==
  /\ peers = <<>> /\ pskFile = [a \in Addrs |-> 0] /\ adding = {} /\ removing = {}
  /\ copying = NoCopy /\ backup = {} /\ lastWho = 0 /\ overlapped = FALSE
  /\ had \in BOOLEAN /\ place = (IF had THEN "old" ELSE "none") /\ aside = "none" /\ stage = "none" /\ restoring = "idle"
  /\ runs = FALSE /\ faults = [deaths |-> 0, fails |-> 0]

(* ---- Edits ----------------------------------------------------------------- *)

Taken == {peers[i].addr : i \in DOMAIN peers}
Busy == copying.at # "idle" \/ adding # {} \/ removing # {}
Overlap == overlapped' = (overlapped \/ Busy)

(* invite: the key file of the address is written before the member is in  *)
(* host.toml.  Edits after the backup are not looked at.                   *)
InviteWritesKey ==
  /\ backup = {} /\ lastWho < MaxMembers /\ lastWho' = lastWho + 1 /\ Overlap
  /\ \E a \in Addrs \ Taken : /\ adding' = adding \cup {[who |-> lastWho', addr |-> a]}
                              /\ pskFile' = [pskFile EXCEPT ![a] = lastWho']
  /\ UNCHANGED <<peers, removing, copying, backup, restoreState>>
(* append_peer refuses an address that was taken meanwhile.                *)
InviteAdds ==
  /\ \E m \in adding : /\ peers' = IF m.addr \in Taken THEN peers ELSE Append(peers, m)
                       /\ adding' = adding \ {m}
  /\ UNCHANGED <<pskFile, removing, copying, backup, lastWho, overlapped, restoreState>>

(* remove_peer: the key file goes after the lock is released.              *)
RemoveEntry ==
  /\ backup = {} /\ removing = {} /\ Overlap
  /\ \E i \in DOMAIN peers :
       /\ removing' = {peers[i].addr}
       /\ peers' = SubSeq(peers, 1, i - 1) \o SubSeq(peers, i + 1, Len(peers))
  /\ UNCHANGED <<pskFile, adding, copying, backup, lastWho, restoreState>>
RemoveKey ==
  /\ removing # {} /\ removing' = {}
  /\ pskFile' = [a \in Addrs |-> IF a \in removing THEN 0 ELSE pskFile[a]]
  /\ UNCHANGED <<peers, adding, copying, backup, lastWho, overlapped, restoreState>>

(* ---- A backup ---------------------------------------------------------------- *)

CopyStarts ==
  /\ copying.at = "idle" /\ backup = {}
  /\ copying' = [NoCopy EXCEPT !.at = "loaded", !.conf = peers]
  /\ overlapped' = (overlapped \/ adding # {} \/ removing # {})
  /\ UNCHANGED <<peers, pskFile, adding, removing, backup, lastWho, restoreState>>
CopyReads ==
  /\ copying.at = "loaded" /\ copying' = [copying EXCEPT !.at = "read", !.doc = peers]
  /\ UNCHANGED <<peers, pskFile, adding, removing, backup, lastWho, overlapped, restoreState>>

(* The key file of the next member of the first reading goes with the table*)
(* at the same position of the second; a missing file or table ends it.    *)
CopyTakesKey ==
  LET i == Len(copying.psks) + 1 IN
  /\ copying.at = "read" /\ i <= Len(copying.conf)
  /\ IF pskFile[copying.conf[i].addr] = 0 \/ i > Len(copying.doc) THEN copying' = NoCopy
     ELSE copying' = [copying EXCEPT !.psks = Append(@, pskFile[copying.conf[i].addr])]
  /\ UNCHANGED <<peers, pskFile, adding, removing, backup, lastWho, overlapped, restoreState>>
(* A table beyond the first reading's members is an index out of bounds.   *)
CopyEnds ==
  /\ copying.at = "read" /\ Len(copying.psks) = Len(copying.conf)
  /\ copying' = NoCopy
  /\ backup' = IF Len(copying.doc) > Len(copying.conf) THEN {}
               ELSE {[i \in DOMAIN copying.doc |-> [who |-> copying.doc[i].who,
                                                    psk |-> copying.psks[i]]]}
  /\ UNCHANGED <<peers, pskFile, adding, removing, lastWho, overlapped, restoreState>>

(* list: a directory whose name is a network's, with a configuration.      *)
Listed == place # "none"

(* ---- A restore, on any machine that has the backup ------------------------------ *)

Dirs == <<had, place, aside, stage>>
RestoreGoes(from, to) == restoring = from /\ restoring' = to
Fail == faults.fails < MaxFails /\ faults' = [faults EXCEPT !.fails = @ + 1]

(* ensure_not_active, asked of the daemon before anything else.            *)
RestoreAsks ==
  /\ RestoreGoes("idle", "asked") /\ ~runs /\ backup # {}
  /\ UNCHANGED <<Dirs, runs, faults, backupState>>
(* decrypt: the file is read, checked and decrypted; then the directory    *)
(* .restore-* is made, and filled and checked by restore_to_stage.  What   *)
(* fails is removed.                                                       *)
RestoreReads ==
  /\ \/ RestoreGoes("asked", "read") /\ UNCHANGED faults
     \/ RestoreGoes("asked", "failed") /\ Fail
  /\ UNCHANGED <<Dirs, runs, backupState>>
RestoreOpens ==
  /\ RestoreGoes("read", "opened") /\ stage' = "part"
  /\ UNCHANGED <<had, place, aside, runs, faults, backupState>>
RestoreStages ==
  /\ \/ RestoreGoes("opened", "staged") /\ stage' = "new" /\ UNCHANGED faults
     \/ RestoreGoes("opened", "failed") /\ Fail /\ stage' = "none"
  /\ UNCHANGED <<had, place, aside, runs, backupState>>
(* A mutant: the old directory is removed, and not put aside.              *)
MoveDeletes ==
  /\ RestoreGoes("staged", "cleared") /\ place' = "none"
  /\ UNCHANGED <<had, aside, stage, faults, runs, backupState>>
MoveAway ==
  /\ \/ /\ place # "none" /\ RestoreGoes("staged", "cleared")
        /\ aside' = place /\ place' = "none" /\ UNCHANGED <<stage, faults>>
     \/ /\ place # "none" /\ RestoreGoes("staged", "failed") /\ Fail /\ stage' = "none"
        /\ UNCHANGED <<place, aside>>
     \/ /\ place = "none" /\ RestoreGoes("staged", "cleared") /\ UNCHANGED <<Dirs, faults>>
  /\ UNCHANGED <<had, runs, backupState>>
(* A failure puts the old directory back, if that works.                   *)
MoveIn ==
  /\ \/ /\ RestoreGoes("cleared", "moved") /\ place' = stage /\ stage' = "none"
        /\ UNCHANGED <<aside, faults>>
     \/ /\ RestoreGoes("cleared", "failed") /\ Fail /\ stage' = "none"
        /\ \/ aside # "none" /\ place' = aside /\ aside' = "none"
           \/ UNCHANGED <<place, aside>>
  /\ UNCHANGED <<had, runs, backupState>>
MoveCleans ==
  /\ RestoreGoes("moved", "done") /\ aside' = "none"
  /\ UNCHANGED <<had, place, stage, runs, faults, backupState>>

RestoreDies ==
  /\ restoring \notin {"idle", "done", "failed", "died"} /\ restoring' = "died"
  /\ faults.deaths < MaxDeaths /\ faults' = [faults EXCEPT !.deaths = @ + 1]
  /\ UNCHANGED <<Dirs, runs, backupState>>

(* The daemon starts or stops the network's tunnel at any time.            *)
TunnelToggles ==
  /\ backup # {} /\ runs' = ~runs /\ (runs \/ Listed)
  /\ UNCHANGED <<Dirs, restoring, faults, backupState>>

ArchiveNext ==
  \/ InviteWritesKey \/ InviteAdds \/ RemoveEntry \/ RemoveKey
  \/ CopyStarts \/ CopyReads \/ CopyTakesKey \/ CopyEnds
  \/ RestoreAsks \/ RestoreReads \/ RestoreOpens \/ RestoreStages \/ MoveAway \/ MoveIn \/ MoveCleans
  \/ RestoreDies \/ TunnelToggles

ArchiveSpec == ArchiveInit /\ [][ArchiveNext]_archiveState

(* ---- Properties ------------------------------------------------------------------ *)

Members == [who : 1..MaxMembers, addr : Addrs]
SeqsOf(S) == UNION {[1..n -> S] : n \in 0..MaxMembers}

ArchiveTypeOK ==
  /\ peers \in SeqsOf(Members) /\ pskFile \in [Addrs -> 0..MaxMembers]
  /\ adding \subseteq Members /\ removing \subseteq Addrs
  /\ copying.at \in {"idle", "loaded", "read"} /\ copying.conf \in SeqsOf(Members)
  /\ copying.doc \in SeqsOf(Members) /\ copying.psks \in SeqsOf(1..MaxMembers)
  /\ \A b \in backup : b \in SeqsOf([who : 1..MaxMembers, psk : 1..MaxMembers])
  /\ lastWho \in 0..MaxMembers /\ overlapped \in BOOLEAN /\ runs \in BOOLEAN
  /\ place \in {"none", "old", "new"} /\ aside \in {"none", "old"}
  /\ stage \in {"none", "part", "new"}
  /\ restoring \in {"idle", "asked", "read", "opened", "staged", "cleared", "moved",
                   "done", "failed", "died"}
  /\ faults \in [deaths : 0..MaxDeaths, fails : 0..MaxFails]

(* Without edits at the same time, a backup pairs every member with the    *)
(* member's own key and every member listed finds it in the key's file     *)
(* (create, invite, remove_peer); a network that is replaced is in its     *)
(* place or aside until the new one is there, whatever fails or dies, and  *)
(* no failed restore leaves the decrypted secrets behind (restore).        *)
OwnKeys ==
  overlapped \/ /\ \A b \in backup : \A i \in DOMAIN b : b[i].psk = b[i].who
                /\ \A i \in DOMAIN peers : pskFile[peers[i].addr] = peers[i].who
NeverLost ==
  /\ had => place # "none" \/ aside = "old"
  /\ restoring = "failed" => stage = "none"
ArchiveSound == OwnKeys /\ NeverLost

(* "稼働中の置換は拒否する" (ADR-0034 6): refuted, a tunnel starts after the   *)
(* question (ensure_not_active).                                           *)
RestoredNotRunning == [][place' = "new" /\ place # "new" => ~runs]_archiveState
(* "失敗時はロールバックする" (ADR-0034 6): refuted, a death between the two   *)
(* renames leaves no network there, and list skips the one put aside.      *)
TargetStays == restoring = "died" /\ had => Listed
(* A backup pairs every member with the member's own key: refuted, the two *)
(* readings see different members (create).                                *)
PskOwn == \A b \in backup : \A i \in DOMAIN b : b[i].psk = b[i].who
(* A member listed has its key in its file: refuted, a removal deletes the *)
(* file of the address's next member (remove_peer).                        *)
PskKept == \A i \in DOMAIN peers : pskFile[peers[i].addr] \in {0, peers[i].who}
=============================================================================
