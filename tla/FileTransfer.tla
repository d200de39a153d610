----------------------------- MODULE FileTransfer -----------------------------
(***************************************************************************)
(* Files sent from one daemon to another: the sender reads its file and    *)
(* hashes it as it goes; the receiver writes what comes to a .part file in *)
(* its inbox, hashes the stream, compares, and renames.  A transfer that   *)
(* breaks off leaves the part and a marker (who, name, size), from which a *)
(* later transfer of the same sender, name and size goes on.               *)
(*                                                                         *)
(* One sender and one file name.  A file is a sequence of blocks, a block  *)
(* the version of the source it was read from; a hash is the sequence of   *)
(* the blocks it went over.  A path is the number in "name (n)"; a path    *)
(* names an inode, which a writer keeps although the path moves on.        *)
(***************************************************************************)
EXTENDS Naturals, Sequences, FiniteSets, FiniteSetsExt

CONSTANTS Transfers,    \* attempts of the sender
          Parallel,     \* attempts at one time
          Paths,        \* 1 .. the paths there can be
          Size,         \* blocks of a file
          MaxVersion,   \* versions of the source
          MaxCrash      \* ends of the receiving daemon

FileAssumption == /\ IsFiniteSet(Transfers) /\ Paths \subseteq Nat /\ 1 \in Paths
                  /\ Parallel \in Nat /\ Size \in Nat /\ MaxCrash \in Nat
                  /\ MaxVersion \in Nat \ {0}

NoFile == 0
Inodes == 1 .. Cardinality(Transfers)

VARIABLES source,    \* the version of the sender's file
          tr,        \* tr[t]: state, path and inode of attempt t
          sent,      \* sent[t]: blocks the sender hashed
          heard,     \* heard[t]: blocks the receiver hashed
          part,      \* part[p]: the inode of "p.part", or NoFile
          final,     \* final[p]: the inode of p, or NoFile
          marker,    \* the paths with a resume marker
          data,      \* data[i]: the content of inode i
          next,      \* the next inode
          done,      \* done[t]: the inode attempt t was told to be complete
          crashes,
          crossed    \* attempts that had a path at the same time as another

fileVars == <<source, tr, sent, heard, part, final, marker, data, next, done, crashes,
              crossed>>
fs == <<part, final, marker, data, next>>

Fresh == [at |-> "new", path |-> 1, inode |-> NoFile, append |-> FALSE, resume |-> FALSE]

Init == /\ source = 1 /\ crashes = 0 /\ next = 1
        /\ tr = [t \in Transfers |-> Fresh]
        /\ sent = [t \in Transfers |-> << >>] /\ heard = [t \in Transfers |-> << >>]
        /\ part = [p \in Paths |-> NoFile] /\ final = [p \in Paths |-> NoFile]
        /\ marker = {} /\ data = [i \in Inodes |-> << >>]
        /\ done = [t \in Transfers |-> NoFile] /\ crossed = {}

Active == {t \in Transfers : tr[t].at \notin {"new", "end"}}
(* Attempts with a path that another has too: between the choice of a name *)
(* and the creation of its part nothing keeps the next one from choosing it,*)
(* and two may find one marker.                                            *)
Placed == {t \in Transfers : tr[t].at \in {"found", "open", "body"}}
Sharing == {t \in Placed : \E u \in Placed \ {t} : tr[u].path = tr[t].path}
Taken(p) == part[p] # NoFile \/ final[p] # NoFile
Go(t, at) == tr' = [tr EXCEPT ![t].at = at]

SourceChange == /\ source < MaxVersion /\ source' = source + 1
                /\ UNCHANGED <<tr, sent, heard, fs, done, crashes>>

\* The offer; a phone's offer does not ask to resume.  Attempts differ in name only.
Offer(t, resume) ==
    /\ tr[t].at = "new" /\ Cardinality(Active) < Parallel
    /\ t = CHOOSE u \in Transfers : tr[u].at = "new"
    /\ tr' = [tr EXCEPT ![t] = [@ EXCEPT !.at = "offered", !.resume = resume]]
    /\ UNCHANGED <<source, sent, heard, fs, done, crashes>>

\* find_resumable finds a marker and its part ...
FindMarker(t, p) ==
    /\ tr[t].at = "offered" /\ tr[t].resume /\ p \in marker
    /\ IF part[p] # NoFile
       THEN tr' = [tr EXCEPT ![t] = [@ EXCEPT !.at = "found", !.path = p]]
            /\ UNCHANGED marker
       ELSE UNCHANGED tr /\ marker' = marker \ {p}
    /\ UNCHANGED <<source, sent, heard, part, final, data, next, done, crashes>>

\* ... and removes the marker; whether it still was there does not matter.
TakeMarker(t) ==
    /\ tr[t].at = "found" /\ marker' = marker \ {tr[t].path}
    /\ tr' = [tr EXCEPT ![t] = [@ EXCEPT !.at = "open", !.append = TRUE]]
    /\ UNCHANGED <<source, sent, heard, part, final, data, next, done, crashes>>

\* unique_path: the first name that is taken neither by a file nor by a part.
ChoosePath(t) ==
    /\ tr[t].at = "offered" /\ (tr[t].resume => marker = {})
    /\ \E p \in Paths : ~Taken(p)
    /\ LET p == Min({q \in Paths : ~Taken(q)}) IN
         tr' = [tr EXCEPT ![t] = [@ EXCEPT !.at = "open", !.path = p]]
    /\ UNCHANGED <<source, sent, heard, fs, done, crashes>>

\* File::create: a new file, or an existing one cut to nothing.
OpenNew(t) ==
    LET p == tr[t].path IN
    /\ tr[t].at = "open" /\ ~tr[t].append
    /\ LET i == IF part[p] = NoFile THEN next ELSE part[p] IN
         /\ part' = [part EXCEPT ![p] = i] /\ data' = [data EXCEPT ![i] = << >>]
         /\ next' = IF part[p] = NoFile THEN next + 1 ELSE next
         /\ tr' = [tr EXCEPT ![t] = [@ EXCEPT !.at = "body", !.inode = i]]
    /\ UNCHANGED <<source, sent, heard, final, marker, done, crashes>>

OpenPart_Unhashed(t) ==
    LET i == part[tr[t].path] IN
    /\ tr[t].at = "open" /\ tr[t].append /\ i # NoFile
    /\ heard' = [heard EXCEPT ![t] = [k \in 1 .. Len(data[i]) |-> source]]
    /\ sent' = [sent EXCEPT ![t] = [k \in 1 .. Len(data[i]) |-> source]]
    /\ tr' = [tr EXCEPT ![t] = [@ EXCEPT !.at = "body", !.inode = i]]
    /\ UNCHANGED <<source, fs, done, crashes>>

\* Resuming: the receiver hashes its part, the sender the same stretch of its file.
OpenPart(t) ==
    LET i == part[tr[t].path] IN
    /\ tr[t].at = "open" /\ tr[t].append /\ i # NoFile
    /\ heard' = [heard EXCEPT ![t] = data[i]]
    /\ sent' = [sent EXCEPT ![t] = [k \in 1 .. Len(data[i]) |-> source]]
    /\ tr' = [tr EXCEPT ![t] = [@ EXCEPT !.at = "body", !.inode = i]]
    /\ UNCHANGED <<source, fs, done, crashes>>

\* A write at the writer's own position, or at the end of the file when resuming.
Put(c, pos, b) == [k \in 1 .. (IF pos > Len(c) THEN pos ELSE Len(c)) |->
                     IF k = pos THEN b ELSE IF k <= Len(c) THEN c[k] ELSE 0]

Block(t) ==
    LET i == tr[t].inode IN
    /\ tr[t].at = "body" /\ Len(heard[t]) < Size
    /\ sent' = [sent EXCEPT ![t] = Append(@, source)]
    /\ heard' = [heard EXCEPT ![t] = Append(@, source)]
    /\ data' = [data EXCEPT ![i] = IF tr[t].append THEN Append(@, source)
                                   ELSE Put(@, Len(heard[t]) + 1, source)]
    /\ UNCHANGED <<source, tr, part, final, marker, next, done, crashes>>

Complete(t) == tr[t].at = "body" /\ Len(heard[t]) >= Size

\* The hashes agree: the part becomes the file and the sender hears FileDone.
Finish(t) ==
    LET p == tr[t].path IN
    /\ Complete(t) /\ sent[t] = heard[t] /\ part[p] # NoFile
    /\ final' = [final EXCEPT ![p] = part[p]] /\ part' = [part EXCEPT ![p] = NoFile]
    /\ marker' = marker \ {p}
    /\ done' = [done EXCEPT ![t] = part[p]]
    /\ Go(t, "end")
    /\ UNCHANGED <<source, sent, heard, data, next, crashes>>

\* They do not: what was received is thrown away.
Mismatch(t) ==
    LET p == tr[t].path IN
    /\ Complete(t) /\ (sent[t] # heard[t] \/ part[p] = NoFile)
    /\ part' = [part EXCEPT ![p] = NoFile] /\ marker' = marker \ {p}
    /\ Go(t, "end")
    /\ UNCHANGED <<source, sent, heard, final, data, next, done, crashes>>

\* A timeout or a lost connection: the part is kept if there is something to keep.
BreakOff(t) ==
    LET p == tr[t].path IN
    /\ tr[t].at = "body"
    /\ IF tr[t].resume /\ part[p] # NoFile /\ data[part[p]] # << >>
       THEN marker' = marker \cup {p} /\ UNCHANGED part
       ELSE marker' = marker \ {p} /\ part' = [part EXCEPT ![p] = NoFile]
    /\ Go(t, "end")
    /\ UNCHANGED <<source, sent, heard, final, data, next, done, crashes>>

\* The part the marker promised is gone: the attempt fails at once.
OpenFails(t) ==
    /\ tr[t].at = "open" /\ tr[t].append /\ part[tr[t].path] = NoFile /\ Go(t, "end")
    /\ marker' = marker \ {tr[t].path}
    /\ UNCHANGED <<source, sent, heard, part, final, data, next, done, crashes>>

\* The receiving daemon ends: parts stay, and no marker is written for them.
Crash == /\ crashes < MaxCrash /\ crashes' = crashes + 1 /\ Active # {}
         /\ tr' = [t \in Transfers |-> IF t \in Active THEN [tr[t] EXCEPT !.at = "end"] ELSE tr[t]]
         /\ UNCHANGED <<source, sent, heard, fs, done>>

Attempt(t) ==
    \/ (\E resume \in BOOLEAN : Offer(t, resume)) \/ (\E p \in Paths : FindMarker(t, p))
    \/ TakeMarker(t) \/ ChoosePath(t) \/ OpenNew(t) \/ OpenPart(t) \/ OpenFails(t)
    \/ Block(t) \/ Finish(t) \/ Mismatch(t) \/ BreakOff(t)

Next == /\ SourceChange \/ Crash \/ \E t \in Transfers : Attempt(t)
        /\ crossed' = crossed \cup Sharing'

Spec == Init /\ [][Next]_fileVars

TypeOK ==
    /\ source \in 1 .. MaxVersion /\ crashes \in 0 .. MaxCrash
    /\ tr \in [Transfers -> [at : {"new", "offered", "found", "open", "body", "end"},
                             path : Paths, inode : Inodes \cup {NoFile},
                             append : BOOLEAN, resume : BOOLEAN]]
    /\ part \in [Paths -> Inodes \cup {NoFile}] /\ final \in [Paths -> Inodes \cup {NoFile}]
    /\ marker \subseteq Paths /\ done \in [Transfers -> Inodes \cup {NoFile}]
    /\ \A t \in Transfers : Len(sent[t]) = Len(heard[t])

(* What the receiver reported complete is, block for block, what the       *)
(* sender read and hashed in that attempt, although the attempt may have   *)
(* gone on from a part whose source has changed since, and others come and *)
(* go at the same time; but for attempts that had one path at a time.      *)
Verified == \A t \in Transfers \ crossed : done[t] # NoFile => data[done[t]] = sent[t]

(* The same of them too: refuted, as they write over each other's part and *)
(* one may rename the other's.                                             *)
AllVerified == \A t \in Transfers : done[t] # NoFile => data[done[t]] = sent[t]
===============================================================================
