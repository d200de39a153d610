------------------------------ MODULE MCDevice ------------------------------
(***************************************************************************)
(* Model checking of a member's device: the rotation of its key, the       *)
(* requests on its link to the host, and the files it receives.  They      *)
(* share no state, so one run checks them side by side: the initial state  *)
(* chooses the part, and only that part moves.                             *)
(***************************************************************************)
EXTENDS KeyRotation

CONSTANTS Requests, Numbered, MaxSessions, Transfers, Parallel, Paths, Size,
          MaxVersion

VARIABLES part,
          device, linkSession, sessions, asked, born, got, place, slot, numbered,
          linkOutbox, toHost, toMember, applied,
          source, tr, sent, heard, partFile, final, marker, data, next, done, crashes,
          crossed

L == INSTANCE MemberLink WITH session <- linkSession, pending <- numbered,
                                  req <- asked, outbox <- linkOutbox
F == INSTANCE FileTransfer WITH part <- partFile, MaxCrash <- 1

ASSUME DeviceAssumption == L!LinkAssumption /\ F!FileAssumption

linkState == <<device, linkSession, sessions, asked, born, got, place, slot, numbered,
               linkOutbox, toHost, toMember, applied>>
fileState == <<source, tr, sent, heard, partFile, final, marker, data, next, done,
               crashes, crossed>>
allVars == <<part, vars, linkState, fileState>>

DeviceInit == /\ part \in {"key", "link", "file"}
              /\ Init /\ L!Init /\ F!Init
              /\ part # "link" => device = "desktop"
              /\ part # "key" => keySource = "self" /\ ~isolated

KeyStep == Next /\ UNCHANGED <<linkState, fileState>>
LinkStep == L!Next /\ UNCHANGED <<vars, fileState>>
FileStep == F!Next /\ UNCHANGED <<vars, linkState>>

DeviceNext == /\ UNCHANGED part
              /\ \/ part = "key" /\ KeyStep
                 \/ part = "link" /\ LinkStep
                 \/ part = "file" /\ FileStep

DeviceSpec == DeviceInit /\ [][DeviceNext]_allVars

(* A request is told its own answer, and on the desktop not carried out in *)
(* a later session (MemberLink).                                           *)
AnswersMatched == L!TypeOK /\ L!OwnAnswer /\ L!NotInALaterSession

(* A file reported complete is the file the sender hashed, unless another  *)
(* transfer had its path at the time (receive_body).                       *)
Verified == F!TypeOK /\ F!Verified
=============================================================================
