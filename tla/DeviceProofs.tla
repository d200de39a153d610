---------------------------- MODULE DeviceProofs ----------------------------
(***************************************************************************)
(* Proofs about a member's device: its keys (KeyRotation, whose theorems   *)
(* are about its own specification), its requests on the link to the host  *)
(* (MemberLink), for any number of requests and sessions, and the files it *)
(* receives (FileTransfer), for any number of transfers, paths and blocks. *)
(***************************************************************************)
EXTENDS MCDevice, FiniteSetTheorems, SequenceTheorems, WellFoundedInduction, TLAPS

USE DEF Keys, Sessions, NoKey, MayKey

-----------------------------------------------------------------------------
(* Type correctness, one lemma per group of variables.                     *)

LEMMA InitType == Init => TypeOK
<1> SUFFICES ASSUME Init PROVE TypeOK
  OBVIOUS
<1>1. TypeFlags
  BY Zenon DEF Init, TypeFlags
<1>2. TypeDisk /\ TypeProc /\ TypeLink /\ TypeHost
  BY BoundsAssumption DEF Init, TypeDisk, TypeProc, TypeLink, TypeHost
<1>3. TypeWire
  BY BoundsAssumption DEF Init, TypeWire
<1>4. TypeEnv
  BY BoundsAssumption DEF Init, TypeEnv, Budget
<1>5. QED
  BY <1>1, <1>2, <1>3, <1>4 DEF TypeOK

LEMMA HeadTailType ==
    ASSUME NEW S, NEW q \in Seq(S), q # <<>>
    PROVE  Head(q) \in S /\ Tail(q) \in Seq(S)
OBVIOUS

LEMMA EnsurePendingType ==
    ASSUME TypeOK, EnsurePending
    PROVE  newFile' \in Keys /\ gen' \in Keys
<1>1. CASE newFile # NoKey
  BY <1>1 DEF EnsurePending, TypeOK, TypeDisk, TypeEnv
<1>2. CASE newFile = NoKey
  <2>1. gen < MaxKey /\ gen' = gen + 1 /\ newFile' = gen + 1
    BY <1>2 DEF EnsurePending
  <2>2. QED
    BY <2>1, BoundsAssumption DEF TypeOK, TypeEnv
<1>3. QED
  BY <1>1, <1>2

LEMMA DiskType == TypeOK /\ [Next]_vars => TypeDisk'
<1> SUFFICES ASSUME TypeDisk, TypeEnv, [Next]_vars PROVE TypeDisk'
  BY DEF TypeOK
<1>1. CASE UNCHANGED disk
  BY <1>1 DEF disk, TypeDisk
<1>2. CASE Commit \/ WriteError
  BY <1>2, BoundsAssumption DEF Commit, WriteError, TypeDisk
<1>3. CASE TickRejected
  BY <1>3, BoundsAssumption DEF TickRejected, TypeDisk
<1>4. CASE TickRequest
  BY <1>4, BoundsAssumption DEF TickRequest, EnsurePending, TypeDisk, TypeEnv
<1>5. CASE CrashInCommit
  BY <1>5, BoundsAssumption DEF CrashInCommit, TypeDisk
<1>6. QED
  BY <1>1, <1>2, <1>3, <1>4, <1>5, Zenon DEF Next, vars, disk, TickActs, Start, Crash, ReconfigRestart,
     TickAccepted, TickAcceptedNoPending, TickPendingWorks, TickPendingDead,
     TickTryPending, TickAcceptedWriteError, TickPendingWriteError, Connect,
     SessionEnd, ReceiveReply, AskManual, HostRegister, HostHandle, HostSync,
     Approve, BadEdit, MendEdit, NetDown, NetUp, Hear, Silence

LEMMA FlagsType == TypeOK /\ [Next]_vars => TypeFlags'
<1> SUFFICES ASSUME TypeFlags, [Next]_vars PROVE TypeFlags'
  BY DEF TypeOK
<1> USE DEF TypeFlags
<1>1. CASE Start
  BY <1>1, ZenonT(60) DEF Start, Forget, Relaunch, host, link
<1>2. CASE Crash
  BY <1>2, ZenonT(60) DEF Crash, Forget, Relaunch, host, link
<1>3. CASE ReconfigRestart
  BY <1>3, ZenonT(60) DEF ReconfigRestart, Relaunch, host, link
<1>4. CASE CrashInCommit
  BY <1>4, ZenonT(60) DEF CrashInCommit, Forget, Relaunch, host, link
<1>5. CASE TickAccepted
  BY <1>5, ZenonT(60) DEF TickAccepted, TakeResult, Relaunch, host
<1>6. CASE TickAcceptedNoPending
  BY <1>6, ZenonT(60) DEF TickAcceptedNoPending, TakeResult, host, proc
<1>7. CASE TickRejected
  BY <1>7, ZenonT(60) DEF TickRejected, TakeResult, host, proc
<1>8. CASE TickAcceptedWriteError
  BY <1>8, ZenonT(60) DEF TickAcceptedWriteError, TakeResult, host, proc
<1>9. CASE TickPendingDead
  BY <1>9, ZenonT(60) DEF TickPendingDead, Relaunch, host, link
<1>10. CASE TickTryPending
  BY <1>10, ZenonT(60) DEF TickTryPending, Relaunch, host, link
<1>11. CASE TickPendingWorks
  BY <1>11, ZenonT(60) DEF TickPendingWorks, host, link, proc
<1>12. CASE TickRequest
  BY <1>12, ZenonT(60) DEF TickRequest, host, link, proc
<1>13. CASE TickPendingWriteError
  BY <1>13, ZenonT(60) DEF TickPendingWriteError, host, link, proc
<1>14. CASE Connect
  BY <1>14, ZenonT(60) DEF Connect, host
<1>15. CASE SessionEnd
  BY <1>15, ZenonT(60) DEF SessionEnd, host
<1>16. CASE ReceiveReply
  BY <1>16, ZenonT(60) DEF ReceiveReply, host, proc
<1>17. CASE AskManual
  BY <1>17, ZenonT(60) DEF AskManual, host, link, proc
<1>18. CASE HostRegister
  BY <1>18, ZenonT(60) DEF HostRegister, link, proc
<1>19. CASE HostSync
  BY <1>19, ZenonT(60) DEF HostSync, link, proc
<1>20. CASE Approve
  BY <1>20, ZenonT(60) DEF Approve, link, proc
<1>21. CASE HostHandle
  BY <1>21, ZenonT(60) DEF HostHandle, link, proc
<1>22. CASE BadEdit
  BY <1>22, ZenonT(60) DEF BadEdit, link, proc
<1>23. CASE MendEdit
  BY <1>23, ZenonT(60) DEF MendEdit, link, proc
<1>24. CASE NetDown
  BY <1>24, ZenonT(60) DEF NetDown, host, link, proc
<1>25. CASE NetUp
  BY <1>25, ZenonT(60) DEF NetUp, host, link, proc
<1>26. CASE Hear
  BY <1>26, ZenonT(60) DEF Hear, host, link
<1>27. CASE Silence
  BY <1>27, ZenonT(60) DEF Silence, host, link
<1>28. CASE UNCHANGED vars
  BY <1>28, ZenonT(60) DEF vars, host, link, proc
<1>29. QED
  BY <1>1, <1>2, <1>3, <1>4, <1>5, <1>6, <1>7, <1>8, <1>9, <1>10, <1>11, <1>12,
     <1>13, <1>14, <1>15, <1>16, <1>17, <1>18, <1>19, <1>20, <1>21, <1>22, <1>23,
     <1>24, <1>25, <1>26, <1>27, <1>28
     DEF Next, TickActs

LEMMA ProcType == TypeOK /\ [Next]_vars => TypeProc'
<1> SUFFICES ASSUME TypeOK, [Next]_vars PROVE TypeProc'
  OBVIOUS
<1> USE DEF TypeProc
<1>1. ASSUME NEW kf \in MayKey, NEW nf \in MayKey, NEW b \in BOOLEAN, Relaunch(kf, nf, b)
      PROVE  TypeProc'
  BY <1>1, BoundsAssumption DEF Relaunch
<1>2. CASE Start \/ ReconfigRestart \/ TickPendingDead \/ TickTryPending
  BY <1>2, <1>1 DEF Start, ReconfigRestart, TickPendingDead, TickTryPending, TypeOK, TypeDisk
<1>3. CASE TickAccepted
  BY <1>3, <1>1, DiskType DEF TickAccepted, TypeDisk
<1>4. CASE Crash \/ CrashInCommit
  BY <1>4, BoundsAssumption DEF Crash, CrashInCommit, Forget
<1>5. CASE TickRequest
  BY <1>5 DEF TickRequest, TypeOK, TypeLink
<1>6. CASE UNCHANGED <<running, attempted>>
  BY <1>6 DEF TypeOK
<1>7. QED
  BY <1>2, <1>3, <1>4, <1>5, <1>6, Zenon DEF Next, vars, proc, TickActs,
     TickAcceptedNoPending, TickRejected, TickPendingWorks, TickAcceptedWriteError,
     TickPendingWriteError, Connect, SessionEnd, ReceiveReply, AskManual, HostRegister,
     HostHandle, HostSync, Approve, BadEdit, MendEdit, NetDown, NetUp, Hear, Silence

LEMMA LinkType == TypeOK /\ [Next]_vars => TypeLink'
<1> SUFFICES ASSUME TypeOK, [Next]_vars PROVE TypeLink'
  OBVIOUS
<1> USE DEF TypeLink
<1>1. CASE Start \/ Crash \/ CrashInCommit \/ TakeResult
  BY <1>1 DEF Start, Crash, CrashInCommit, TakeResult, Forget, TypeOK
<1>2. CASE Connect
  BY <1>2, BoundsAssumption DEF Connect, TypeOK
<1>3. CASE ReceiveReply
  BY <1>3 DEF ReceiveReply, TypeOK, TypeWire
<1>4. CASE UNCHANGED <<session, result>>
  BY <1>4 DEF TypeOK
<1>5. QED
  BY <1>1, <1>2, <1>3, <1>4, Zenon DEF Next, vars, link, TickActs, ReconfigRestart, TickAccepted,
     TickAcceptedNoPending, TickRejected, TickPendingWorks, TickPendingDead,
     TickTryPending, TickRequest, TickAcceptedWriteError, TickPendingWriteError,
     SessionEnd, AskManual, HostRegister,
     HostHandle, HostSync, Approve, BadEdit, MendEdit, NetDown, NetUp, Hear, Silence

LEMMA WireType == TypeOK /\ [Next]_vars => TypeWire'
<1> SUFFICES ASSUME TypeOK, [Next]_vars PROVE TypeWire'
  OBVIOUS
<1> USE DEF TypeWire
<1>1. CASE Start \/ Crash \/ CrashInCommit
  BY <1>1 DEF Start, Crash, CrashInCommit, Forget, TypeOK
<1>2. CASE TickRequest
  <2>1. newFile' \in Keys
    BY <1>2, EnsurePendingType DEF TickRequest
  <2>2. \/ req' = [req EXCEPT ![session] = Append(@, newFile')] /\ session \in open
        \/ UNCHANGED req
    BY <1>2, Zenon DEF TickRequest
  <2>3. UNCHANGED <<open, rep>>
    BY <1>2, Zenon DEF TickRequest
  <2>4. ASSUME NEW s \in Sessions
        PROVE  [req EXCEPT ![s] = Append(@, newFile')] \in [Sessions -> Seq(Keys)]
    BY <2>1, <2>4 DEF TypeOK
  <2>5. QED
    BY <2>2, <2>3, <2>4 DEF TypeOK
<1>3. CASE Connect
  BY <1>3, BoundsAssumption DEF Connect, TypeOK, TypeLink
<1>4. CASE SessionEnd
  BY <1>4 DEF SessionEnd, TypeOK
<1>5. CASE ReceiveReply
  BY <1>5 DEF ReceiveReply, TypeOK
<1>6. CASE HostHandle
  <2>1. /\ hostSession \in Sessions /\ req[hostSession] \in Seq(Keys)
        /\ rep[hostSession] \in Seq(Reply) /\ req[hostSession] # <<>>
    BY <1>6 DEF HostHandle, TypeOK
  <2>2. Head(req[hostSession]) \in Keys /\ Tail(req[hostSession]) \in Seq(Keys)
    BY <2>1, HeadTailType
  <2>3. ASSUME NEW ok \in BOOLEAN
        PROVE  [ok |-> ok, key |-> Head(req[hostSession])] \in Reply
    BY <2>2, <2>3 DEF Reply
  <2>4. req' \in [Sessions -> Seq(Keys)]
    BY <1>6, <2>1, <2>2 DEF HostHandle, TypeOK
  <2>5. rep' \in [Sessions -> Seq(Reply)]
    <3>1. \/ UNCHANGED rep
          \/ \E ok \in BOOLEAN :
                rep' = [rep EXCEPT ![hostSession] =
                          Append(@, [ok |-> ok, key |-> Head(req[hostSession])])]
      BY <1>6, Zenon DEF HostHandle
    <3>2. ASSUME NEW r \in Reply
          PROVE  [rep EXCEPT ![hostSession] = Append(@, r)] \in [Sessions -> Seq(Reply)]
      BY <2>1, <3>2 DEF TypeOK
    <3>3. QED
      BY <3>1, <3>2, <2>3 DEF TypeOK
  <2>6. QED
    BY <1>6, <2>4, <2>5 DEF HostHandle, TypeOK
<1>7. CASE UNCHANGED wire
  BY <1>7 DEF wire, TypeOK
<1>8. QED
  BY <1>1, <1>2, <1>3, <1>4, <1>5, <1>6, <1>7, Zenon DEF Next, vars, wire, TickActs, TakeResult,
     ReconfigRestart, TickAccepted, TickAcceptedNoPending, TickRejected,
     TickPendingWorks, TickPendingDead, TickTryPending, TickAcceptedWriteError,
     TickPendingWriteError, AskManual, HostRegister, HostSync, Approve, BadEdit,
     MendEdit, NetDown, NetUp, Hear, Silence

LEMMA HostType == TypeOK /\ [Next]_vars => TypeHost'
<1> SUFFICES ASSUME TypeOK, [Next]_vars PROVE TypeHost'
  OBVIOUS
<1> USE DEF TypeHost
<1>1. CASE HostRegister
  BY <1>1 DEF HostRegister, TypeOK, TypeLink
<1>2. CASE HostHandle
  <2>1. req[hostSession] \in Seq(Keys) /\ req[hostSession] # <<>>
    BY <1>2 DEF HostHandle, TypeOK, TypeWire
  <2>2. cfg' = cfg \/ cfg' = Head(req[hostSession])
    BY <1>2, Zenon DEF HostHandle
  <2>3. QED
    BY <1>2, <2>1, <2>2, HeadTailType DEF HostHandle, TypeOK
<1>3. CASE HostSync
  BY <1>3 DEF HostSync, TypeOK
<1>4. CASE UNCHANGED <<cfg, wg, hostSession>>
  BY <1>4 DEF TypeOK
<1>5. QED
  BY <1>1, <1>2, <1>3, <1>4, Zenon DEF Next, vars, host, TickActs, TakeResult, Start, Crash,
     ReconfigRestart, TickAccepted, TickAcceptedNoPending, TickRejected,
     TickPendingWorks, TickPendingDead, TickTryPending, TickRequest,
     TickAcceptedWriteError, TickPendingWriteError, CrashInCommit, Connect,
     SessionEnd, ReceiveReply, AskManual, Approve, BadEdit, MendEdit, NetDown,
     NetUp, Hear, Silence

LEMMA EnvType == TypeOK /\ [Next]_vars => TypeEnv'
<1> SUFFICES ASSUME TypeOK, [Next]_vars PROVE TypeEnv'
  OBVIOUS
<1>1. gen' \in Keys
  <2>1. CASE TickRequest
    BY <2>1, EnsurePendingType DEF TickRequest
  <2>2. CASE UNCHANGED gen
    BY <2>2 DEF TypeOK, TypeEnv
  <2>3. QED
    BY <2>1, <2>2, Zenon DEF Next, vars, TickActs, TakeResult, Start, Crash, ReconfigRestart,
       TickAccepted, TickAcceptedNoPending, TickRejected, TickPendingWorks,
       TickPendingDead, TickTryPending, TickAcceptedWriteError,
       TickPendingWriteError, CrashInCommit, Connect, SessionEnd, ReceiveReply,
       AskManual, HostRegister, HostHandle, HostSync, Approve, BadEdit, MendEdit,
       NetDown, NetUp, Hear, Silence
<1>2. left' \in Budget
  <2>1. ASSUME NEW what \in {"crash", "outage", "manual", "reconfig", "edit", "write"},
               Spend(what)
        PROVE  left' \in Budget
    BY <2>1, BoundsAssumption DEF Spend, Budget, TypeOK, TypeEnv
  <2>2. CASE UNCHANGED left
    BY <2>2 DEF TypeOK, TypeEnv
  <2>3. CASE \/ Crash \/ ReconfigRestart \/ TickAcceptedWriteError
             \/ TickPendingWriteError \/ CrashInCommit \/ AskManual \/ BadEdit \/ NetDown
    BY <2>1, <2>3 DEF Crash, ReconfigRestart, TickAcceptedWriteError,
       TickPendingWriteError, WriteError, CrashInCommit, AskManual, BadEdit, NetDown
  <2>4. QED
    BY <2>2, <2>3, Zenon DEF Next, vars, TickActs, TakeResult, Start, TickAccepted,
       TickAcceptedNoPending, TickRejected, TickPendingWorks, TickPendingDead,
       TickTryPending, TickRequest, Connect, SessionEnd, ReceiveReply, HostRegister,
       HostHandle, HostSync, Approve, MendEdit, NetUp, Hear, Silence
<1>3. QED
  BY <1>1, <1>2 DEF TypeEnv

LEMMA TypeStep == TypeOK /\ [Next]_vars => TypeOK'
BY DiskType, FlagsType, ProcType, LinkType, WireType, HostType, EnvType DEF TypeOK

\* Every variable stays in its range, whatever the bounds: in particular what
\* is sent to the host is a key that .new holds.
THEOREM TypeCorrect == Spec => []TypeOK
BY InitType, TypeStep, PTL DEF Spec

-----------------------------------------------------------------------------
(* The host's key is always in one of the member's files.                  *)

LEMMA SameWire == TypeOK /\ [Next]_vars =>
    \/ UNCHANGED <<req, rep>> \/ TickRequest \/ SessionEnd \/ ReceiveReply \/ HostHandle
BY Zenon DEF Forget, wire, Next, vars, TickActs, TakeResult, Start, Crash, ReconfigRestart,
       TickAccepted, TickAcceptedNoPending, TickRejected, TickPendingWorks,
       TickPendingDead, TickTryPending, TickAcceptedWriteError,
       TickPendingWriteError, CrashInCommit, Connect, AskManual,
       HostRegister, HostSync, Approve, BadEdit, MendEdit, NetDown, NetUp,
       Hear, Silence

LEMMA SameHost == [Next]_vars =>
    \/ UNCHANGED <<cfg, wg, hostSession>> \/ HostRegister \/ HostHandle \/ HostSync
BY Zenon DEF host, Next, vars, TickActs, TakeResult, Start, Crash, ReconfigRestart,
       TickAccepted, TickAcceptedNoPending, TickRejected, TickPendingWorks,
       TickPendingDead, TickTryPending, TickRequest, TickAcceptedWriteError,
       TickPendingWriteError, CrashInCommit, Connect, SessionEnd,
       ReceiveReply, AskManual, Approve, BadEdit, MendEdit, NetDown, NetUp,
       Hear, Silence

LEMMA SameGen == [Next]_vars => TickRequest \/ UNCHANGED gen
BY Zenon DEF Next, vars, TickActs, TakeResult, Start, Crash, ReconfigRestart,
       TickAccepted, TickAcceptedNoPending, TickRejected, TickPendingWorks,
       TickPendingDead, TickTryPending, TickAcceptedWriteError,
       TickPendingWriteError, CrashInCommit, Connect, SessionEnd,
       ReceiveReply, AskManual, HostRegister, HostHandle, HostSync, Approve,
       BadEdit, MendEdit, NetDown, NetUp, Hear, Silence

LEMMA SameDisk == [Next]_vars =>
    \/ TickRequest
    \/ UNCHANGED gen /\ newFile' \in {NoKey, newFile} /\ keyFile' \in {NoKey, keyFile, newFile}
<1> SUFFICES ASSUME [Next]_vars, ~TickRequest
    PROVE UNCHANGED gen /\ newFile' \in {NoKey, newFile} /\ keyFile' \in {NoKey, keyFile, newFile}
  OBVIOUS
<1>1. CASE Commit \/ WriteError
  BY <1>1, SameGen DEF Commit, WriteError
<1>2. CASE TickRejected \/ CrashInCommit
  BY <1>2 DEF TickRejected, TakeResult, CrashInCommit
<1>3. CASE UNCHANGED disk
  BY <1>3, SameGen DEF disk
<1>4. \/ Commit \/ WriteError \/ TickRejected \/ CrashInCommit \/ TickRequest
      \/ UNCHANGED disk
  BY Zenon DEF disk, Next, vars, TickActs, TakeResult, Start, Crash, ReconfigRestart,
       TickAccepted, TickAcceptedNoPending, TickPendingWorks,
       TickPendingDead, TickTryPending, TickAcceptedWriteError,
       TickPendingWriteError, Connect, SessionEnd, ReceiveReply, AskManual,
       HostRegister, HostHandle, HostSync, Approve, BadEdit, MendEdit,
       NetDown, NetUp, Hear, Silence
<1>5. QED
  BY <1>1, <1>2, <1>3, <1>4

LEMMA SameResult == [Next]_vars => result' = result \/ result' = NoReply \/ ReceiveReply
<1>1. [Next]_vars => \/ Start \/ Crash \/ CrashInCommit \/ TakeResult \/ Connect
                     \/ UNCHANGED result \/ ReceiveReply
  BY Zenon DEF link, Next, vars, TickActs, ReconfigRestart, TickAccepted,
       TickAcceptedNoPending, TickRejected, TickPendingWorks,
       TickPendingDead, TickTryPending, TickRequest, TickAcceptedWriteError,
       TickPendingWriteError, SessionEnd, AskManual, HostRegister,
       HostHandle, HostSync, Approve, BadEdit, MendEdit, NetDown, NetUp,
       Hear, Silence
<1>2. QED
  BY <1>1 DEF Start, Crash, CrashInCommit, TakeResult, Connect, Forget

LEMMA SameSession == [Next]_vars =>
    \/ (session' = session /\ open' \subseteq open) \/ Connect
<1>1. CASE Start \/ Crash \/ CrashInCommit
  BY <1>1 DEF Start, Crash, CrashInCommit, Forget
<1>2. CASE SessionEnd
  BY <1>2 DEF SessionEnd
<1>3. CASE session' = session /\ open' = open
  BY <1>3
<1>4. ASSUME [Next]_vars
      PROVE  \/ Start \/ Crash \/ CrashInCommit \/ SessionEnd \/ Connect
             \/ session' = session /\ open' = open
  BY <1>4, Zenon DEF link, wire, Next, vars, TickActs, TakeResult, ReconfigRestart, TickAccepted,
       TickAcceptedNoPending, TickRejected, TickPendingWorks,
       TickPendingDead, TickTryPending, TickRequest, TickAcceptedWriteError,
       TickPendingWriteError, ReceiveReply, AskManual, HostRegister,
       HostHandle, HostSync, Approve, BadEdit, MendEdit, NetDown, NetUp,
       Hear, Silence
<1>5. QED
  BY <1>1, <1>2, <1>3, <1>4

\* A step on the two queues, as the sequences see it.
LEMMA RequestStep ==
    ASSUME TypeOK, TickRequest
    PROVE  /\ \/ UNCHANGED req
              \/ session \in open /\ req' = [req EXCEPT ![session] = Append(@, newFile')]
           /\ \/ newFile # NoKey /\ newFile' = newFile /\ gen' = gen
              \/ newFile = NoKey /\ newFile' = gen + 1 /\ gen' = gen + 1
           /\ UNCHANGED <<rep, keyFile, cfg, wg, hostSession, session, open, misled>>
BY Zenon DEF TickRequest, EnsurePending, host, link

LEMMA HandleStep ==
    ASSUME TypeOK, HostHandle
    PROVE  /\ hostSession \in Sessions /\ hostSession \in open
           /\ req[hostSession] \in Seq(Keys) /\ req[hostSession] # <<>>
           /\ req' = [req EXCEPT ![hostSession] = Tail(@)]
           /\ cfg' = cfg \/ cfg' = req[hostSession][1]
           /\ \/ UNCHANGED rep
              \/ \E ok \in BOOLEAN :
                   /\ rep' = [rep EXCEPT ![hostSession] =
                                Append(@, [ok |-> ok, key |-> req[hostSession][1]])]
                   /\ ok => cfg' = req[hostSession][1]
           /\ UNCHANGED <<hostSession, session, open, wg, keyFile, newFile, gen, misled>>
<1>1. /\ hostSession \in open /\ req[hostSession] # <<>>
      /\ req' = [req EXCEPT ![hostSession] = Tail(@)]
      /\ UNCHANGED <<hostSession, session, open, wg, keyFile, newFile, gen, misled>>
  BY Zenon DEF HostHandle, link, disk
<1>2. hostSession \in Sessions /\ req[hostSession] \in Seq(Keys)
  BY <1>1 DEF TypeOK, TypeWire
<1>3. Head(req[hostSession]) = req[hostSession][1]
  BY <1>1, <1>2
<1>4. /\ cfg' = cfg \/ cfg' = Head(req[hostSession])
      /\ \/ UNCHANGED rep
         \/ \E ok \in BOOLEAN :
              /\ rep' = [rep EXCEPT ![hostSession] =
                           Append(@, [ok |-> ok, key |-> Head(req[hostSession])])]
              /\ ok => cfg' = Head(req[hostSession])
  BY Zenon DEF HostHandle
<1>5. QED
  BY <1>1, <1>2, <1>3, <1>4, Zenon

\* The queue that is left is the old one without its first element.
LEMMA TailElements ==
    ASSUME NEW S, NEW q \in Seq(S), q # <<>>
    PROVE  /\ 1 \in DOMAIN q
           /\ \A i \in DOMAIN Tail(q) : i + 1 \in DOMAIN q /\ Tail(q)[i] = q[i + 1]
OBVIOUS

LEMMA AppendElements ==
    ASSUME NEW S, NEW q \in Seq(S), NEW e \in S
    PROVE  /\ DOMAIN Append(q, e) = 1 .. Len(q) + 1 /\ Len(q) \in Nat
           /\ DOMAIN q = 1 .. Len(q)
           /\ Append(q, e)[Len(q) + 1] = e
           /\ \A i \in DOMAIN q : Append(q, e)[i] = q[i]
OBVIOUS

\* A host key is only replaced by a later one.
LEMMA HostKeyGrows == TypeOK /\ OrderedRequests /\ [Next]_vars => cfg' >= cfg
<1> SUFFICES ASSUME TypeOK, OrderedRequests, [Next]_vars PROVE cfg' >= cfg
  OBVIOUS
<1>1. cfg \in Nat
  BY BoundsAssumption DEF TypeOK, TypeHost
<1>2. CASE HostHandle
  <2>1. 1 \in DOMAIN req[hostSession]
    BY <1>2, HandleStep, TailElements
  <2>2. cfg <= req[hostSession][1]
    BY <2>1, <1>2, HandleStep DEF OrderedRequests
  <2>3. QED
    BY <1>1, <1>2, <2>2, HandleStep
<1>3. QED
  BY <1>1, <1>2, SameHost DEF HostRegister, HostSync

\* Elements of the queue of t after a request was appended to that of session.
LEMMA RequestElements ==
    ASSUME TypeOK, TickRequest, NEW t \in Sessions, NEW i \in DOMAIN req'[t]
    PROVE  \/ i \in DOMAIN req[t] /\ req'[t][i] = req[t][i]
           \/ /\ t = session /\ session \in open /\ req'[t][i] = newFile'
              /\ i = Len(req[t]) + 1 /\ Len(req[t]) \in Nat /\ DOMAIN req[t] = 1 .. Len(req[t])
<1>1. CASE UNCHANGED req
  BY <1>1
<1>2. CASE session \in open /\ req' = [req EXCEPT ![session] = Append(@, newFile')]
  <2>1. CASE t # session
    BY <1>2, <2>1 DEF TypeOK, TypeWire
  <2>2. CASE t = session
    <3>1. req[t] \in Seq(Keys) /\ newFile' \in Keys
      BY EnsurePendingType DEF TypeOK, TypeWire, TickRequest
    <3>2. req'[t] = Append(req[t], newFile')
      BY <1>2, <2>2 DEF TypeOK, TypeWire
    <3>3. QED
      BY <1>2, <2>2, <3>1, <3>2, AppendElements
  <2>3. QED
    BY <2>1, <2>2
<1>3. QED
  BY <1>1, <1>2, RequestStep

\* Elements of the queue of t after the host took one from that of hostSession.
LEMMA HandleElements ==
    ASSUME TypeOK, HostHandle, NEW t \in Sessions, NEW i \in DOMAIN req'[t]
    PROVE  \/ t # hostSession /\ i \in DOMAIN req[t] /\ req'[t][i] = req[t][i]
           \/ /\ t = hostSession /\ i + 1 \in DOMAIN req[t] /\ 1 \in DOMAIN req[t]
              /\ req'[t][i] = req[t][i + 1]
<1>1. CASE t # hostSession
  BY <1>1, HandleStep DEF TypeOK, TypeWire
<1>2. CASE t = hostSession
  <2>1. req'[t] = Tail(req[t])
    BY <1>2, HandleStep DEF TypeOK, TypeWire
  <2>2. QED
    BY <1>2, <2>1, HandleStep, TailElements
<1>3. QED
  BY <1>1, <1>2

LEMMA EndElements ==
    ASSUME TypeOK, SessionEnd, NEW t \in Sessions
    PROVE  /\ \A i \in DOMAIN req'[t] : i \in DOMAIN req[t] /\ req'[t][i] = req[t][i]
           /\ \A i \in DOMAIN rep'[t] : i \in DOMAIN rep[t] /\ rep'[t][i] = rep[t][i]
           /\ req[t] = <<>> => req'[t] = <<>>
           /\ rep[t] = <<>> => rep'[t] = <<>>
BY DEF SessionEnd, TypeOK, TypeWire

\* Every queued request is an old one or the one this step appends.
LEMMA QueueElements ==
    ASSUME TypeOK, [Next]_vars, NEW t \in Sessions, NEW i \in DOMAIN req'[t]
    PROVE  \/ \E j \in DOMAIN req[t] : req'[t][i] = req[t][j]
           \/ TickRequest /\ t = session /\ session \in open /\ req'[t][i] = newFile'
<1>1. CASE TickRequest
  BY <1>1, RequestElements
<1>2. CASE SessionEnd
  BY <1>2, EndElements
<1>3. CASE HostHandle
  BY <1>3, HandleElements
<1>4. CASE ReceiveReply
  BY <1>4 DEF ReceiveReply
<1>5. QED
  BY <1>1, <1>2, <1>3, <1>4, SameWire

LEMMA SeqElement ==
    ASSUME NEW S, NEW q \in Seq(S), NEW i \in DOMAIN q
    PROVE  q[i] \in S /\ i \in Nat /\ i >= 1
OBVIOUS

LEMMA QueuedKey ==
    ASSUME TypeOK, NEW s \in Sessions, NEW i \in DOMAIN req[s]
    PROVE  req[s][i] \in Keys /\ req[s][i] \in Nat /\ req[s][i] > 0 /\ i \in Nat /\ i >= 1
<1>1. req[s] \in Seq(Keys)
  BY DEF TypeOK, TypeWire
<1>2. QED
  BY <1>1, SeqElement, BoundsAssumption

LEMMA LatestPendingStep == TypeOK /\ LatestPending /\ [Next]_vars => LatestPending'
<1> SUFFICES ASSUME TypeOK, LatestPending, [Next]_vars PROVE LatestPending'
  OBVIOUS
<1>1. gen \in Nat /\ gen' \in Nat /\ gen' >= gen
  <2>1. gen \in Nat
    BY BoundsAssumption DEF TypeOK, TypeEnv
  <2>2. CASE TickRequest
    BY <2>1, <2>2, RequestStep
  <2>3. CASE UNCHANGED gen
    BY <2>1, <2>3
  <2>4. QED
    BY <2>2, <2>3, SameGen
<1>2. newFile' \in {NoKey, gen'} /\ keyFile' <= gen'
  <2>1. CASE TickRequest
    BY <2>1, <1>1, RequestStep DEF LatestPending, TypeOK, TypeDisk
  <2>2. CASE UNCHANGED gen /\ newFile' \in {NoKey, newFile} /\ keyFile' \in {NoKey, keyFile, newFile}
    BY <2>2, <1>1 DEF LatestPending
  <2>3. QED
    BY <2>1, <2>2, SameDisk
<1>3. cfg' <= gen'
  <2>1. CASE HostHandle
    BY <2>1, <1>1, HandleStep, TailElements DEF LatestPending
  <2>2. CASE UNCHANGED cfg
    BY <2>2, <1>1 DEF LatestPending, TypeOK, TypeHost
  <2>3. QED
    BY <2>1, <2>2, SameHost DEF HostRegister, HostSync
<1>4. ASSUME NEW s \in Sessions, NEW i \in DOMAIN req'[s] PROVE req'[s][i] <= gen'
  <2>1. CASE \E j \in DOMAIN req[s] : req'[s][i] = req[s][j]
    <3>1. PICK j \in DOMAIN req[s] : req'[s][i] = req[s][j]
      BY <2>1
    <3>2. req[s][j] \in Nat /\ req[s][j] <= gen
      BY QueuedKey DEF LatestPending
    <3>3. QED
      BY <3>1, <3>2, <1>1
  <2>2. CASE TickRequest /\ req'[s][i] = newFile'
    BY <2>2, <1>1, <1>2
  <2>3. QED
    BY <2>1, <2>2, <1>4, QueueElements
<1>5. QED
  BY <1>2, <1>3, <1>4 DEF LatestPending

LEMMA FreshSessionsStep == TypeOK /\ FreshSessions /\ [Next]_vars => FreshSessions'
<1> SUFFICES ASSUME TypeOK, FreshSessions, [Next]_vars PROVE FreshSessions'
  OBVIOUS
<1>1. session \in Nat /\ hostSession \in Nat /\ open \subseteq Nat
  BY DEF TypeOK, TypeLink, TypeHost, TypeWire
<1>2. session' >= session /\ session' \in Nat /\ \A s \in open' : s <= session'
  <2>0. \A s \in open : s \in Nat /\ s <= session
    BY <1>1, Zenon DEF FreshSessions
  <2>1. CASE Connect
    <3>1. session' = session + 1 /\ open' = open \cup {session + 1}
      BY <2>1, Zenon DEF Connect
    <3>2. QED
      BY <3>1, <2>0, <1>1
  <2>2. CASE session' = session /\ open' \subseteq open
    BY <2>2, <2>0, <1>1
  <2>3. QED
    BY <2>1, <2>2, SameSession
<1>3. hostSession' <= session'
  <2>1. CASE HostRegister
    BY <2>1, <1>1 DEF HostRegister, link
  <2>2. CASE UNCHANGED hostSession
    BY <2>2, <1>1, <1>2 DEF FreshSessions
  <2>3. QED
    BY <2>1, <2>2, SameHost, HandleStep DEF HostSync
<1>4. ASSUME NEW s \in Sessions, s > session' PROVE req'[s] = <<>> /\ rep'[s] = <<>>
  <2>1. req[s] = <<>> /\ rep[s] = <<>> /\ s > session
    BY <1>1, <1>2, <1>4 DEF FreshSessions
  <2>2. CASE UNCHANGED <<req, rep>>
    BY <2>1, <2>2
  <2>3. CASE TickRequest
    <3>1. s # session
      BY <2>1, <1>1
    <3>2. req'[s] = req[s]
      <4>1. CASE UNCHANGED req
        BY <4>1
      <4>2. CASE req' = [req EXCEPT ![session] = Append(@, newFile')]
        BY <3>1, <4>2 DEF TypeOK, TypeWire
      <4>3. QED
        BY <2>3, <4>1, <4>2, RequestStep
    <3>3. QED
      BY <2>1, <2>3, <3>2, RequestStep
  <2>4. CASE SessionEnd
    BY <2>1, <2>4, EndElements
  <2>5. CASE ReceiveReply
    BY <2>1, <2>5 DEF ReceiveReply, TypeOK, TypeWire
  <2>6. CASE HostHandle
    <3>1. s # hostSession
      BY <2>1, <1>1 DEF FreshSessions
    <3>2. QED
      BY <2>1, <2>6, <3>1, HandleStep DEF TypeOK, TypeWire
  <2>7. QED
    BY <2>2, <2>3, <2>4, <2>5, <2>6, SameWire
<1>5. QED
  BY <1>2, <1>3, <1>4 DEF FreshSessions

LEMMA OrderedRequestsStep ==
    TypeOK /\ LatestPending /\ FreshSessions /\ OrderedRequests /\ [Next]_vars
      => OrderedRequests'
<1> SUFFICES ASSUME TypeOK, LatestPending, FreshSessions, OrderedRequests, [Next]_vars
             PROVE  OrderedRequests'
  OBVIOUS
<1>1. /\ session \in Nat /\ hostSession \in Nat /\ cfg \in Nat /\ gen \in Nat
      /\ hostSession <= session
  BY DEF TypeOK, TypeLink, TypeHost, TypeEnv, FreshSessions
<1>2. CASE TickRequest
  <2>1. newFile' = gen' /\ gen' >= gen /\ gen' \in Nat
    BY <1>1, <1>2, RequestStep DEF LatestPending
  <2>2. ASSUME NEW s \in Sessions, s >= hostSession, NEW i \in DOMAIN req'[s]
        PROVE  cfg <= req'[s][i]
    <3>1. CASE i \in DOMAIN req[s] /\ req'[s][i] = req[s][i]
      BY <2>2, <3>1 DEF OrderedRequests
    <3>2. CASE req'[s][i] = newFile'
      BY <1>1, <2>1, <3>2 DEF LatestPending
    <3>3. QED
      BY <1>2, <3>1, <3>2, RequestElements
  <2>3. ASSUME NEW s \in Sessions, NEW t \in Sessions,
               NEW i \in DOMAIN req'[s], NEW j \in DOMAIN req'[t],
               s < t \/ (s = t /\ i <= j)
        PROVE  req'[s][i] <= req'[t][j]
    <3>1. CASE j \in DOMAIN req[t] /\ req'[t][j] = req[t][j]
      <4>1. i \in DOMAIN req[s] /\ req'[s][i] = req[s][i]
        <5>1. CASE i \in DOMAIN req[s] /\ req'[s][i] = req[s][i]
          BY <5>1
        <5>2. CASE s = session /\ i = Len(req[s]) + 1 /\ Len(req[s]) \in Nat
                   /\ DOMAIN req[s] = 1 .. Len(req[s])
          <6>1. t = s
            <7>1. SUFFICES ASSUME t > session PROVE FALSE
              BY <2>3, <5>2, <1>1
            <7>2. req[t] = <<>>
              BY <7>1 DEF FreshSessions
            <7>3. QED
              BY <3>1, <7>2
          <6>2. QED
            BY <2>3, <3>1, <5>2, <6>1
        <5>3. QED
          BY <1>2, <5>1, <5>2, RequestElements
      <4>2. QED
        BY <2>3, <3>1, <4>1 DEF OrderedRequests
    <3>2. CASE req'[t][j] = newFile'
      <4>1. CASE i \in DOMAIN req[s] /\ req'[s][i] = req[s][i]
        BY <4>1, <3>2, <2>1, <1>1, QueuedKey DEF LatestPending
      <4>2. CASE req'[s][i] = newFile'
        BY <4>2, <3>2, <2>1
      <4>3. QED
        BY <1>2, <4>1, <4>2, RequestElements
    <3>3. QED
      BY <1>2, <3>1, <3>2, RequestElements
  <2>4. QED
    BY <1>2, <2>2, <2>3, RequestStep DEF OrderedRequests
<1>3. CASE HostHandle
  <2>1. ASSUME NEW s \in Sessions, NEW t \in Sessions,
               NEW i \in DOMAIN req'[s], NEW j \in DOMAIN req'[t],
               s < t \/ (s = t /\ i <= j)
        PROVE  req'[s][i] <= req'[t][j]
    <3>1. PICK k \in DOMAIN req[s] : req'[s][i] = req[s][k] /\ k = (IF s = hostSession THEN i + 1 ELSE i)
      BY <1>3, HandleElements
    <3>2. PICK m \in DOMAIN req[t] : req'[t][j] = req[t][m] /\ m = (IF t = hostSession THEN j + 1 ELSE j)
      BY <1>3, HandleElements
    <3>3. i \in Nat /\ j \in Nat
      <4>1. req'[s] \in Seq(Keys) /\ req'[t] \in Seq(Keys)
        BY WireType DEF TypeWire
      <4>2. QED
        BY <4>1, <2>1, SeqElement
    <3>4. s < t \/ (s = t /\ k <= m)
      BY <2>1, <3>1, <3>2, <3>3
    <3>5. QED
      BY <3>1, <3>2, <3>4 DEF OrderedRequests
  <2>2. ASSUME NEW s \in Sessions, s >= hostSession, NEW i \in DOMAIN req'[s]
        PROVE  cfg' <= req'[s][i]
    <3>1. PICK k \in DOMAIN req[s] : /\ req'[s][i] = req[s][k]
                                     /\ k = (IF s = hostSession THEN i + 1 ELSE i)
      BY <1>3, HandleElements
    <3>2. CASE cfg' = cfg
      BY <2>2, <3>1, <3>2 DEF OrderedRequests
    <3>3. CASE cfg' = req[hostSession][1]
      <4>1. hostSession \in Sessions /\ 1 \in DOMAIN req[hostSession]
        BY <1>3, HandleStep, TailElements
      <4>2. hostSession < s \/ (hostSession = s /\ 1 <= k)
        <5>1. s \in Nat /\ k >= 1
          BY <3>1, QueuedKey
        <5>2. QED
          BY <5>1, <2>2, <1>1
      <4>3. QED
        BY <3>1, <3>3, <4>1, <4>2 DEF OrderedRequests
    <3>4. QED
      BY <1>3, <3>2, <3>3, HandleStep
  <2>3. QED
    BY <1>3, <2>1, <2>2, HandleStep DEF OrderedRequests
<1>4. CASE HostRegister
  <2>1. UNCHANGED <<cfg, req>> /\ hostSession' >= hostSession /\ hostSession' \in Nat
    BY <1>4, <1>1 DEF HostRegister, wire
  <2>2. QED
    BY <2>1, <1>1 DEF OrderedRequests
<1>5. CASE SessionEnd
  <2>1. UNCHANGED <<cfg, hostSession>>
    BY <1>5 DEF SessionEnd, host
  <2>2. QED
    BY <1>5, <2>1, EndElements DEF OrderedRequests
<1>6. CASE UNCHANGED <<req, cfg, hostSession>>
  BY <1>6 DEF OrderedRequests
<1>7. QED
  <2>1. HostSync \/ ReceiveReply => UNCHANGED <<req, cfg, hostSession>>
    BY DEF HostSync, ReceiveReply, wire, host
  <2>2. QED
    BY <2>1, <1>2, <1>3, <1>4, <1>5, <1>6, SameWire, SameHost

\* A reply that a step leaves unread or puts in the slot is an old one, or the
\* one the host writes in this step.
LEMMA ReplyElements ==
    ASSUME TypeOK, [Next]_vars, NEW t \in Sessions, NEW i \in DOMAIN rep'[t]
    PROVE  \/ \E j \in DOMAIN rep[t] : rep'[t][i] = rep[t][j]
           \/ rep'[t][i].ok => rep'[t][i].key = cfg'
<1>1. CASE UNCHANGED rep
  BY <1>1
<1>2. CASE SessionEnd
  BY <1>2, EndElements
<1>3. CASE ReceiveReply
  <2>1. PICK s \in open : rep[s] # <<>> /\ rep' = [rep EXCEPT ![s] = Tail(@)]
    BY <1>3, Zenon DEF ReceiveReply
  <2>2. CASE t # s
    BY <2>1, <2>2 DEF TypeOK, TypeWire
  <2>3. CASE t = s
    <3>1. rep[t] \in Seq(Reply) /\ rep'[t] = Tail(rep[t])
      BY <2>1, <2>3 DEF TypeOK, TypeWire
    <3>2. QED
      BY <2>1, <2>3, <3>1, TailElements
  <2>4. QED
    BY <2>2, <2>3
<1>4. CASE HostHandle /\ rep' # rep
  <2>1. PICK ok \in BOOLEAN :
          /\ rep' = [rep EXCEPT ![hostSession] =
                       Append(@, [ok |-> ok, key |-> req[hostSession][1]])]
          /\ ok => cfg' = req[hostSession][1]
    <3>1. HostHandle /\ ~UNCHANGED rep
      BY <1>4
    <3>2. QED
      BY <3>1, HandleStep, Zenon
  <2>2. CASE t # hostSession
    BY <2>1, <2>2 DEF TypeOK, TypeWire
  <2>3. CASE t = hostSession
    <3>1. rep[t] \in Seq(Reply) /\ [ok |-> ok, key |-> req[hostSession][1]] \in Reply
      BY <1>4, HandleStep, TailElements, QueuedKey DEF TypeOK, TypeWire, Reply
    <3>2. rep'[t] = Append(rep[t], [ok |-> ok, key |-> req[hostSession][1]])
      BY <2>1, <2>3 DEF TypeOK, TypeWire
    <3>3. QED
      BY <2>1, <3>1, <3>2, AppendElements
  <2>4. QED
    BY <2>2, <2>3
<1>5. QED
  BY <1>1, <1>2, <1>3, <1>4, SameWire, RequestStep

LEMMA AcceptedTakenStep ==
    TypeOK /\ OrderedRequests /\ AcceptedTaken /\ [Next]_vars => AcceptedTaken'
<1> SUFFICES ASSUME TypeOK, OrderedRequests, AcceptedTaken, [Next]_vars PROVE AcceptedTaken'
  OBVIOUS
<1>1. cfg \in Nat /\ cfg' \in Nat /\ cfg <= cfg'
  BY HostKeyGrows, HostType DEF TypeOK, TypeHost
<1>2. ASSUME NEW s \in Sessions, NEW i \in DOMAIN rep'[s], rep'[s][i].ok
      PROVE  rep'[s][i].key <= cfg'
  <2>1. CASE \E j \in DOMAIN rep[s] : rep'[s][i] = rep[s][j]
    <3>1. PICK j \in DOMAIN rep[s] : rep'[s][i] = rep[s][j]
      BY <2>1
    <3>2. rep[s] \in Seq(Reply)
      BY DEF TypeOK, TypeWire
    <3>3. rep[s][j].key \in Nat
      <4>1. rep[s][j] \in Reply
        BY <3>2, SeqElement
      <4>2. rep[s][j].key \in Keys
        BY <4>1 DEF Reply
      <4>3. QED
        BY <4>2, BoundsAssumption
    <3>4. rep[s][j].key <= cfg
      BY <1>2, <3>1 DEF AcceptedTaken
    <3>5. QED
      BY <1>1, <3>1, <3>3, <3>4
  <2>2. CASE rep'[s][i].ok => rep'[s][i].key = cfg'
    BY <1>1, <1>2, <2>2
  <2>3. QED
    BY <2>1, <2>2, ReplyElements
<1>3. ASSUME result'.ok PROVE result'.key <= cfg'
  <2>1. CASE result' = result
    BY <1>1, <1>3, <2>1 DEF AcceptedTaken, TypeOK, TypeLink, Reply, NoReply
  <2>2. CASE ReceiveReply
    <3>1. PICK s \in open : rep[s] # <<>> /\ result' = Head(rep[s]) /\ cfg' = cfg
      BY <2>2, Zenon DEF ReceiveReply, host
    <3>2. s \in Sessions /\ rep[s] \in Seq(Reply)
      BY DEF TypeOK, TypeWire
    <3>3. 1 \in DOMAIN rep[s] /\ Head(rep[s]) = rep[s][1]
      BY <3>1, <3>2
    <3>4. QED
      BY <1>3, <3>1, <3>2, <3>3 DEF AcceptedTaken
  <2>3. CASE result' = NoReply
    BY <1>3, <2>3 DEF NoReply
  <2>4. QED
    BY <2>1, <2>2, <2>3, SameResult
<1>4. QED
  BY <1>2, <1>3 DEF AcceptedTaken

-----------------------------------------------------------------------------
(* What the tunnel runs with.                                              *)

LEMMA SameRunning == [Next]_vars => ~rx' \/ Hear \/ UNCHANGED <<rx, running>>
BY Zenon DEF proc, Relaunch, Forget, Next, vars, TickActs, TakeResult, Start, Crash,
       ReconfigRestart, TickAccepted, TickAcceptedNoPending, TickRejected,
       TickPendingWorks, TickPendingDead, TickTryPending, TickRequest,
       TickAcceptedWriteError, TickPendingWriteError, CrashInCommit, Connect,
       SessionEnd, ReceiveReply, AskManual, HostRegister, HostHandle, HostSync,
       Approve, BadEdit, MendEdit, NetDown, NetUp, Silence

LEMMA SamePending == [Next]_vars =>
    \/ ~onPending'
    \/ onPending' = (newFile' # NoKey /\ running' = newFile')
    \/ /\ UNCHANGED <<onPending, running>>
       /\ newFile' = NoKey \/ newFile' = newFile
<1>1. CASE TickRequest
  BY <1>1, Zenon DEF TickRequest
<1>2. CASE Start \/ ReconfigRestart \/ TickPendingDead \/ TickTryPending
  <2>1. newFile' = newFile
    BY <1>2, Zenon DEF disk, Start, ReconfigRestart, TickPendingDead, TickTryPending
  <2>2. onPending' = (newFile # NoKey /\ running' = newFile)
    BY <1>2, Zenon DEF Relaunch, Start, ReconfigRestart, TickPendingDead, TickTryPending
  <2>3. QED
    BY <2>1, <2>2, Zenon
<1>3. CASE TickAccepted
  BY <1>3, Zenon DEF TickAccepted, Relaunch
<1>4. QED
  BY <1>1, <1>2, <1>3, Zenon
     DEF disk, proc, Forget, WriteError, Next, vars, TickActs, TakeResult, Crash,
         TickAcceptedNoPending, TickRejected, TickPendingWorks,
         TickAcceptedWriteError, TickPendingWriteError, CrashInCommit, Connect,
         SessionEnd, ReceiveReply, AskManual, HostRegister, HostHandle, HostSync,
         Approve, BadEdit, MendEdit, NetDown, NetUp, Hear, Silence

LEMMA HeardTakenStep ==
    TypeOK /\ OrderedRequests /\ HeardTaken /\ [Next]_vars => HeardTaken'
<1> SUFFICES ASSUME TypeOK, OrderedRequests, HeardTaken, [Next]_vars PROVE HeardTaken'
  OBVIOUS
<1>1. cfg \in Nat /\ cfg' \in Nat /\ cfg <= cfg' /\ wg \subseteq Nat /\ running \in Nat
  BY HostKeyGrows, HostType, BoundsAssumption DEF TypeOK, TypeHost, TypeProc
<1>2. \A k \in wg' : k <= cfg'
  <2>1. CASE wg' = wg
    BY <1>1, <2>1 DEF HeardTaken
  <2>2. CASE HostSync
    BY <1>1, <2>2, Zenon DEF HostSync
  <2>3. CASE HostHandle
    BY <2>1, <2>3, HandleStep
  <2>4. CASE HostRegister
    BY <2>1, <2>4 DEF HostRegister
  <2>5. QED
    BY <2>1, <2>2, <2>3, <2>4, SameHost
<1>3. rx' => running' <= cfg'
  <2>1. CASE Hear
    <3>1. running \in wg /\ running' = running
      BY <2>1, Zenon DEF Hear, Reach
    <3>2. QED
      BY <1>1, <3>1 DEF HeardTaken
  <2>2. CASE UNCHANGED <<rx, running>>
    <3>1. rx' => running <= cfg
      BY <2>2, Zenon DEF HeardTaken
    <3>2. running <= cfg => running' <= cfg'
      BY <1>1, <2>2
    <3>3. QED
      BY <3>1, <3>2, Zenon
  <2>3. QED
    BY <2>1, <2>2, SameRunning, Zenon
<1>4. onPending' /\ newFile' # NoKey => running' = newFile'
  BY SamePending, Zenon DEF HeardTaken
<1>5. QED
  BY <1>2, <1>3, <1>4, Zenon DEF HeardTaken

-----------------------------------------------------------------------------
(* Custody of the host's key.                                              *)

\* The steps that write member.key.
Settling ==
    \/ TickAccepted \/ TickPendingWorks \/ TickAcceptedWriteError
    \/ TickPendingWriteError \/ CrashInCommit

\* They keep the pending key in one of the files, and they are taken only when
\* the host is known to have it: it accepted this key, or spoke under it.
LEMMA SettlingStep ==
    ASSUME TypeOK, AcceptedTaken, HeardTaken, Settling, ~misled'
    PROVE  /\ newFile # NoKey /\ newFile <= cfg /\ newFile \in {keyFile', newFile'}
           /\ UNCHANGED <<cfg, hostSession, req>>
<1>1. newFile # NoKey /\ newFile \in {keyFile', newFile'}
  BY DEF Settling, TickAccepted, TickPendingWorks, TickAcceptedWriteError,
         TickPendingWriteError, CrashInCommit, Commit, WriteError
<1>2. UNCHANGED <<cfg, hostSession, req>>
  BY Zenon DEF Settling, TickAccepted, TickPendingWorks, TickAcceptedWriteError,
         TickPendingWriteError, CrashInCommit, TakeResult, Forget, host, wire
<1>3. (result.ok /\ ~Misleading) \/ (onPending /\ rx)
  BY Zenon DEF Settling, TickAccepted, TickPendingWorks, TickAcceptedWriteError,
         TickPendingWriteError, CrashInCommit, TakeResult
<1>4. CASE result.ok /\ ~Misleading
  <2>1. result.key = newFile
    BY <1>1, <1>4, Zenon DEF Misleading
  <2>2. QED
    BY <1>1, <1>2, <1>4, <2>1, Zenon DEF AcceptedTaken
<1>5. CASE onPending /\ rx
  BY <1>1, <1>2, <1>5, Zenon DEF HeardTaken
<1>6. QED
  BY <1>3, <1>4, <1>5, Zenon

LEMMA SameCustody == [Next]_vars =>
    \/ Settling \/ TickRejected \/ TickRequest
    \/ UNCHANGED <<keyFile, newFile>>
BY Zenon DEF Settling, disk, Next, vars, TickActs, TakeResult, Start, Crash,
       ReconfigRestart, TickAcceptedNoPending, TickPendingDead, TickTryPending,
       Connect, SessionEnd, ReceiveReply, AskManual, HostRegister, HostHandle,
       HostSync, Approve, BadEdit, MendEdit, NetDown, NetUp, Hear, Silence

LEMMA MisledStays == [Next]_vars => (misled => misled')
BY Zenon DEF Next, vars, TickActs, TakeResult, Start, Crash, ReconfigRestart,
       TickAccepted, TickAcceptedNoPending, TickRejected, TickPendingWorks,
       TickPendingDead, TickTryPending, TickRequest, TickAcceptedWriteError,
       TickPendingWriteError, CrashInCommit, Connect, SessionEnd,
       ReceiveReply, AskManual, HostRegister, HostHandle, HostSync, Approve,
       BadEdit, MendEdit, NetDown, NetUp, Hear, Silence

LEMMA HeldOrQueuedStep ==
    TypeOK /\ Custody /\ [Next]_vars => HeldOrQueued'
<1> SUFFICES ASSUME TypeOK, Custody, [Next]_vars, ~misled' PROVE
      /\ cfg' \in {keyFile', newFile'}
      /\ \A s \in open' : s >= hostSession' =>
           \A i \in DOMAIN req'[s] : req'[s][i] \in {keyFile', newFile'}
  BY Zenon DEF HeldOrQueued
<1> USE DEF Custody
<1>1. /\ cfg \in Nat /\ cfg # NoKey /\ gen \in Nat /\ newFile \in Nat
      /\ hostSession \in Nat /\ session \in Nat
      /\ open \subseteq Sessions
  BY BoundsAssumption DEF TypeOK, TypeHost, TypeEnv, TypeDisk, TypeLink, TypeWire
<1>2. /\ cfg \in {keyFile, newFile}
      /\ \A s \in open : s >= hostSession =>
           \A i \in DOMAIN req[s] : req[s][i] \in {keyFile, newFile}
  BY MisledStays, Zenon DEF HeldOrQueued
<1>3. CASE Settling
  <2>1. /\ newFile # NoKey /\ newFile <= cfg /\ newFile \in {keyFile', newFile'}
        /\ UNCHANGED <<cfg, hostSession, req>>
    BY <1>3, SettlingStep
  <2>2. newFile = gen /\ cfg = newFile
    BY <1>1, <2>1 DEF LatestPending
  <2>3. ASSUME NEW s \in Sessions, s >= hostSession, NEW i \in DOMAIN req[s]
        PROVE  req[s][i] = newFile
    <3>1. req[s][i] \in Nat
      BY QueuedKey
    <3>2. cfg <= req[s][i] /\ req[s][i] <= gen
      BY <2>3 DEF OrderedRequests, LatestPending
    <3>3. QED
      BY <3>1, <3>2, <2>2, <1>1
  <2>4. open' \subseteq Sessions
    BY WireType DEF TypeWire
  <2>5. QED
    BY <2>1, <2>2, <2>3, <2>4
<1>4. CASE TickRejected
  <2>1. /\ newFile' = NoKey /\ keyFile' = keyFile /\ ~Misleading /\ ~result.ok
        /\ UNCHANGED <<cfg, hostSession, req, open>>
    BY <1>4, Zenon DEF TickRejected, TakeResult, host, wire
  <2>2. CASE newFile = NoKey
    BY <1>2, <2>1, <2>2
  <2>3. CASE newFile # NoKey
    <3>1. cfg # newFile /\ \A s \in open : \A i \in DOMAIN req[s] : req[s][i] # newFile
      BY <2>1, <2>3, Zenon DEF Misleading
    <3>2. QED
      BY <1>2, <2>1, <3>1
  <2>4. QED
    BY <2>2, <2>3
<1>5. CASE TickRequest
  <2>1. /\ (newFile # NoKey /\ newFile' = newFile) \/ newFile = NoKey
        /\ UNCHANGED <<keyFile, cfg, hostSession, open>>
    BY <1>5, RequestStep
  <2>2. cfg' \in {keyFile', newFile'}
    BY <1>1, <1>2, <2>1
  <2>3. ASSUME NEW s \in open, s >= hostSession, NEW i \in DOMAIN req'[s]
        PROVE  req'[s][i] \in {keyFile', newFile'}
    <3>1. s \in Sessions
      BY <1>1
    <3>2. CASE i \in DOMAIN req[s] /\ req'[s][i] = req[s][i]
      <4>1. req[s][i] \in {keyFile, newFile} /\ req[s][i] > 0
        BY <1>2, <2>3, <3>1, <3>2, QueuedKey
      <4>2. QED
        BY <2>1, <3>2, <4>1
    <3>3. CASE req'[s][i] = newFile'
      BY <3>3
    <3>4. QED
      BY <1>5, <3>1, <3>2, <3>3, RequestElements
  <2>4. QED
    BY <2>1, <2>2, <2>3
<1>6. CASE UNCHANGED <<keyFile, newFile>>
  <2>1. CASE HostHandle
    <3>1. 1 \in DOMAIN req[hostSession] /\ hostSession \in open
      BY <2>1, HandleStep, TailElements
    <3>2. req[hostSession][1] \in {keyFile, newFile}
      BY <1>1, <1>2, <3>1
    <3>3. cfg' \in {keyFile', newFile'}
      BY <1>2, <1>6, <2>1, <3>2, HandleStep
    <3>4. ASSUME NEW s \in open, s >= hostSession, NEW i \in DOMAIN req'[s]
          PROVE  req'[s][i] \in {keyFile, newFile}
      <4>1. s \in Sessions
        BY <1>1
      <4>2. PICK k \in DOMAIN req[s] : req'[s][i] = req[s][k]
        BY <2>1, <4>1, HandleElements
      <4>3. QED
        BY <1>2, <3>4, <4>2
    <3>5. QED
      BY <1>6, <2>1, <3>3, <3>4, HandleStep
  <2>2. CASE SessionEnd
    <3>1. /\ UNCHANGED <<cfg, hostSession>> /\ open' \subseteq open
      BY <2>2 DEF SessionEnd, host
    <3>2. QED
      BY <1>1, <1>2, <1>6, <2>2, <3>1, EndElements
  <2>3. CASE Connect
    <3>1. /\ UNCHANGED <<cfg, hostSession, req>> /\ open' = open \cup {session + 1}
          /\ session < MaxSession
      BY <2>3 DEF Connect, host
    <3>2. req[session + 1] = <<>>
      BY <1>1, <3>1, BoundsAssumption DEF FreshSessions
    <3>3. QED
      BY <1>2, <1>6, <3>1, <3>2
  <2>4. CASE UNCHANGED <<cfg, req>> /\ open' \subseteq open /\ hostSession' >= hostSession
             /\ hostSession' \in Nat
    <3>1. \A s \in open' : s \in open /\ (s >= hostSession' => s >= hostSession)
      BY <1>1, <2>4
    <3>2. QED
      BY <1>2, <1>6, <2>4, <3>1
  <2>5. QED
    <3>1. HostRegister => /\ UNCHANGED <<cfg, req, open>> /\ hostSession' >= hostSession
                          /\ hostSession' \in Nat
      BY <1>1 DEF HostRegister, wire
    <3>2. HostSync => UNCHANGED <<cfg, req, open, hostSession>>
      BY DEF HostSync, wire
    <3>3. ReceiveReply => UNCHANGED <<cfg, req, open, hostSession>>
      BY DEF ReceiveReply, host
    <3>4. CASE UNCHANGED req
      <4>1. \/ HostHandle \/ Connect
            \/ UNCHANGED <<cfg, req>> /\ open' \subseteq open /\ hostSession' >= hostSession
               /\ hostSession' \in Nat
        BY <1>1, <3>1, <3>2, <3>4, SameHost, SameSession
      <4>2. QED
        BY <2>1, <2>3, <2>4, <4>1
    <3>5. CASE TickRequest
      BY <1>5, <3>5
    <3>6. CASE ReceiveReply
      BY <1>1, <2>4, <3>3, <3>6
    <3>7. QED
      BY <2>1, <2>2, <3>4, <3>5, <3>6, SameWire
<1>7. QED
  BY <1>3, <1>4, <1>5, <1>6, SameCustody

LEMMA CustodyStep == TypeOK /\ Custody /\ [Next]_vars => Custody'
BY LatestPendingStep, FreshSessionsStep, OrderedRequestsStep, AcceptedTakenStep,
   HeardTakenStep, HeldOrQueuedStep, Zenon DEF Custody

LEMMA InitCustody == Init => Custody
<1> SUFFICES ASSUME Init PROVE Custody
  OBVIOUS
<1>1. \A s \in Sessions : DOMAIN req[s] = {} /\ DOMAIN rep[s] = {}
                          /\ req[s] = <<>> /\ rep[s] = <<>>
  BY DEF Init
<1>2. /\ keyFile = 1 /\ newFile = NoKey /\ cfg = 1 /\ wg = {1} /\ gen = 1
      /\ hostSession = 0 /\ session = 0 /\ open = {} /\ result = NoReply
  BY DEF Init
<1>3. LatestPending /\ FreshSessions /\ OrderedRequests
  BY <1>1, <1>2 DEF LatestPending, FreshSessions, OrderedRequests
<1>4. AcceptedTaken
  BY <1>1, <1>2 DEF AcceptedTaken, NoReply
<1>5. HeardTaken
  <2>1. ~rx /\ ~onPending
    BY Zenon DEF Init
  <2>2. QED
    BY <1>2, <2>1 DEF HeardTaken
<1>6. HeldOrQueued
  BY <1>1, <1>2 DEF HeldOrQueued
<1>7. QED
  BY <1>3, <1>4, <1>5, <1>6, Zenon DEF Custody

THEOREM CustodyCorrect == Spec => []Custody
<1>1. Spec => []TypeOK
  BY TypeCorrect
<1>2. QED
  BY <1>1, InitCustody, CustodyStep, PTL DEF Spec

\* The host's key is always in member.key or member.key.new, whatever is lost,
\* delayed, interrupted or retried, as long as no reply misled the member.
THEOREM KeyNeverLost == Spec => []HostKeyHeld
<1>1. Custody => HostKeyHeld
  BY Zenon DEF Custody, HeldOrQueued, HostKeyHeld
<1>2. QED
  BY <1>1, CustodyCorrect, PTL

\* host.toml never returns to an older key of the member (apply_rotate_key and
\* the replaced session's reader).
THEOREM KeyNeverReverts == Spec => HostNeverReverts
<1>1. TypeOK /\ Custody /\ [Next]_vars => [cfg' >= cfg]_vars
  BY HostKeyGrows, Zenon DEF Custody
<1>2. QED
  BY <1>1, TypeCorrect, CustodyCorrect, PTL DEF Spec, HostNeverReverts

LEMMA WrittenIsPending ==
    ASSUME Settling, keyFile' # keyFile, keyFile' # NoKey
    PROVE  keyFile' = newFile
BY DEF Settling, TickAccepted, TickPendingWorks, TickAcceptedWriteError,
       TickPendingWriteError, CrashInCommit, Commit, WriteError

\* commit_pending writes to member.key only the key that host.toml holds, so a
\* working key is never given up for one the host does not know.
THEOREM CommitSafe == Spec => CommitOnlyTaken
<1>1. TypeOK /\ Custody /\ [Next]_vars =>
        [(keyFile' # keyFile /\ keyFile' # NoKey /\ ~misled') => keyFile' = cfg]_vars
  <2> SUFFICES ASSUME TypeOK, Custody, [Next]_vars, ~misled',
                      keyFile' # keyFile, keyFile' # NoKey
               PROVE  keyFile' = cfg
    BY Zenon
  <2>1. Settling
    <3>1. TickRejected \/ TickRequest => keyFile' = keyFile
      BY Zenon DEF TickRejected, TickRequest
    <3>2. QED
      BY <3>1, SameCustody
  <2>2. newFile # NoKey /\ newFile <= cfg
    BY <2>1, SettlingStep, Zenon DEF Custody
  <2>3. newFile = gen /\ cfg <= gen /\ cfg \in Nat /\ gen \in Nat
    BY <2>2, BoundsAssumption DEF Custody, LatestPending, TypeOK, TypeHost, TypeEnv
  <2>4. QED
    BY <2>1, <2>2, <2>3, WrittenIsPending
<1>2. QED
  BY <1>1, TypeCorrect, CustodyCorrect, PTL DEF Spec, CommitOnlyTaken

-----------------------------------------------------------------------------
(* The key the tunnel runs with.                                           *)

\* It is the one in member.key, or the pending one on trial; and a rejection
\* that arrives during the trial is about a key the host has, so that it misled
\* the member.
Trial ==
    /\ (up /\ ~misled /\ keyFile # NoKey) => running = keyFile \/ (onPending /\ newFile # NoKey)
    /\ (onPending /\ newFile \notin {NoKey, keyFile} /\ result # NoReply /\ ~result.ok)
          => newFile <= cfg

\* What the steps that neither restart the tunnel nor touch the files leave.
LEMMA SameTrial ==
    ASSUME TypeOK, TypeOK', Custody, Trial, misled' = misled, cfg' >= cfg,
           UNCHANGED <<up, keyFile, newFile, running, onPending>>,
           result' \in {result, NoReply}
    PROVE  Trial'
<1>1. cfg \in Nat /\ cfg' \in Nat /\ newFile \in Nat
  BY BoundsAssumption DEF TypeOK, TypeHost, TypeDisk
<1> QED  BY <1>1 DEF Trial

\* A restart takes the key in member.key, or tries the pending one.
LEMMA RelaunchTrial ==
    ASSUME NEW kf, NEW nf, NEW pending \in BOOLEAN, Relaunch(kf, nf, pending),
           keyFile' = kf, newFile' = nf, pending => nf # NoKey /\ result' = NoReply
    PROVE  Trial'
<1>1. CASE pending
  BY <1>1 DEF Relaunch, Trial
<1>2. CASE ~pending
  BY <1>2 DEF Relaunch, Trial
<1> QED  BY <1>1, <1>2

LEMMA RejectedTrial ==
    ASSUME TypeOK, Custody, Trial, TickRejected
    PROVE  Trial'
<1>1. /\ newFile' = NoKey /\ keyFile' = keyFile /\ result # NoReply /\ ~result.ok
      /\ misled' = (misled \/ Misleading) /\ result' = NoReply
      /\ UNCHANGED <<up, running, onPending>>
  BY Zenon DEF TickRejected, TakeResult, proc
<1> SUFFICES ASSUME up, ~misled', keyFile # NoKey PROVE running = keyFile
  BY <1>1 DEF Trial
<1>2. ~misled /\ ~Misleading
  BY <1>1, Zenon
<1>3. CASE onPending /\ newFile # NoKey /\ newFile # keyFile
  <2>1. newFile <= cfg
    BY <1>1, <1>3 DEF Trial
  <2>2. newFile = gen /\ cfg <= gen /\ cfg \in Nat /\ gen \in Nat
    BY <1>3, BoundsAssumption DEF Custody, LatestPending, TypeOK, TypeHost, TypeEnv
  <2>3. cfg = newFile
    BY <2>1, <2>2
  <2>4. Misleading
    BY <1>1, <1>3, <2>3, Zenon DEF Misleading
  <2> QED  BY <1>2, <2>4
<1>4. CASE ~(onPending /\ newFile # NoKey)
  BY <1>2, <1>4 DEF Trial
<1>5. CASE onPending /\ newFile # NoKey /\ newFile = keyFile
  BY <1>5 DEF Custody, HeardTaken
<1> QED  BY <1>3, <1>4, <1>5

\* A reply that arrives during the trial comes from a host that knows the key.
LEMMA ReceivedTrial ==
    ASSUME TypeOK, Custody, Trial, ReceiveReply
    PROVE  Trial'
<1>1. UNCHANGED <<up, keyFile, newFile, running, onPending, cfg, misled>> /\ running \in wg
  BY Zenon DEF ReceiveReply, Reach, disk, proc, host
<1>2. ASSUME onPending, newFile # NoKey PROVE newFile <= cfg
  BY <1>1, <1>2 DEF Custody, HeardTaken
<1> QED  BY <1>1, <1>2 DEF Trial

LEMMA TrialStep == TypeOK /\ TypeOK' /\ Custody /\ Trial /\ [Next]_vars => Trial'
<1> SUFFICES ASSUME TypeOK, TypeOK', Custody, Trial, [Next]_vars PROVE Trial'
  OBVIOUS
<1>1. cfg' >= cfg
  BY HostKeyGrows DEF Custody
<1>2. ASSUME UNCHANGED <<up, keyFile, newFile, running, onPending>>, misled' = misled,
             result' \in {result, NoReply}
      PROVE  Trial'
  BY <1>1, <1>2, SameTrial
<1>3. CASE UNCHANGED vars
  BY <1>2, <1>3 DEF vars, disk, proc, link
<1>4. CASE Start
  BY <1>4, RelaunchTrial DEF Start, disk
<1>5. CASE Crash \/ CrashInCommit
  BY <1>5 DEF Crash, CrashInCommit, Forget, Trial
<1>6. CASE ReconfigRestart
  BY <1>6, RelaunchTrial DEF ReconfigRestart, disk
<1>7. CASE TickAccepted
  BY <1>7, RelaunchTrial DEF TickAccepted
<1>8. CASE TickAcceptedNoPending
  <2>1. misled' = misled
    <3>1. misled' = (misled \/ Misleading) /\ newFile = NoKey
      BY <1>8, Zenon DEF TickAcceptedNoPending, TakeResult
    <3>2. ~Misleading
      BY <3>1, Zenon DEF Misleading
    <3>3. misled \in BOOLEAN
      BY Zenon DEF TypeOK, TypeFlags
    <3> QED  BY <3>1, <3>2, <3>3, Zenon
  <2> QED  BY <1>2, <1>8, <2>1 DEF TickAcceptedNoPending, TakeResult, disk, proc
<1>9. CASE TickRejected
  BY <1>9, RejectedTrial
<1>10. CASE TickPendingWorks
  <2>1. newFile # NoKey /\ keyFile' = newFile /\ onPending /\ ~onPending' /\ running' = running
    BY <1>10 DEF TickPendingWorks, Commit
  <2>2. running = newFile
    BY <2>1 DEF Custody, HeardTaken
  <2> QED  BY <2>1, <2>2 DEF Trial
<1>11. CASE TickPendingDead
  BY <1>11, RelaunchTrial DEF TickPendingDead, disk
<1>12. CASE TickTryPending
  BY <1>12, RelaunchTrial DEF TickTryPending, disk, link
<1>13. CASE TickRequest
  BY <1>13 DEF TickRequest, Trial
<1>14. CASE TickAcceptedWriteError
  BY <1>14 DEF TickAcceptedWriteError, TakeResult, WriteError, proc, Trial
<1>15. CASE TickPendingWriteError
  BY <1>15 DEF TickPendingWriteError, WriteError, proc, link, Trial
<1>16. CASE Connect \/ SessionEnd \/ AskManual \/ HostRegister \/ HostHandle \/ HostSync \/ Approve
  BY <1>2, <1>16 DEF Connect, SessionEnd, AskManual, HostRegister, HostHandle, HostSync, Approve,
     disk, proc, link
<1>17. CASE ReceiveReply
  BY <1>17, ReceivedTrial
<1>18. CASE BadEdit \/ MendEdit \/ NetDown \/ NetUp \/ Hear \/ Silence
  BY <1>2, <1>18 DEF BadEdit, MendEdit, NetDown, NetUp, Hear, Silence, disk, proc, link
<1> QED  BY <1>3, <1>4, <1>5, <1>6, <1>7, <1>8, <1>9, <1>10, <1>11, <1>12, <1>13, <1>14, <1>15,
            <1>16, <1>17, <1>18 DEF Next, TickActs

\* The key the tunnel runs with is in one of the two files at every moment, so
\* that a crash does not lose a key that works.
THEOREM RunningKeyKept == Spec => []RunningKeyHeld
<1>1. Init => Trial
  BY DEF Init, Trial
<1>2. Custody /\ Trial => RunningKeyHeld
  BY DEF Custody, HeardTaken, Trial, RunningKeyHeld
<1> QED  BY <1>1, <1>2, TypeCorrect, CustodyCorrect, TrialStep, PTL DEF Spec

HIDE DEF Keys, Sessions, NoKey, MayKey

-----------------------------------------------------------------------------
(* The link.  The place, the slot and the table of a device hold requests  *)
(* of the kind they are for, and on the desktop what is on its way to the  *)
(* host was asked in the session it goes by.                               *)

LinkTyped ==
    /\ device \in {"desktop", "mobile"}
    /\ linkSession \in 0 .. MaxSessions /\ sessions \in 0 .. MaxSessions
    /\ asked \in [Requests -> {"new", "waiting", "answered", "failed"}]
    /\ born \in [Requests -> 0 .. MaxSessions]
    /\ got \in [Requests -> Requests \cup {L!None}]
    /\ place \in (Requests \ Numbered) \cup {L!None} /\ slot \in Requests \cup {L!None}
    /\ numbered \subseteq Numbered
    /\ linkOutbox \in Seq(Requests) /\ toHost \in Seq(Requests) /\ toMember \in Seq(Requests)
    /\ applied \subseteq Requests \X (1 .. MaxSessions)

UnderWay == L!Range(linkOutbox) \cup L!Range(toHost)

OwnSession ==
    /\ linkSession = 0 => toHost = << >>
    /\ device = "desktop" /\ linkSession = 0 => linkOutbox = << >>
    /\ device = "desktop" => /\ \A r \in UnderWay : asked[r] # "new" /\ born[r] = linkSession
                             /\ \A x \in applied : asked[x[1]] # "new" /\ born[x[1]] = x[2]

LinkInv == LinkTyped /\ L!OwnAnswer /\ OwnSession

LEMMA LinkIs == Numbered \subseteq Requests /\ MaxSessions \in Nat
BY DeviceAssumption DEF L!LinkAssumption

\* What is put on a connection, and what is taken off.
LEMMA Queue ==
    ASSUME NEW q \in Seq(Requests)
    PROVE  /\ L!Range(q) \subseteq Requests /\ L!Range(<< >>) = {} /\ << >> \in Seq(Requests)
           /\ \A r \in Requests : /\ Append(q, r) \in Seq(Requests)
                                  /\ L!Range(Append(q, r)) = L!Range(q) \cup {r}
           /\ q # << >> => /\ Head(q) \in L!Range(q) /\ Tail(q) \in Seq(Requests)
                           /\ L!Range(Tail(q)) \subseteq L!Range(q)
<1>1. Len(q) \in Nat /\ DOMAIN q = 1 .. Len(q) /\ \A i \in DOMAIN q : q[i] \in Requests
  BY LenProperties, ElementOfSeq
<1>2. L!Range(<< >>) = {} /\ << >> \in Seq(Requests) /\ L!Range(q) \subseteq Requests
  BY <1>1, EmptySeq DEF L!Range
<1>3. ASSUME NEW r \in Requests
      PROVE  Append(q, r) \in Seq(Requests) /\ L!Range(Append(q, r)) = L!Range(q) \cup {r}
  <2> DEFINE g == Append(q, r)
  <2>1. /\ g \in Seq(Requests) /\ Len(g) = Len(q) + 1 /\ g[Len(q) + 1] = r
        /\ \A i \in 1 .. Len(q) : g[i] = q[i]
    BY AppendProperties
  <2> HIDE DEF g
  <2>2. DOMAIN g = 1 .. Len(q) + 1
    BY <2>1, LenProperties
  <2>3. DOMAIN g = DOMAIN q \cup {Len(q) + 1}
    BY <1>1, <2>2
  <2> QED  BY <1>1, <2>1, <2>3 DEF L!Range
<1>4. ASSUME q # << >>
      PROVE  /\ Head(q) \in L!Range(q) /\ Tail(q) \in Seq(Requests)
             /\ L!Range(Tail(q)) \subseteq L!Range(q)
  <2> DEFINE t == Tail(q)
  <2>1. /\ Head(q) = q[1] /\ t \in Seq(Requests) /\ Len(t) = Len(q) - 1
        /\ \A i \in 1 .. Len(t) : t[i] = q[i + 1]
    BY <1>4, HeadTailProperties
  <2>2. 1 \in DOMAIN q
    BY <1>1, <1>4, EmptySeq
  <2> HIDE DEF t
  <2>3. DOMAIN t = 1 .. Len(t)
    BY <2>1, LenProperties
  <2>4. \A i \in DOMAIN t : i + 1 \in DOMAIN q /\ t[i] = q[i + 1]
    BY <1>1, <2>1, <2>3
  <2> QED  BY <2>1, <2>2, <2>4 DEF L!Range
<1> QED  BY <1>2, <1>3, <1>4

LEMMA AttachKeeps == LinkInv /\ L!Attach => LinkInv'
<1> SUFFICES ASSUME LinkInv, L!Attach PROVE LinkInv'
  OBVIOUS
<1>1. LinkTyped /\ L!OwnAnswer /\ OwnSession
  BY DEF LinkInv
<1>2. /\ linkSession = 0 /\ sessions < MaxSessions
      /\ sessions' = sessions + 1 /\ linkSession' = sessions + 1
      /\ UNCHANGED <<device, asked, born, got, place, slot, numbered, linkOutbox, toHost,
                     toMember, applied>>
  BY DEF L!Attach
<1>3. sessions + 1 \in 0 .. MaxSessions /\ sessions + 1 # 0
  BY <1>1, <1>2, LinkIs DEF LinkTyped
<1>4. LinkTyped'
  BY <1>1, <1>2, <1>3 DEF LinkTyped
<1>5. L!OwnAnswer'
  BY <1>1, <1>2 DEF L!OwnAnswer
<1>6. toHost = << >> /\ (device = "desktop" => linkOutbox = << >>)
  BY <1>1, <1>2 DEF OwnSession
<1>7. device = "desktop" => UnderWay' = {}
  BY <1>2, <1>6, Queue, EmptySeq DEF UnderWay, L!Range
<1>8. OwnSession'
  BY <1>1, <1>2, <1>3, <1>7 DEF OwnSession
<1> QED  BY <1>4, <1>5, <1>8 DEF LinkInv

LEMMA DetachKeeps == LinkInv /\ L!Detach => LinkInv'
<1> SUFFICES ASSUME LinkInv, L!Detach PROVE LinkInv'
  OBVIOUS
<1>1. LinkTyped /\ L!OwnAnswer /\ OwnSession
  BY DEF LinkInv
<1>2. /\ linkSession' = 0 /\ toHost' = << >> /\ toMember' = << >>
      /\ UNCHANGED <<device, sessions, born, got, slot, applied>>
  BY DEF L!Detach
<1>3. << >> \in Seq(Requests)
  BY EmptySeq
<1>4. CASE device = "desktop"
  <2>1. /\ asked' = [r \in Requests |->
                       IF r \in L!Waiting(Requests) THEN "failed" ELSE asked[r]]
        /\ place' = L!None /\ numbered' = {} /\ linkOutbox' = << >>
    BY <1>4 DEF L!Detach, L!Fail
  <2>2. asked' \in [Requests -> {"new", "waiting", "answered", "failed"}]
    BY <1>1, <2>1 DEF LinkTyped
  <2>3. LinkTyped'
    BY <1>1, <1>2, <1>3, <2>1, <2>2, LinkIs DEF LinkTyped
  <2>4. UnderWay' = {}
    BY <1>2, <2>1, EmptySeq DEF UnderWay, L!Range
  <2>5. ASSUME NEW x \in applied' PROVE asked'[x[1]] # "new" /\ born'[x[1]] = x[2]
    <3>1. x \in applied /\ x[1] \in Requests
      BY <1>1, <1>2 DEF LinkTyped
    <3>2. asked[x[1]] # "new" /\ born[x[1]] = x[2]
      BY <1>1, <1>4, <3>1 DEF OwnSession
    <3> QED  BY <1>2, <2>1, <3>1, <3>2
  <2>6. OwnSession'
    BY <1>2, <2>1, <2>4, <2>5 DEF OwnSession
  <2>7. L!OwnAnswer'
    BY <1>1, <1>2 DEF L!OwnAnswer
  <2> QED  BY <2>3, <2>6, <2>7 DEF LinkInv
<1>5. CASE device # "desktop"
  <2>1. UNCHANGED <<asked, place, numbered, linkOutbox>>
    BY <1>5 DEF L!Detach
  <2>2. LinkTyped'
    BY <1>1, <1>2, <1>3, <2>1, LinkIs DEF LinkTyped
  <2>3. OwnSession'
    BY <1>2, <1>5 DEF OwnSession
  <2>4. L!OwnAnswer'
    BY <1>1, <1>2 DEF L!OwnAnswer
  <2> QED  BY <2>2, <2>3, <2>4 DEF LinkInv
<1> QED  BY <1>4, <1>5

LEMMA WriteOutKeeps == LinkInv /\ L!WriteOut => LinkInv'
<1> SUFFICES ASSUME LinkInv, L!WriteOut PROVE LinkInv'
  OBVIOUS
<1>1. LinkTyped /\ L!OwnAnswer /\ OwnSession
  BY DEF LinkInv
<1>2. /\ linkSession # 0 /\ linkOutbox # << >>
      /\ linkOutbox' = Tail(linkOutbox) /\ toHost' = Append(toHost, Head(linkOutbox))
      /\ UNCHANGED <<device, linkSession, sessions, asked, born, got, place, slot, numbered,
                     toMember, applied>>
  BY DEF L!WriteOut
<1>3. /\ Head(linkOutbox) \in L!Range(linkOutbox) /\ linkOutbox' \in Seq(Requests)
      /\ L!Range(linkOutbox') \subseteq L!Range(linkOutbox)
      /\ L!Range(linkOutbox) \subseteq Requests
  BY <1>1, <1>2, Queue DEF LinkTyped
<1>4. /\ toHost' \in Seq(Requests)
      /\ L!Range(toHost') = L!Range(toHost) \cup {Head(linkOutbox)}
  BY <1>1, <1>2, <1>3, Queue DEF LinkTyped
<1>5. UnderWay' \subseteq UnderWay
  BY <1>3, <1>4 DEF UnderWay
<1>6. LinkTyped'
  BY <1>1, <1>2, <1>3, <1>4 DEF LinkTyped
<1>7. OwnSession'
  BY <1>1, <1>2, <1>5 DEF OwnSession
<1>8. L!OwnAnswer'
  BY <1>1, <1>2 DEF L!OwnAnswer
<1> QED  BY <1>6, <1>7, <1>8 DEF LinkInv

\* The host carries out what it reads in the session it reads it in.
LEMMA HostHandleKeeps == LinkInv /\ L!HostHandle => LinkInv'
<1> SUFFICES ASSUME LinkInv, L!HostHandle PROVE LinkInv'
  OBVIOUS
<1>1. LinkTyped /\ L!OwnAnswer /\ OwnSession
  BY DEF LinkInv
<1> DEFINE h == Head(toHost)
<1>2. /\ toHost # << >> /\ toHost' = Tail(toHost)
      /\ UNCHANGED <<device, linkSession, sessions, asked, born, got, place, slot, numbered,
                     linkOutbox>>
  BY DEF L!HostHandle
<1>3. \/ toMember' = Append(toMember, h) /\ applied' = applied \cup {<<h, linkSession>>}
      \/ toMember' = toMember /\ applied' = applied
  BY DEF L!HostHandle
<1>4. /\ h \in L!Range(toHost) /\ toHost' \in Seq(Requests)
      /\ L!Range(toHost') \subseteq L!Range(toHost) /\ L!Range(toHost) \subseteq Requests
  BY <1>1, <1>2, Queue DEF LinkTyped
<1> HIDE DEF h
<1>5. linkSession \in 1 .. MaxSessions
  <2>1. linkSession # 0
    BY <1>1, <1>2 DEF OwnSession
  <2> QED  BY <1>1, <2>1, LinkIs DEF LinkTyped
<1>6. h \in Requests /\ h \in UnderWay
  BY <1>4 DEF UnderWay
<1>7. toMember' \in Seq(Requests)
  <2>1. toMember \in Seq(Requests)
    BY <1>1 DEF LinkTyped
  <2>2. Append(toMember, h) \in Seq(Requests)
    BY <1>6, <2>1, Queue
  <2> QED  BY <1>3, <2>1, <2>2
<1>8. applied' \subseteq Requests \X (1 .. MaxSessions)
  BY <1>1, <1>3, <1>5, <1>6 DEF LinkTyped
<1>9. LinkTyped'
  BY <1>1, <1>2, <1>4, <1>7, <1>8 DEF LinkTyped
<1>10. UnderWay' \subseteq UnderWay
  BY <1>2, <1>4 DEF UnderWay
<1>11. (linkSession = 0 => toHost = << >>)'
  BY <1>2, <1>5
<1>12. ASSUME device = "desktop"
       PROVE  \A x \in applied' : asked[x[1]] # "new" /\ born[x[1]] = x[2]
  <2>1. asked[h] # "new" /\ born[h] = linkSession
    BY <1>1, <1>6, <1>12 DEF OwnSession
  <2>2. \A x \in applied : asked[x[1]] # "new" /\ born[x[1]] = x[2]
    BY <1>1, <1>12 DEF OwnSession
  <2> QED  BY <1>3, <2>1, <2>2
<1>13. OwnSession'
  BY <1>1, <1>2, <1>5, <1>10, <1>11, <1>12 DEF OwnSession
<1>14. L!OwnAnswer'
  BY <1>1, <1>2 DEF L!OwnAnswer
<1> QED  BY <1>9, <1>13, <1>14 DEF LinkInv

LEMMA AskPlainKeeps == ASSUME NEW r \in Requests, LinkInv, L!AskPlain(r) PROVE LinkInv'
<1>1. LinkTyped /\ L!OwnAnswer /\ OwnSession
  BY DEF LinkInv
<1>2. /\ r \notin Numbered /\ asked[r] = "new" /\ linkSession # 0
      /\ linkOutbox' = Append(linkOutbox, r) /\ born' = [born EXCEPT ![r] = linkSession]
      /\ UNCHANGED <<device, linkSession, sessions, got, numbered, toHost, toMember, applied>>
  BY DEF L!AskPlain
<1>3. place' \in (Requests \ Numbered) \cup {L!None} /\ slot' \in Requests \cup {L!None}
  BY <1>1, <1>2 DEF L!AskPlain, LinkTyped
<1>4. /\ asked' \in [Requests -> {"new", "waiting", "answered", "failed"}]
      /\ \A q \in Requests : q = r \/ asked[q] # "new" => asked'[q] # "new"
  <2>1. asked \in [Requests -> {"new", "waiting", "answered", "failed"}]
    BY <1>1 DEF LinkTyped
  <2>2. CASE device = "desktop"
    <3>1. asked' = [q \in Requests |-> IF q = r THEN "waiting"
                                       ELSE IF q = place THEN "failed" ELSE asked[q]]
      BY <2>2 DEF L!AskPlain
    <3> QED  BY <2>1, <3>1
  <2>3. CASE device # "desktop"
    <3>1. asked' = [asked EXCEPT ![r] = "waiting"]
      BY <2>3 DEF L!AskPlain
    <3> QED  BY <2>1, <3>1
  <2> QED  BY <2>2, <2>3
<1>5. /\ linkOutbox' \in Seq(Requests)
      /\ L!Range(linkOutbox') = L!Range(linkOutbox) \cup {r}
      /\ L!Range(linkOutbox) \subseteq Requests /\ L!Range(toHost) \subseteq Requests
  BY <1>1, <1>2, Queue DEF LinkTyped
<1>6. /\ born' \in [Requests -> 0 .. MaxSessions] /\ born'[r] = linkSession
      /\ \A q \in Requests : q # r => born'[q] = born[q]
  BY <1>1, <1>2 DEF LinkTyped
<1>7. LinkTyped'
  <2>1. sessions' \in 0 .. MaxSessions /\ linkSession' \in 0 .. MaxSessions
    BY <1>1, <1>2 DEF LinkTyped
  <2>2. toHost' \in Seq(Requests) /\ toMember' \in Seq(Requests)
    BY <1>1, <1>2 DEF LinkTyped
  <2> QED  BY <1>1, <1>2, <1>3, <1>4, <1>5, <1>6, <2>1, <2>2 DEF LinkTyped
<1>8. ASSUME device = "desktop"
      PROVE  /\ \A q \in UnderWay' : asked'[q] # "new" /\ born'[q] = linkSession
             /\ \A x \in applied : asked'[x[1]] # "new" /\ born'[x[1]] = x[2]
  <2>1. UnderWay' = UnderWay \cup {r} /\ UnderWay \subseteq Requests
    BY <1>2, <1>5 DEF UnderWay
  <2>2. \A q \in UnderWay : asked[q] # "new" /\ born[q] = linkSession
    BY <1>1, <1>8 DEF OwnSession
  <2>3. \A x \in applied : x[1] \in Requests /\ asked[x[1]] # "new" /\ born[x[1]] = x[2]
    BY <1>1, <1>8 DEF OwnSession, LinkTyped
  <2>4. \A q \in UnderWay : q # r /\ asked'[q] # "new" /\ born'[q] = linkSession
    BY <1>2, <1>4, <1>6, <2>1, <2>2
  <2>5. \A x \in applied : x[1] # r
    BY <1>2, <2>3
  <2> QED  BY <1>4, <1>6, <2>1, <2>3, <2>4, <2>5
<1>9. OwnSession'
  BY <1>1, <1>2, <1>8 DEF OwnSession
<1>10. L!OwnAnswer'
  BY <1>1, <1>2 DEF L!OwnAnswer
<1> QED  BY <1>7, <1>9, <1>10 DEF LinkInv

LEMMA AskNumberedKeeps ==
    ASSUME NEW r \in Requests, LinkInv, L!AskNumbered(r) PROVE LinkInv'
<1>1. LinkTyped /\ L!OwnAnswer /\ OwnSession
  BY DEF LinkInv
<1>2. /\ r \in Numbered /\ asked[r] = "new" /\ linkSession # 0
      /\ linkOutbox' = Append(linkOutbox, r) /\ born' = [born EXCEPT ![r] = linkSession]
      /\ numbered' = numbered \cup {r} /\ asked' = [asked EXCEPT ![r] = "waiting"]
      /\ UNCHANGED <<device, linkSession, sessions, got, place, slot, toHost, toMember,
                     applied>>
  BY DEF L!AskNumbered
<1>4. /\ asked' \in [Requests -> {"new", "waiting", "answered", "failed"}]
      /\ \A q \in Requests : q = r \/ asked[q] # "new" => asked'[q] # "new"
  BY <1>1, <1>2 DEF LinkTyped
<1>5. /\ linkOutbox' \in Seq(Requests)
      /\ L!Range(linkOutbox') = L!Range(linkOutbox) \cup {r}
      /\ L!Range(linkOutbox) \subseteq Requests /\ L!Range(toHost) \subseteq Requests
  BY <1>1, <1>2, Queue DEF LinkTyped
<1>6. /\ born' \in [Requests -> 0 .. MaxSessions] /\ born'[r] = linkSession
      /\ \A q \in Requests : q # r => born'[q] = born[q]
  BY <1>1, <1>2 DEF LinkTyped
<1>7. LinkTyped'
  BY <1>1, <1>2, <1>4, <1>5, <1>6 DEF LinkTyped
<1>8. ASSUME device = "desktop"
      PROVE  /\ \A q \in UnderWay' : asked'[q] # "new" /\ born'[q] = linkSession
             /\ \A x \in applied : asked'[x[1]] # "new" /\ born'[x[1]] = x[2]
  <2>1. UnderWay' = UnderWay \cup {r} /\ UnderWay \subseteq Requests
    BY <1>2, <1>5 DEF UnderWay
  <2>2. \A q \in UnderWay : asked[q] # "new" /\ born[q] = linkSession
    BY <1>1, <1>8 DEF OwnSession
  <2>3. \A x \in applied : x[1] \in Requests /\ asked[x[1]] # "new" /\ born[x[1]] = x[2]
    BY <1>1, <1>8 DEF OwnSession, LinkTyped
  <2>4. \A q \in UnderWay : q # r /\ asked'[q] # "new" /\ born'[q] = linkSession
    BY <1>2, <1>4, <1>6, <2>1, <2>2
  <2>5. \A x \in applied : x[1] # r
    BY <1>2, <2>3
  <2> QED  BY <1>4, <1>6, <2>1, <2>3, <2>4, <2>5
<1>9. OwnSession'
  BY <1>1, <1>2, <1>8 DEF OwnSession
<1>10. L!OwnAnswer'
  BY <1>1, <1>2 DEF L!OwnAnswer
<1> QED  BY <1>7, <1>9, <1>10 DEF LinkInv

\* An answer, a failure or a poll moves a request on: it never makes it new again, and
\* changes neither what is under way nor what was carried out.
LEMMA MovedOn ==
    ASSUME LinkInv, LinkTyped', UNCHANGED <<device, linkSession, born, linkOutbox, toHost, applied>>,
           \A q \in Requests : asked[q] # "new" => asked'[q] # "new"
    PROVE  OwnSession'
<1>1. LinkTyped /\ OwnSession
  BY DEF LinkInv
<1>2. UnderWay' = UnderWay
  BY DEF UnderWay
<1>3. UnderWay \subseteq Requests
  BY <1>1, Queue DEF LinkTyped, UnderWay
<1>4. \A x \in applied : x[1] \in Requests
  BY <1>1 DEF LinkTyped
<1>5. ASSUME device = "desktop"
      PROVE  /\ \A q \in UnderWay : asked'[q] # "new" /\ born[q] = linkSession
             /\ \A x \in applied : asked'[x[1]] # "new" /\ born[x[1]] = x[2]
  BY <1>1, <1>3, <1>4, <1>5 DEF OwnSession
<1> QED  BY <1>1, <1>2, <1>5 DEF OwnSession

LEMMA TimeoutKeeps == ASSUME NEW r \in Requests, LinkInv, L!Timeout(r) PROVE LinkInv'
<1>1. LinkTyped /\ L!OwnAnswer
  BY DEF LinkInv
<1>2. /\ asked' = [q \in Requests |-> IF q \in {r} THEN "failed" ELSE asked[q]]
      /\ numbered' \subseteq numbered
      /\ UNCHANGED <<device, linkSession, sessions, born, got, place, slot, linkOutbox, toHost,
                     toMember, applied>>
  BY DEF L!Timeout, L!Fail
<1>3. /\ asked' \in [Requests -> {"new", "waiting", "answered", "failed"}]
      /\ \A q \in Requests : asked[q] # "new" => asked'[q] # "new"
  BY <1>1, <1>2 DEF LinkTyped
<1>4. LinkTyped'
  BY <1>1, <1>2, <1>3 DEF LinkTyped
<1>5. OwnSession'
  BY <1>2, <1>3, <1>4, MovedOn
<1>6. L!OwnAnswer'
  BY <1>1, <1>2 DEF L!OwnAnswer
<1> QED  BY <1>4, <1>5, <1>6 DEF LinkInv

\* Who is given an answer: a request without a number any, one with a number its own.
LEMMA GivenKeeps ==
    ASSUME LinkInv, NEW r \in Requests, NEW a \in Requests, L!Answer(r, a),
           r \in Numbered => r = a
    PROVE  /\ asked' \in [Requests -> {"new", "waiting", "answered", "failed"}]
           /\ got' \in [Requests -> Requests \cup {L!None}]
           /\ \A q \in Requests : asked[q] # "new" => asked'[q] # "new"
           /\ L!OwnAnswer'
<1>1. LinkTyped /\ L!OwnAnswer
  BY DEF LinkInv
<1>2. asked' = [asked EXCEPT ![r] = "answered"] /\ got' = [got EXCEPT ![r] = a]
  BY DEF L!Answer
<1>3. /\ asked \in [Requests -> {"new", "waiting", "answered", "failed"}]
      /\ got \in [Requests -> Requests \cup {L!None}]
  BY <1>1 DEF LinkTyped
<1>4. L!OwnAnswer'
  <2> SUFFICES ASSUME NEW q \in Numbered PROVE got'[q] \in {L!None, q}
    BY DEF L!OwnAnswer
  <2>1. q \in Requests /\ got[q] \in {L!None, q}
    BY <1>1, LinkIs DEF L!OwnAnswer
  <2>2. got'[q] = IF q = r THEN a ELSE got[q]
    BY <1>2, <1>3, <2>1
  <2> QED  BY <2>1, <2>2
<1> QED  BY <1>2, <1>3, <1>4

LEMMA PollKeeps == ASSUME NEW r \in Requests, LinkInv, L!Poll(r) PROVE LinkInv'
<1>1. LinkTyped
  BY DEF LinkInv
<1>2. /\ r \notin Numbered /\ slot # L!None /\ L!Answer(r, slot) /\ slot' = L!None
      /\ UNCHANGED <<device, linkSession, sessions, born, place, numbered, linkOutbox, toHost,
                     toMember, applied>>
  BY DEF L!Poll
<1>3. slot \in Requests
  BY <1>1, <1>2 DEF LinkTyped
<1>4. /\ asked' \in [Requests -> {"new", "waiting", "answered", "failed"}]
      /\ got' \in [Requests -> Requests \cup {L!None}]
      /\ \A q \in Requests : asked[q] # "new" => asked'[q] # "new"
      /\ L!OwnAnswer'
  BY <1>2, <1>3, GivenKeeps
<1>5. LinkTyped'
  BY <1>1, <1>2, <1>4 DEF LinkTyped
<1>6. OwnSession'
  BY <1>2, <1>4, <1>5, MovedOn
<1> QED  BY <1>4, <1>5, <1>6 DEF LinkInv

LEMMA ReadAnswerKeeps == LinkInv /\ L!ReadAnswer => LinkInv'
<1> SUFFICES ASSUME LinkInv, L!ReadAnswer PROVE LinkInv'
  OBVIOUS
<1>1. LinkTyped /\ L!OwnAnswer
  BY DEF LinkInv
<1> DEFINE a == Head(toMember)
<1>2. /\ toMember # << >> /\ toMember' = Tail(toMember)
      /\ UNCHANGED <<device, linkSession, sessions, born, linkOutbox, toHost, applied>>
  BY DEF L!ReadAnswer
<1>3. IF a \in Numbered THEN L!PutNumbered(a) ELSE L!PutByPlace(a) /\ UNCHANGED numbered
  BY DEF L!ReadAnswer
<1>4. a \in Requests /\ toMember' \in Seq(Requests)
  BY <1>1, <1>2, Queue DEF LinkTyped
<1> HIDE DEF a
<1>5. /\ numbered' \subseteq numbered
      /\ place' \in (Requests \ Numbered) \cup {L!None} /\ slot' \in Requests \cup {L!None}
  BY <1>1, <1>3, <1>4 DEF L!PutNumbered, L!PutByPlace, LinkTyped
<1>6. \/ UNCHANGED <<asked, got>>
      \/ \E r \in Requests : L!Answer(r, a) /\ (r \in Numbered => r = a)
  <2>1. CASE a \in Numbered
    BY <1>3, <1>4, <2>1 DEF L!PutNumbered
  <2>2. CASE a \notin Numbered
    <3>1. UNCHANGED <<asked, got>> \/ (place # L!None /\ L!Answer(place, a))
      BY <1>3, <2>2 DEF L!PutByPlace
    <3>2. place # L!None => place \in Requests \ Numbered
      BY <1>1 DEF LinkTyped
    <3> QED  BY <3>1, <3>2
  <2> QED  BY <2>1, <2>2
<1>7. /\ asked' \in [Requests -> {"new", "waiting", "answered", "failed"}]
      /\ got' \in [Requests -> Requests \cup {L!None}]
      /\ \A q \in Requests : asked[q] # "new" => asked'[q] # "new"
      /\ L!OwnAnswer'
  <2>1. CASE UNCHANGED <<asked, got>>
    BY <1>1, <2>1 DEF LinkTyped, L!OwnAnswer
  <2>2. CASE \E r \in Requests : L!Answer(r, a) /\ (r \in Numbered => r = a)
    BY <1>4, <2>2, GivenKeeps
  <2> QED  BY <1>6, <2>1, <2>2
<1>8. LinkTyped'
  BY <1>1, <1>2, <1>4, <1>5, <1>7 DEF LinkTyped
<1>9. OwnSession'
  BY <1>2, <1>7, <1>8, MovedOn
<1> QED  BY <1>7, <1>8, <1>9 DEF LinkInv

LEMMA LinkStands == LinkInv /\ UNCHANGED linkState => LinkInv'
BY DEF LinkInv, LinkTyped, OwnSession, UnderWay, L!OwnAnswer, linkState

\* The requests of a device keep the invariant, and its key and its files leave them alone.
LEMMA LinkInvariant == DeviceSpec => []LinkInv
<1>1. DeviceInit => LinkInv
  <2> SUFFICES ASSUME DeviceInit PROVE LinkInv
    OBVIOUS
  <2>1. L!Init
    BY DEF DeviceInit
  <2>2. LinkTyped
    BY <2>1, LinkIs, EmptySeq DEF L!Init, LinkTyped
  <2>3. UnderWay = {}
    BY <2>1, EmptySeq DEF L!Init, UnderWay, L!Range
  <2> QED  BY <2>1, <2>2, <2>3, LinkIs DEF L!Init, LinkInv, OwnSession, L!OwnAnswer
<1>2. LinkInv /\ [DeviceNext]_allVars => LinkInv'
  <2> SUFFICES ASSUME LinkInv, [DeviceNext]_allVars PROVE LinkInv'
    OBVIOUS
  <2>1. L!Next \/ UNCHANGED linkState
    BY DEF DeviceNext, LinkStep, KeyStep, FileStep, allVars
  <2>2. CASE UNCHANGED linkState
    BY <2>2, LinkStands
  <2>3. CASE L!Next
    BY <2>3, AttachKeeps, DetachKeeps, WriteOutKeeps, HostHandleKeeps, ReadAnswerKeeps,
       AskPlainKeeps, AskNumberedKeeps, TimeoutKeeps, PollKeeps DEF L!Next
  <2> QED  BY <2>1, <2>2, <2>3
<1> QED  BY <1>1, <1>2, PTL DEF DeviceSpec

(* A request is told its own answer, for every number of requests and      *)
(* sessions: a numbered request gets its own result or none, whatever was  *)
(* answered late, and on the desktop what is carried out was asked in that *)
(* session (MemberLink::read, attach and detach, control.rs).              *)
THEOREM AnswersReachTheirOwn == DeviceSpec => []AnswersMatched
<1>1. LinkInv => AnswersMatched
  <2> SUFFICES ASSUME LinkInv PROVE AnswersMatched
    OBVIOUS
  <2>1. LinkTyped /\ L!OwnAnswer /\ OwnSession
    BY DEF LinkInv
  <2>2. L!Range(linkOutbox) \cup L!Range(toHost) \cup L!Range(toMember) \subseteq Requests
    BY <2>1, Queue DEF LinkTyped
  <2>3. L!TypeOK
    BY <2>1, <2>2 DEF LinkTyped, L!TypeOK
  <2>4. L!NotInALaterSession
    BY <2>1 DEF OwnSession, L!NotInALaterSession
  <2> QED  BY <2>1, <2>3, <2>4 DEF AnswersMatched
<1> QED  BY <1>1, LinkInvariant, PTL

-----------------------------------------------------------------------------
(* The files.  An inode is the part of one path only, and a writer of it   *)
(* has that path; so a transfer that shares its path with no other is the  *)
(* only writer of its part, which holds what the receiver hashed.  What was*)
(* reported complete is under no name a later transfer writes to, and no   *)
(* inode is given out twice.                                               *)

Attempts == [at : {"new", "offered", "found", "open", "body", "end"}, path : Paths,
             inode : F!Inodes \cup {0}, append : BOOLEAN, resume : BOOLEAN]
Blocks == Seq(0 .. MaxVersion)
Early == {"new", "offered", "found", "open"}

FileTyped ==
    /\ source \in 1 .. MaxVersion /\ crashes \in 0 .. 1
    /\ tr \in [Transfers -> Attempts]
    /\ partFile \in [Paths -> F!Inodes \cup {0}] /\ final \in [Paths -> F!Inodes \cup {0}]
    /\ marker \subseteq Paths /\ done \in [Transfers -> F!Inodes \cup {0}]
    /\ data \in [F!Inodes -> Blocks]
    /\ sent \in [Transfers -> Blocks] /\ heard \in [Transfers -> Blocks]
    /\ \A t \in Transfers : Len(sent[t]) = Len(heard[t])

\* An attempt that has opened its part has an inode, and a new one is given only then.
Opened == {t \in Transfers : tr[t].inode # 0}
Counted == next \in Nat \ {0} /\ next =< Cardinality(Opened) + 1

Unopened == \A t \in Transfers : tr[t].at \in Early => tr[t].inode = 0 /\ heard[t] = << >>

\* A writer of a part has the part's path.
Homes == \A u \in Transfers : tr[u].at = "body" =>
           /\ tr[u].inode # 0 /\ tr[u].inode < next
           /\ \A p \in Paths : partFile[p] = tr[u].inode => p = tr[u].path

Writing == \A t \in Transfers \ crossed : tr[t].at = "body" =>
             partFile[tr[t].path] = tr[t].inode /\ data[tr[t].inode] = heard[t]

Reported ==
    /\ \A t \in Transfers : done[t] # 0 => tr[t].at = "end"
    /\ \A t \in Transfers \ crossed : done[t] # 0 => data[done[t]] = sent[t]
    /\ \A t \in Transfers \ crossed, u \in Transfers :
          done[t] # 0 /\ tr[u].at = "body" => tr[u].inode # done[t]

InodesApart ==
    /\ \A p \in Paths : partFile[p] < next
    /\ \A t \in Transfers : done[t] < next
    /\ \A p, q \in Paths : partFile[p] # 0 /\ partFile[p] = partFile[q] => p = q
    /\ \A p \in Paths, t \in Transfers : partFile[p] # 0 => partFile[p] # done[t]

FileInv == /\ FileTyped /\ F!Sharing \subseteq crossed /\ Counted /\ Unopened /\ Homes
           /\ Writing /\ Reported /\ InodesApart

\* What every step does besides: the attempts that share a path are noted.
Crossing == crossed' = crossed \cup F!Sharing'

\* The counting of FileTransfer is that of this module.
LEMMA SameCount == ASSUME NEW S
                   PROVE  /\ F!IsFiniteSet(S) <=> IsFiniteSet(S)
                          /\ F!Cardinality(S) = Cardinality(S)
<1>1. F!IsFiniteSet(S) <=> IsFiniteSet(S)
  BY Zenon DEF F!IsFiniteSet, IsFiniteSet
<1>2. F!Cardinality(S) = Cardinality(S)
  BY Zenon DEF F!Cardinality, Cardinality
<1> QED  BY <1>1, <1>2

LEMMA FileIs == /\ IsFiniteSet(Transfers) /\ Cardinality(Transfers) \in Nat
                /\ Paths \subseteq Nat /\ 1 \in Paths /\ MaxVersion \in Nat \ {0}
                /\ F!Inodes = 1 .. Cardinality(Transfers) /\ 0 \notin F!Inodes
<1>1. IsFiniteSet(Transfers) /\ Paths \subseteq Nat /\ 1 \in Paths /\ MaxVersion \in Nat \ {0}
  BY DeviceAssumption, SameCount DEF F!FileAssumption
<1>2. Cardinality(Transfers) \in Nat
  BY <1>1, FS_CardinalityType
<1> QED  BY <1>1, <1>2, SameCount DEF F!Inodes

LEMMA OpenedCount == /\ IsFiniteSet(Opened) /\ Cardinality(Opened) \in Nat
                     /\ Cardinality(Opened) =< Cardinality(Transfers)
<1>1. Opened \subseteq Transfers
  BY DEF Opened
<1> QED  BY <1>1, FileIs, FS_Subset, FS_CardinalityType

\* A writer at the end of its part appends.
LEMMA PutAppends == ASSUME NEW c \in Blocks, NEW b \in 0 .. MaxVersion
                    PROVE  F!Put(c, Len(c) + 1, b) = Append(c, b)
<1>1. Len(c) \in Nat /\ c \in [1 .. Len(c) -> 0 .. MaxVersion] /\ c \in Seq(0 .. MaxVersion)
  BY LenProperties DEF Blocks
<1> DEFINE n == Len(c)
<1>2. F!Put(c, n + 1, b) = [k \in 1 .. (IF n + 1 > n THEN n + 1 ELSE n) |->
                              IF k = n + 1 THEN b ELSE IF k =< n THEN c[k] ELSE 0]
  BY DEF F!Put
<1>3. (IF n + 1 > n THEN n + 1 ELSE n) = n + 1
  BY <1>1
<1>4. F!Put(c, n + 1, b) = [k \in 1 .. (n + 1) |->
                              IF k = n + 1 THEN b ELSE IF k =< n THEN c[k] ELSE 0]
  BY <1>2, <1>3
<1>5. [k \in 1 .. (n + 1) |-> IF k = n + 1 THEN b ELSE IF k =< n THEN c[k] ELSE 0]
        = [k \in 1 .. (n + 1) |-> IF k = n + 1 THEN b ELSE c[k]]
  BY <1>1
<1>6. Append(c, b) = [k \in 1 .. (n + 1) |-> IF k = n + 1 THEN b ELSE c[k]]
  <2> DEFINE g == Append(c, b)
  <2>1. /\ g \in Seq(0 .. MaxVersion) /\ Len(g) = n + 1
        /\ \A i \in 1 .. n : g[i] = c[i]
        /\ g[n + 1] = b
    BY <1>1, AppendProperties
  <2> HIDE DEF g
  <2>2. g \in [1 .. (n + 1) -> 0 .. MaxVersion]
    BY <2>1, LenProperties
  <2>3. \A k \in 1 .. (n + 1) : g[k] = IF k = n + 1 THEN b ELSE c[k]
    BY <1>1, <2>1
  <2>4. g = [k \in 1 .. (n + 1) |-> g[k]]
    BY <2>2
  <2>5. g = [k \in 1 .. (n + 1) |-> IF k = n + 1 THEN b ELSE c[k]]
    BY <2>3, <2>4
  <2> QED  BY <2>5 DEF g
<1> QED  BY <1>4, <1>5, <1>6

\* Wherever it writes, a part is made of blocks and gaps.
LEMMA PutTyped == ASSUME NEW c \in Blocks, NEW n \in Nat, NEW b \in 0 .. MaxVersion
                  PROVE  F!Put(c, n + 1, b) \in Blocks
<1>1. Len(c) \in Nat /\ c \in [1 .. Len(c) -> 0 .. MaxVersion]
  BY LenProperties DEF Blocks
<1> DEFINE l == IF n + 1 > Len(c) THEN n + 1 ELSE Len(c)
<1>2. l \in Nat /\ 0 \in 0 .. MaxVersion
  BY <1>1, FileIs
<1>3. F!Put(c, n + 1, b) = [k \in 1 .. l |-> IF k = n + 1 THEN b ELSE IF k =< Len(c) THEN c[k] ELSE 0]
  BY DEF F!Put
<1> HIDE DEF l
<1>4. \A k \in 1 .. l : (IF k = n + 1 THEN b ELSE IF k =< Len(c) THEN c[k] ELSE 0) \in 0 .. MaxVersion
  <2> TAKE k \in 1 .. l
  <2>1. k \in Nat /\ k >= 1
    BY <1>2
  <2>2. k =< Len(c) => c[k] \in 0 .. MaxVersion
    BY <1>1, <2>1
  <2> QED  BY <1>2, <2>2
<1>5. F!Put(c, n + 1, b) \in [1 .. l -> 0 .. MaxVersion]
  BY <1>3, <1>4
<1> QED  BY <1>2, <1>5, SeqDef DEF Blocks

LEMMA MinOf == ASSUME NEW S \in SUBSET Nat, S # {} PROVE F!Min(S) \in S
<1>1. PICK x \in S : \A y \in S : <<y, x>> \notin OpToRel(<, Nat)
  BY WFMin, NatLessThanWellFounded, Zenon
<1>2. \A y \in S : y < x => <<y, x>> \in OpToRel(<, Nat)
  <2>1. \A y \in S : y \in Nat /\ x \in Nat
    OBVIOUS
  <2> QED  BY <2>1, Zenon DEF OpToRel
<1>3. \A y \in S : ~(y < x)
  BY <1>1, <1>2
<1>4. \A y \in S : y \in Nat /\ x \in Nat
  OBVIOUS
<1>5. \A y \in S : x =< y
  BY <1>3, <1>4
<1> QED  BY <1>5 DEF F!Min

\* What an attempt does to its own record.
LEMMA Moved ==
    ASSUME FileTyped, NEW t \in Transfers, NEW r \in Attempts, tr' = [tr EXCEPT ![t] = r]
    PROVE  /\ tr' \in [Transfers -> Attempts] /\ tr'[t] = r
           /\ \A u \in Transfers : u # t => tr'[u] = tr[u]
<1>1. tr \in [Transfers -> Attempts]
  BY DEF FileTyped
<1> QED  BY <1>1

\* What is noted of shared paths is never forgotten, and misses none.
LEMMA Noted == ASSUME Crossing PROVE F!Sharing' \subseteq crossed' /\ crossed \subseteq crossed'
BY DEF Crossing

\* A transfer that shares its path with none has it alone.
LEMMA Alone ==
    ASSUME F!Sharing \subseteq crossed, NEW t \in Transfers \ crossed, NEW u \in Transfers,
           tr[t].at \in {"found", "open", "body"}, tr[u].at \in {"found", "open", "body"},
           tr[u].path = tr[t].path
    PROVE  u = t
BY DEF F!Sharing, F!Placed

\* Before the part is opened an attempt only chooses a path, or gives up.
LEMMA Walks ==
    ASSUME FileInv, Crossing, NEW t \in Transfers, NEW r \in Attempts, tr' = [tr EXCEPT ![t] = r],
           tr[t].at \in Early, r.at \in (Early \ {"new"}) \cup {"end"},
           r.inode = tr[t].inode, marker' \subseteq Paths,
           UNCHANGED <<source, sent, heard, partFile, final, data, next, done, crashes>>
    PROVE  FileInv'
<1>1. FileTyped /\ Counted /\ Unopened /\ Homes /\ Writing /\ Reported /\ InodesApart
  BY DEF FileInv
<1>2. /\ tr' \in [Transfers -> Attempts] /\ tr'[t] = r
      /\ \A u \in Transfers : u # t => tr'[u] = tr[u]
  BY <1>1, Moved
<1>3. FileTyped'
  BY <1>1, <1>2 DEF FileTyped
<1>4. Counted'
  <2>1. Opened' = Opened
    BY <1>2 DEF Opened
  <2> QED  BY <1>1, <2>1 DEF Counted
<1>5. Unopened'
  BY <1>1, <1>2 DEF Unopened
<1>6. r.at # "body" /\ tr[t].at # "end"
  BY DEF Early
<1>7. Homes'
  BY <1>1, <1>2, <1>6 DEF Homes
<1>8. Writing'
  BY <1>1, <1>2, <1>6, Noted DEF Writing
<1>9. done[t] = 0
  BY <1>1, <1>6 DEF Reported
<1>10. Reported'
  BY <1>1, <1>2, <1>6, <1>9, Noted DEF Reported
<1>11. InodesApart'
  BY <1>1 DEF InodesApart
<1> QED  BY <1>3, <1>4, <1>5, <1>7, <1>8, <1>10, <1>11, Noted DEF FileInv

LEMMA OfferKeeps ==
    ASSUME FileInv, Crossing, NEW t \in Transfers, NEW resume \in BOOLEAN,
           F!Offer(t, resume)
    PROVE  FileInv'
<1> DEFINE r == [tr[t] EXCEPT !.at = "offered", !.resume = resume]
<1>1. FileTyped /\ tr[t] \in Attempts
  BY DEF FileInv, FileTyped
<1>2. /\ tr[t].at = "new"
      /\ tr' = [tr EXCEPT ![t] = r]
      /\ UNCHANGED <<source, sent, heard, partFile, final, marker, data, next, done, crashes>>
  BY DEF F!Offer, F!fs
<1>3. r \in Attempts
  BY <1>1 DEF Attempts
<1>4. r.at = "offered" /\ r.inode = tr[t].inode
  BY <1>1 DEF Attempts
<1>6. marker' \subseteq Paths
  BY <1>1, <1>2 DEF FileTyped
<1> HIDE DEF r
<1>7. tr[t].at \in Early /\ r.at \in (Early \ {"new"}) \cup {"end"}
  BY <1>2, <1>4 DEF Early
<1> QED  BY <1>2, <1>3, <1>4, <1>6, <1>7, Walks

LEMMA FindMarkerKeeps ==
    ASSUME FileInv, Crossing, NEW t \in Transfers, NEW p \in Paths, F!FindMarker(t, p) PROVE FileInv'
<1> DEFINE r == [tr[t] EXCEPT !.at = "found", !.path = p]
<1>1. FileTyped /\ tr[t] \in Attempts /\ tr \in [Transfers -> Attempts]
  BY DEF FileInv, FileTyped
<1>2. /\ tr[t].at = "offered" /\ marker' \subseteq marker
      /\ tr' = [tr EXCEPT ![t] = r] \/ tr' = tr
      /\ UNCHANGED <<source, sent, heard, partFile, final, data, next, done, crashes>>
  BY DEF F!FindMarker
<1>3. r \in Attempts
  BY <1>1 DEF Attempts
<1>4. r.at = "found" /\ r.inode = tr[t].inode
  BY <1>1 DEF Attempts
<1>5. marker' \subseteq Paths
  BY <1>1, <1>2 DEF FileTyped
<1> HIDE DEF r
<1>6. tr[t].at \in Early /\ r.at \in (Early \ {"new"}) \cup {"end"}
  BY <1>2, <1>4 DEF Early
<1>7. CASE tr' = [tr EXCEPT ![t] = r]
  BY <1>2, <1>3, <1>4, <1>5, <1>6, <1>7, Walks
<1>8. CASE tr' = tr
  <2>1. tr' = [tr EXCEPT ![t] = tr[t]] /\ tr[t].at \in (Early \ {"new"}) \cup {"end"}
    BY <1>1, <1>2, <1>8 DEF Early
  <2> QED  BY <1>1, <1>2, <1>5, <1>6, <2>1, Walks
<1> QED  BY <1>2, <1>7, <1>8

LEMMA TakeMarkerKeeps ==
    ASSUME FileInv, Crossing, NEW t \in Transfers, F!TakeMarker(t) PROVE FileInv'
<1> DEFINE r == [tr[t] EXCEPT !.at = "open", !.append = TRUE]
<1>1. FileTyped /\ tr[t] \in Attempts
  BY DEF FileInv, FileTyped
<1>2. /\ tr[t].at = "found" /\ marker' \subseteq marker /\ tr' = [tr EXCEPT ![t] = r]
      /\ UNCHANGED <<source, sent, heard, partFile, final, data, next, done, crashes>>
  BY DEF F!TakeMarker
<1>3. r \in Attempts
  BY <1>1 DEF Attempts
<1>4. r.at = "open" /\ r.inode = tr[t].inode
  BY <1>1 DEF Attempts
<1>5. marker' \subseteq Paths
  BY <1>1, <1>2 DEF FileTyped
<1> HIDE DEF r
<1>6. tr[t].at \in Early /\ r.at \in (Early \ {"new"}) \cup {"end"}
  BY <1>2, <1>4 DEF Early
<1> QED  BY <1>2, <1>3, <1>4, <1>5, <1>6, Walks

LEMMA ChoosePathKeeps ==
    ASSUME FileInv, Crossing, NEW t \in Transfers, F!ChoosePath(t) PROVE FileInv'
<1> DEFINE p == F!Min({q \in Paths : ~F!Taken(q)})
           r == [tr[t] EXCEPT !.at = "open", !.path = p]
<1>1. FileTyped /\ tr[t] \in Attempts
  BY DEF FileInv, FileTyped
<1>2. /\ tr[t].at = "offered" /\ tr' = [tr EXCEPT ![t] = r]
      /\ \E q \in Paths : ~F!Taken(q)
      /\ UNCHANGED <<source, sent, heard, partFile, final, marker, data, next, done, crashes>>
  BY DEF F!ChoosePath, F!fs
<1>3. p \in Paths
  <2> DEFINE S == {q \in Paths : ~F!Taken(q)}
  <2>1. S \in SUBSET Nat /\ S # {} /\ S \subseteq Paths
    BY <1>2, FileIs
  <2> HIDE DEF S
  <2>2. F!Min(S) \in S
    BY <2>1, MinOf
  <2> QED  BY <2>1, <2>2 DEF S
<1> HIDE DEF p
<1>4. r \in Attempts
  BY <1>1, <1>3 DEF Attempts
<1>5. r.at = "open" /\ r.inode = tr[t].inode
  BY <1>1 DEF Attempts
<1>6. marker' \subseteq Paths
  BY <1>1, <1>2 DEF FileTyped
<1> HIDE DEF r
<1>7. tr[t].at \in Early /\ r.at \in (Early \ {"new"}) \cup {"end"}
  BY <1>2, <1>5 DEF Early
<1> QED  BY <1>2, <1>4, <1>5, <1>6, <1>7, Walks

LEMMA OpenFailsKeeps ==
    ASSUME FileInv, Crossing, NEW t \in Transfers, F!OpenFails(t) PROVE FileInv'
<1> DEFINE r == [tr[t] EXCEPT !.at = "end"]
<1>1. FileTyped /\ tr[t] \in Attempts /\ tr \in [Transfers -> Attempts]
  BY DEF FileInv, FileTyped
<1>2. /\ tr[t].at = "open" /\ marker' \subseteq marker
      /\ tr' = [tr EXCEPT ![t].at = "end"]
      /\ UNCHANGED <<source, sent, heard, partFile, final, data, next, done, crashes>>
  BY DEF F!OpenFails, F!Go
<1>3. tr' = [tr EXCEPT ![t] = r]
  BY <1>1, <1>2
<1>4. r \in Attempts
  BY <1>1 DEF Attempts
<1>5. r.at = "end" /\ r.inode = tr[t].inode
  BY <1>1 DEF Attempts
<1>6. marker' \subseteq Paths
  BY <1>1, <1>2 DEF FileTyped
<1> HIDE DEF r
<1>7. tr[t].at \in Early /\ r.at \in (Early \ {"new"}) \cup {"end"}
  BY <1>2, <1>5 DEF Early
<1> QED  BY <1>2, <1>3, <1>4, <1>5, <1>6, <1>7, Walks

\* A new file takes an inode that no one has; one that exists keeps its own and is cut.
LEMMA OpenNewKeeps ==
    ASSUME FileInv, Crossing, NEW t \in Transfers, F!OpenNew(t) PROVE FileInv'
<1> DEFINE p == tr[t].path
           i == IF partFile[p] = 0 THEN next ELSE partFile[p]
           r == [tr[t] EXCEPT !.at = "body", !.inode = i]
<1>1. /\ FileTyped /\ F!Sharing \subseteq crossed /\ Counted /\ Unopened /\ Homes /\ Writing
      /\ Reported /\ InodesApart
  BY DEF FileInv
<1>2. /\ tr[t].at = "open"
      /\ partFile' = [partFile EXCEPT ![p] = i] /\ data' = [data EXCEPT ![i] = << >>]
      /\ next' = IF partFile[p] = 0 THEN next + 1 ELSE next
      /\ tr' = [tr EXCEPT ![t] = r]
      /\ UNCHANGED <<source, sent, heard, final, marker, done, crashes>>
  BY DEF F!OpenNew, F!NoFile
<1>3. /\ tr[t] \in Attempts /\ p \in Paths /\ partFile \in [Paths -> F!Inodes \cup {0}]
      /\ data \in [F!Inodes -> Blocks] /\ done \in [Transfers -> F!Inodes \cup {0}]
  BY <1>1 DEF FileTyped, Attempts
<1>4. tr[t].inode = 0 /\ heard[t] = << >> /\ done[t] = 0
  BY <1>1, <1>2 DEF Unopened, Reported, Early
<1>5. next \in 1 .. Cardinality(Transfers) /\ next =< Cardinality(Opened) + 1
      /\ Cardinality(Opened) \in Nat /\ Cardinality(Opened \cup {t}) = Cardinality(Opened) + 1
  <2>1. t \notin Opened /\ Opened \cup {t} \subseteq Transfers
    BY <1>4 DEF Opened
  <2>2. Cardinality(Opened \cup {t}) = Cardinality(Opened) + 1
    BY <2>1, OpenedCount, FS_AddElement
  <2>3. Cardinality(Opened \cup {t}) =< Cardinality(Transfers)
    BY <2>1, FileIs, FS_Subset
  <2> QED  BY <1>1, <2>2, <2>3, OpenedCount, FileIs DEF Counted
<1>6. i \in F!Inodes /\ i # 0
  <2>1. next \in F!Inodes /\ next # 0
    BY <1>5, FileIs
  <2>2. partFile[p] \in F!Inodes \cup {0}
    BY <1>3
  <2> QED  BY <2>1, <2>2, FileIs
<1>7. next' \in Nat /\ next' >= next /\ i < next' /\ next' =< Cardinality(Opened) + 2
  <2>1. CASE partFile[p] = 0
    BY <1>2, <1>5, <2>1
  <2>2. CASE partFile[p] # 0
    <3>1. partFile[p] < next
      BY <1>1, <1>3 DEF InodesApart
    <3> QED  BY <1>2, <1>5, <2>2, <3>1
  <2> QED  BY <2>1, <2>2
<1>8. /\ \A q \in Paths : q # p => partFile[q] = 0 \/ partFile[q] # i
      /\ \A u \in Transfers : done[u] # i
  <2>1. CASE partFile[p] = 0
    <3>1. i = next
      BY <2>1
    <3>2. next \in Nat /\ \A q \in Paths : partFile[q] \in Nat /\ partFile[q] < next
      BY <1>1, <1>3, <1>5, FileIs DEF InodesApart
    <3>3. \A u \in Transfers : done[u] \in Nat /\ done[u] < next
      BY <1>1, <1>3, FileIs DEF InodesApart
    <3> QED  BY <3>1, <3>2, <3>3
  <2>2. CASE partFile[p] # 0
    <3>1. i = partFile[p]
      BY <2>2
    <3> QED  BY <1>1, <1>3, <2>2, <3>1 DEF InodesApart
  <2> QED  BY <2>1, <2>2
<1> HIDE DEF i
<1>9. r \in Attempts
  BY <1>3, <1>6 DEF Attempts
<1>10. r.at = "body" /\ r.inode = i /\ r.path = p
  BY <1>3 DEF Attempts
<1> HIDE DEF r
<1>12. /\ tr' \in [Transfers -> Attempts] /\ tr'[t] = r
       /\ \A u \in Transfers : u # t => tr'[u] = tr[u]
  BY <1>1, <1>2, <1>9, Moved
<1>13. << >> \in Blocks
  BY EmptySeq DEF Blocks
<1>14. /\ partFile' \in [Paths -> F!Inodes \cup {0}] /\ data' \in [F!Inodes -> Blocks]
       /\ partFile'[p] = i /\ data'[i] = << >>
       /\ \A q \in Paths : q # p => partFile'[q] = partFile[q]
       /\ \A j \in F!Inodes : j # i => data'[j] = data[j]
  BY <1>2, <1>3, <1>6, <1>13
<1>15. FileTyped'
  BY <1>1, <1>2, <1>12, <1>14 DEF FileTyped
<1>16. Counted'
  <2>1. Opened' = Opened \cup {t}
    BY <1>6, <1>10, <1>12 DEF Opened
  <2>2. next' \in Nat \ {0}
    BY <1>5, <1>7
  <2>3. next' =< Cardinality(Opened \cup {t}) + 1
    BY <1>5, <1>7
  <2> QED  BY <2>1, <2>2, <2>3 DEF Counted
<1>17. Unopened'
  <2>1. r.at \notin Early
    BY <1>10 DEF Early
  <2> QED  BY <1>1, <1>2, <1>12, <2>1 DEF Unopened
<1>11. \A u \in Transfers \ {t} : tr[u].at = "body" => tr[u].inode # i \/ tr[u].path = p
  <2> SUFFICES ASSUME NEW u \in Transfers \ {t}, tr[u].at = "body", tr[u].inode = i
               PROVE  tr[u].path = p
    OBVIOUS
  <2>1. tr[u].inode < next /\ tr[u].inode # next
    BY <1>1, <1>5 DEF Homes
  <2>2. partFile[p] = tr[u].inode
    BY <2>1 DEF i
  <2> QED  BY <1>1, <1>3, <2>2 DEF Homes
<1>18. Homes'
  <2> SUFFICES ASSUME NEW u \in Transfers, tr'[u].at = "body"
               PROVE  /\ tr'[u].inode # 0 /\ tr'[u].inode < next'
                      /\ \A q \in Paths : partFile'[q] = tr'[u].inode => q = tr'[u].path
    BY DEF Homes
  <2>1. CASE u = t
    BY <1>3, <1>6, <1>7, <1>8, <1>10, <1>12, <1>14, <2>1
  <2>2. CASE u # t
    <3>1. tr'[u] = tr[u] /\ tr[u] \in Attempts
      BY <1>1, <1>12, <2>2 DEF FileTyped
    <3>2. /\ tr[u].inode # 0 /\ tr[u].inode < next
          /\ \A q \in Paths : partFile[q] = tr[u].inode => q = tr[u].path
      BY <1>1, <3>1 DEF Homes
    <3>3. tr[u].inode \in Nat /\ next \in Nat
      BY <1>5, <3>1, FileIs DEF Attempts
    <3>4. tr[u].inode < next'
      BY <1>7, <3>2, <3>3
    <3>5. tr[u].inode = i => p = tr[u].path
      BY <1>11, <2>2, <3>1
    <3> QED  BY <1>14, <3>1, <3>2, <3>4, <3>5
  <2> QED  BY <2>1, <2>2
<1>21. Writing'
  <2> SUFFICES ASSUME NEW u \in Transfers \ crossed', tr'[u].at = "body"
               PROVE  /\ partFile'[tr'[u].path] = tr'[u].inode
                      /\ data'[tr'[u].inode] = heard'[u]
    BY DEF Writing
  <2>1. CASE u = t
    BY <1>2, <1>4, <1>6, <1>10, <1>12, <1>14, <2>1
  <2>2. CASE u # t
    <3>1. u \in Transfers \ crossed /\ tr'[u] = tr[u] /\ tr[u].at = "body" /\ tr[u] \in Attempts
      BY <1>1, <1>12, <2>2, Noted DEF FileTyped
    <3>2. tr[u].path # p
      BY <1>1, <1>2, <2>2, <3>1, Alone
    <3>3. tr[u].inode # i
      BY <1>11, <2>2, <3>1, <3>2
    <3>4. partFile[tr[u].path] = tr[u].inode /\ data[tr[u].inode] = heard[u]
      BY <1>1, <3>1 DEF Writing
    <3>5. tr[u].path \in Paths /\ tr[u].inode \in F!Inodes
      BY <1>1, <3>1 DEF Homes, Attempts
    <3> QED  BY <1>2, <1>14, <3>1, <3>2, <3>3, <3>4, <3>5
  <2> QED  BY <2>1, <2>2
<1>19. Reported'
  <2>1. ASSUME NEW u \in Transfers, done[u] # 0 PROVE tr'[u].at = "end"
    BY <1>1, <1>4, <1>12, <2>1 DEF Reported
  <2>2. ASSUME NEW u \in Transfers \ crossed', done[u] # 0 PROVE data'[done[u]] = sent[u]
    <3>1. u \in Transfers \ crossed
      BY Noted
    <3>2. done[u] \in F!Inodes /\ done[u] # i
      BY <1>3, <1>8, <2>2
    <3>3. data[done[u]] = sent[u]
      BY <1>1, <2>2, <3>1 DEF Reported
    <3> QED  BY <1>14, <3>2, <3>3
  <2>3. ASSUME NEW u \in Transfers \ crossed', NEW v \in Transfers, done[u] # 0, tr'[v].at = "body"
        PROVE  tr'[v].inode # done[u]
    <3>1. u \in Transfers \ crossed
      BY Noted
    <3>2. CASE v = t
      BY <1>8, <1>10, <1>12, <3>2
    <3>3. CASE v # t
      BY <1>1, <1>12, <2>3, <3>1, <3>3 DEF Reported
    <3> QED  BY <3>2, <3>3
  <2> QED  BY <1>2, <2>1, <2>2, <2>3 DEF Reported
<1>20. InodesApart'
  <2>1. \A q \in Paths : partFile'[q] < next'
    <3> SUFFICES ASSUME NEW q \in Paths PROVE partFile'[q] < next'
      OBVIOUS
    <3>1. partFile[q] < next /\ partFile[q] \in Nat
      BY <1>1, <1>3, FileIs DEF InodesApart
    <3>2. partFile'[q] = partFile[q] \/ partFile'[q] = i
      BY <1>14
    <3> QED  BY <1>5, <1>7, <3>1, <3>2
  <2>2. \A u \in Transfers : done'[u] < next'
    <3> SUFFICES ASSUME NEW u \in Transfers PROVE done[u] < next'
      BY <1>2
    <3>1. done[u] < next /\ done[u] \in Nat
      BY <1>1, <1>3, FileIs DEF InodesApart
    <3> QED  BY <1>5, <1>7, <3>1
  <2>3. ASSUME NEW q \in Paths, NEW s \in Paths, partFile'[q] # 0, partFile'[q] = partFile'[s]
        PROVE  q = s
    BY <1>1, <1>6, <1>8, <1>14, <2>3 DEF InodesApart
  <2>4. ASSUME NEW q \in Paths, NEW u \in Transfers, partFile'[q] # 0
        PROVE  partFile'[q] # done'[u]
    BY <1>1, <1>2, <1>8, <1>14, <2>4 DEF InodesApart
  <2> QED  BY <2>1, <2>2, <2>3, <2>4 DEF InodesApart
<1> QED  BY <1>15, <1>16, <1>17, <1>18, <1>19, <1>20, <1>21, Noted DEF FileInv

\* Resuming takes the part as it is, and what both sides hash is as long as it.
LEMMA OpenPartKeeps ==
    ASSUME FileInv, Crossing, NEW t \in Transfers, F!OpenPart(t) PROVE FileInv'
<1> DEFINE p == tr[t].path
           i == partFile[p]
           h == [k \in 1 .. Len(data[i]) |-> source]
           r == [tr[t] EXCEPT !.at = "body", !.inode = i]
<1>1. /\ FileTyped /\ F!Sharing \subseteq crossed /\ Counted /\ Unopened /\ Homes /\ Writing
      /\ Reported /\ InodesApart
  BY DEF FileInv
<1>2. /\ tr[t].at = "open" /\ i # 0
      /\ heard' = [heard EXCEPT ![t] = data[i]] /\ sent' = [sent EXCEPT ![t] = h]
      /\ tr' = [tr EXCEPT ![t] = r]
      /\ UNCHANGED <<source, partFile, final, marker, data, next, done, crashes>>
  BY DEF F!OpenPart, F!NoFile, F!fs
<1>3. /\ tr[t] \in Attempts /\ p \in Paths /\ i \in F!Inodes /\ data[i] \in Blocks
      /\ source \in 1 .. MaxVersion
      /\ sent \in [Transfers -> Blocks] /\ heard \in [Transfers -> Blocks]
  BY <1>1, <1>2 DEF FileTyped, Attempts
<1>4. done[t] = 0 /\ tr[t].inode = 0
  BY <1>1, <1>2 DEF Reported, Unopened, Early
<1>5. h \in Blocks /\ Len(h) = Len(data[i])
  <2>1. Len(data[i]) \in Nat
    BY <1>3, LenProperties DEF Blocks
  <2>2. h \in [1 .. Len(data[i]) -> 0 .. MaxVersion]
    BY <1>3
  <2> HIDE DEF h
  <2>3. h \in Seq(0 .. MaxVersion)
    BY <2>1, <2>2, SeqDef
  <2>4. DOMAIN h = 1 .. Len(data[i]) /\ DOMAIN h = 1 .. Len(h) /\ Len(h) \in Nat
    BY <2>2, <2>3, LenProperties
  <2> QED  BY <2>1, <2>3, <2>4 DEF Blocks
<1> HIDE DEF h
<1>9. r \in Attempts
  BY <1>3 DEF Attempts
<1>10. r.at = "body" /\ r.inode = i /\ r.path = p
  BY <1>3 DEF Attempts
<1> HIDE DEF r
<1>12. /\ tr' \in [Transfers -> Attempts] /\ tr'[t] = r
       /\ \A u \in Transfers : u # t => tr'[u] = tr[u]
  BY <1>1, <1>2, <1>9, Moved
<1>13. /\ heard' \in [Transfers -> Blocks] /\ sent' \in [Transfers -> Blocks]
       /\ heard'[t] = data[i] /\ sent'[t] = h
       /\ \A u \in Transfers : u # t => heard'[u] = heard[u] /\ sent'[u] = sent[u]
  BY <1>2, <1>3, <1>5
<1>14. \A u \in Transfers : Len(sent'[u]) = Len(heard'[u])
  <2> SUFFICES ASSUME NEW u \in Transfers PROVE Len(sent'[u]) = Len(heard'[u])
    OBVIOUS
  <2>1. CASE u = t
    BY <1>5, <1>13, <2>1
  <2>2. CASE u # t
    BY <1>1, <1>13, <2>2 DEF FileTyped
  <2> QED  BY <2>1, <2>2
<1>15. FileTyped'
  BY <1>1, <1>2, <1>12, <1>13, <1>14 DEF FileTyped
<1>16. Counted'
  <2>1. Opened' = Opened \cup {t} /\ t \notin Opened
    BY <1>2, <1>4, <1>10, <1>12 DEF Opened
  <2>2. Cardinality(Opened \cup {t}) = Cardinality(Opened) + 1
    BY <2>1, OpenedCount, FS_AddElement
  <2>3. next \in Nat \ {0} /\ next =< Cardinality(Opened) + 1
    BY <1>1 DEF Counted
  <2>4. next =< Cardinality(Opened \cup {t}) + 1
    BY <2>2, <2>3, OpenedCount
  <2> QED  BY <1>2, <2>1, <2>3, <2>4 DEF Counted
<1>17. Unopened'
  <2>1. r.at \notin Early
    BY <1>10 DEF Early
  <2> QED  BY <1>1, <1>12, <1>13, <2>1 DEF Unopened
<1>18. Homes'
  <2> SUFFICES ASSUME NEW u \in Transfers, tr'[u].at = "body"
               PROVE  /\ tr'[u].inode # 0 /\ tr'[u].inode < next
                      /\ \A q \in Paths : partFile[q] = tr'[u].inode => q = tr'[u].path
    BY <1>2 DEF Homes
  <2>1. CASE u = t
    BY <1>1, <1>2, <1>3, <1>10, <1>12, <2>1 DEF InodesApart
  <2>2. CASE u # t
    BY <1>1, <1>12, <2>2 DEF Homes
  <2> QED  BY <2>1, <2>2
<1>21. Writing'
  <2> SUFFICES ASSUME NEW u \in Transfers \ crossed', tr'[u].at = "body"
               PROVE  /\ partFile'[tr'[u].path] = tr'[u].inode
                      /\ data'[tr'[u].inode] = heard'[u]
    BY DEF Writing
  <2>1. CASE u = t
    BY <1>2, <1>10, <1>12, <1>13, <2>1
  <2>2. CASE u # t
    <3>1. u \in Transfers \ crossed /\ tr'[u] = tr[u]
      BY <1>12, <2>2, Noted
    <3> QED  BY <1>1, <1>2, <1>13, <2>2, <3>1 DEF Writing
  <2> QED  BY <2>1, <2>2
<1>19. Reported'
  <2>1. ASSUME NEW u \in Transfers, done[u] # 0 PROVE tr'[u].at = "end"
    BY <1>1, <1>4, <1>12, <2>1 DEF Reported
  <2>2. ASSUME NEW u \in Transfers \ crossed', done[u] # 0 PROVE data[done[u]] = sent'[u]
    BY <1>1, <1>4, <1>13, <2>2, Noted DEF Reported
  <2>3. ASSUME NEW u \in Transfers \ crossed', NEW v \in Transfers, done[u] # 0, tr'[v].at = "body"
        PROVE  tr'[v].inode # done[u]
    <3>1. u \in Transfers \ crossed
      BY Noted
    <3>2. CASE v = t
      BY <1>1, <1>2, <1>3, <1>10, <1>12, <3>2 DEF InodesApart
    <3>3. CASE v # t
      BY <1>1, <1>12, <2>3, <3>1, <3>3 DEF Reported
    <3> QED  BY <3>2, <3>3
  <2> QED  BY <1>2, <2>1, <2>2, <2>3 DEF Reported
<1>20. InodesApart'
  BY <1>1, <1>2 DEF InodesApart
<1> QED  BY <1>15, <1>16, <1>17, <1>18, <1>19, <1>20, <1>21, Noted DEF FileInv

\* A block goes to what was sent and what was heard, and into the part: to its
\* end, of a transfer that has its path alone.
LEMMA BlockKeeps ==
    ASSUME FileInv, Crossing, NEW t \in Transfers, F!Block(t) PROVE FileInv'
<1> DEFINE i == tr[t].inode
           d == IF tr[t].append THEN Append(data[i], source)
                                ELSE F!Put(data[i], Len(heard[t]) + 1, source)
<1>1. /\ FileTyped /\ F!Sharing \subseteq crossed /\ Counted /\ Unopened /\ Homes /\ Writing
      /\ Reported /\ InodesApart
  BY DEF FileInv
<1>2. /\ tr[t].at = "body"
      /\ sent' = [sent EXCEPT ![t] = Append(sent[t], source)]
      /\ heard' = [heard EXCEPT ![t] = Append(heard[t], source)]
      /\ data' = [data EXCEPT ![i] = d]
      /\ UNCHANGED <<source, tr, partFile, final, marker, next, done, crashes>>
  BY DEF F!Block
<1>3. tr[t] \in Attempts /\ i \in F!Inodes /\ i # 0 /\ tr[t].path \in Paths
  BY <1>1, <1>2 DEF FileTyped, Homes, Attempts
<1>4. /\ source \in 1 .. MaxVersion /\ source \in 0 .. MaxVersion /\ data \in [F!Inodes -> Blocks]
      /\ sent \in [Transfers -> Blocks] /\ heard \in [Transfers -> Blocks]
      /\ data[i] \in Blocks /\ sent[t] \in Blocks /\ heard[t] \in Blocks
  BY <1>1, <1>3 DEF FileTyped
<1>5. /\ Append(sent[t], source) \in Blocks /\ Append(heard[t], source) \in Blocks
      /\ Append(data[i], source) \in Blocks /\ Len(heard[t]) \in Nat
      /\ Len(Append(sent[t], source)) = Len(sent[t]) + 1
      /\ Len(Append(heard[t], source)) = Len(heard[t]) + 1
  BY <1>4, AppendProperties, LenProperties DEF Blocks
<1>6. d \in Blocks
  BY <1>4, <1>5, PutTyped
<1>7. t \notin crossed => data[i] = heard[t] /\ d = Append(heard[t], source)
  <2> SUFFICES ASSUME t \notin crossed PROVE data[i] = heard[t] /\ d = Append(heard[t], source)
    OBVIOUS
  <2>1. data[i] = heard[t]
    BY <1>1, <1>2 DEF Writing
  <2>2. F!Put(data[i], Len(heard[t]) + 1, source) = Append(heard[t], source)
    BY <1>4, <2>1, PutAppends
  <2> QED  BY <2>1, <2>2
<1> HIDE DEF i, d
<1>8. /\ heard' \in [Transfers -> Blocks] /\ sent' \in [Transfers -> Blocks]
      /\ data' \in [F!Inodes -> Blocks]
  <2>1. heard' \in [Transfers -> Blocks]
    BY <1>2, <1>4, <1>5
  <2>2. sent' \in [Transfers -> Blocks]
    BY <1>2, <1>4, <1>5
  <2>3. data' \in [F!Inodes -> Blocks]
    BY <1>2, <1>4, <1>6
  <2> QED  BY <2>1, <2>2, <2>3
<1>9. /\ heard'[t] = Append(heard[t], source) /\ sent'[t] = Append(sent[t], source)
      /\ data'[i] = d
      /\ \A u \in Transfers : u # t => heard'[u] = heard[u] /\ sent'[u] = sent[u]
      /\ \A j \in F!Inodes : j # i => data'[j] = data[j]
  BY <1>2, <1>3, <1>4
<1>10. \A u \in Transfers : Len(sent'[u]) = Len(heard'[u])
  <2> SUFFICES ASSUME NEW u \in Transfers PROVE Len(sent'[u]) = Len(heard'[u])
    OBVIOUS
  <2>1. Len(sent[u]) = Len(heard[u])
    BY <1>1 DEF FileTyped
  <2>2. CASE u = t
    BY <1>5, <1>9, <2>1, <2>2
  <2>3. CASE u # t
    BY <1>9, <2>1, <2>3
  <2> QED  BY <2>2, <2>3
<1>11. FileTyped'
  BY <1>1, <1>2, <1>8, <1>10 DEF FileTyped
<1>12. Counted'
  <2>1. Opened' = Opened
    BY <1>2 DEF Opened
  <2> QED  BY <1>1, <1>2, <2>1 DEF Counted
<1>13. Unopened'
  BY <1>1, <1>2, <1>9 DEF Unopened, Early
<1>14. Homes'
  BY <1>1, <1>2 DEF Homes
<1>15. Writing'
  <2> SUFFICES ASSUME NEW u \in Transfers \ crossed', tr[u].at = "body"
               PROVE  /\ partFile[tr[u].path] = tr[u].inode
                      /\ data'[tr[u].inode] = heard'[u]
    BY <1>2 DEF Writing
  <2>1. u \in Transfers \ crossed
    BY Noted
  <2>2. partFile[tr[u].path] = tr[u].inode /\ data[tr[u].inode] = heard[u]
    BY <1>1, <2>1 DEF Writing
  <2>3. CASE u = t
    BY <1>7, <1>9, <2>1, <2>2, <2>3 DEF i
  <2>4. CASE u # t
    <3>1. tr[u].path \in Paths /\ tr[u].inode \in F!Inodes
      BY <1>1 DEF FileTyped, Homes, Attempts
    <3>2. tr[u].inode = i => tr[u].path = tr[t].path
      BY <1>1, <1>2, <2>2, <3>1 DEF Homes, i
    <3>3. tr[u].path # tr[t].path
      BY <1>1, <1>2, <2>1, <2>4, Alone
    <3> QED  BY <1>9, <2>2, <2>4, <3>1, <3>2, <3>3
  <2> QED  BY <2>3, <2>4
<1>16. Reported'
  <2>1. ASSUME NEW u \in Transfers \ crossed', done[u] # 0 PROVE data'[done[u]] = sent'[u]
    <3>1. u \in Transfers \ crossed /\ done[u] \in F!Inodes
      BY <1>1, <2>1, Noted DEF FileTyped
    <3>2. tr[u].at = "end" /\ data[done[u]] = sent[u] /\ i # done[u]
      BY <1>1, <1>2, <2>1, <3>1 DEF Reported, i
    <3>3. u # t
      BY <1>2, <3>2
    <3> QED  BY <1>9, <3>1, <3>2, <3>3
  <2> QED  BY <1>1, <1>2, <2>1, Noted DEF Reported
<1>17. InodesApart'
  BY <1>1, <1>2 DEF InodesApart
<1> QED  BY <1>11, <1>12, <1>13, <1>14, <1>15, <1>16, <1>17, Noted DEF FileInv

\* An attempt ends: its part goes or stays, and what it reports was the part of its path,
\* and is under no part's name any more.
LEMMA Ends ==
    ASSUME FileInv, Crossing, NEW t \in Transfers, tr[t].at = "body",
           tr' = [tr EXCEPT ![t].at = "end"],
           partFile' = [partFile EXCEPT ![tr[t].path] = 0] \/ partFile' = partFile,
           final' \in [Paths -> F!Inodes \cup {0}], marker' \subseteq Paths,
           \/ done' = done
           \/ /\ done' = [done EXCEPT ![t] = partFile[tr[t].path]] /\ sent[t] = heard[t]
              /\ partFile' = [partFile EXCEPT ![tr[t].path] = 0],
           UNCHANGED <<source, sent, heard, data, next, crashes>>
    PROVE  FileInv'
<1> DEFINE r == [tr[t] EXCEPT !.at = "end"]
           p == tr[t].path
           i == partFile[p]
<1>1. /\ FileTyped /\ F!Sharing \subseteq crossed /\ Counted /\ Unopened /\ Homes /\ Writing
      /\ Reported /\ InodesApart
  BY DEF FileInv
<1>2. /\ tr[t] \in Attempts /\ tr \in [Transfers -> Attempts] /\ p \in Paths
      /\ i \in F!Inodes \cup {0}
      /\ partFile \in [Paths -> F!Inodes \cup {0}] /\ done \in [Transfers -> F!Inodes \cup {0}]
  BY <1>1 DEF FileTyped, Attempts
<1>3. r \in Attempts /\ r.at = "end" /\ r.inode = tr[t].inode
  BY <1>2 DEF Attempts
<1>4. tr' = [tr EXCEPT ![t] = r]
  BY <1>2
<1>5. t \notin crossed => i = tr[t].inode /\ data[i] = heard[t]
  BY <1>1 DEF Writing
<1>6. \/ partFile' = [partFile EXCEPT ![p] = 0]
      \/ partFile' = partFile
  OBVIOUS
<1>7. \/ done' = done
      \/ /\ done' = [done EXCEPT ![t] = i] /\ sent[t] = heard[t] /\ partFile'[p] = 0
  BY <1>2
<1> HIDE DEF r, i
<1>8. /\ tr' \in [Transfers -> Attempts] /\ tr'[t] = r
      /\ \A u \in Transfers : u # t => tr'[u] = tr[u]
  BY <1>1, <1>3, <1>4, Moved
<1>9. /\ partFile' \in [Paths -> F!Inodes \cup {0}]
      /\ \A q \in Paths : partFile'[q] \in {0, partFile[q]}
      /\ \A q \in Paths : q # p => partFile'[q] = partFile[q]
  BY <1>2, <1>6
<1>10. /\ done' \in [Transfers -> F!Inodes \cup {0}]
       /\ \A u \in Transfers : u # t => done'[u] = done[u]
       /\ done'[t] \in {done[t], i} /\ done[t] = 0
       /\ done'[t] # 0 => done'[t] = i /\ sent[t] = heard[t] /\ partFile'[p] = 0
  <2>1. done[t] = 0
    BY <1>1 DEF Reported
  <2> QED  BY <1>2, <1>7, <2>1
<1>11. FileTyped'
  BY <1>1, <1>8, <1>9, <1>10 DEF FileTyped
<1>12. Counted'
  <2>1. Opened' = Opened
    BY <1>3, <1>8 DEF Opened
  <2> QED  BY <1>1, <2>1 DEF Counted
<1>13. Unopened'
  <2>1. r.at \notin Early
    BY <1>3 DEF Early
  <2> QED  BY <1>1, <1>8, <2>1 DEF Unopened
<1>14. \A u \in Transfers : tr'[u].at = "body" => u # t /\ tr'[u] = tr[u] /\ tr[u].at = "body"
  BY <1>3, <1>8
<1>15. Homes'
  <2> SUFFICES ASSUME NEW u \in Transfers, tr'[u].at = "body"
               PROVE  /\ tr'[u].inode # 0 /\ tr'[u].inode < next
                      /\ \A q \in Paths : partFile'[q] = tr'[u].inode => q = tr'[u].path
    BY DEF Homes
  <2>1. /\ tr'[u] = tr[u] /\ tr[u].inode # 0 /\ tr[u].inode < next
        /\ \A q \in Paths : partFile[q] = tr[u].inode => q = tr[u].path
    BY <1>1, <1>14 DEF Homes
  <2> QED  BY <1>9, <2>1
<1>16. Writing'
  <2> SUFFICES ASSUME NEW u \in Transfers \ crossed', tr'[u].at = "body"
               PROVE  partFile'[tr'[u].path] = tr'[u].inode /\ data[tr'[u].inode] = heard[u]
    BY DEF Writing
  <2>1. u \in Transfers \ crossed /\ u # t /\ tr'[u] = tr[u] /\ tr[u].at = "body"
    BY <1>14, Noted
  <2>2. tr[u].path # p
    BY <1>1, <2>1, Alone
  <2>3. tr[u].path \in Paths
    BY <1>1 DEF FileTyped, Attempts
  <2> QED  BY <1>1, <1>9, <2>1, <2>2, <2>3 DEF Writing
<1>17. Reported'
  <2>1. ASSUME NEW u \in Transfers, done'[u] # 0 PROVE tr'[u].at = "end"
    BY <1>1, <1>3, <1>8, <1>10, <2>1 DEF Reported
  <2>2. ASSUME NEW u \in Transfers \ crossed', done'[u] # 0 PROVE data[done'[u]] = sent[u]
    <3>1. u \in Transfers \ crossed
      BY Noted
    <3>2. CASE u = t
      BY <1>5, <1>10, <2>2, <3>1, <3>2
    <3>3. CASE u # t
      BY <1>1, <1>10, <2>2, <3>1, <3>3 DEF Reported
    <3> QED  BY <3>2, <3>3
  <2>3. ASSUME NEW u \in Transfers \ crossed', NEW v \in Transfers, done'[u] # 0, tr'[v].at = "body"
        PROVE  tr'[v].inode # done'[u]
    <3>1. u \in Transfers \ crossed /\ v # t /\ tr'[v] = tr[v] /\ tr[v].at = "body"
      BY <1>14, <2>3, Noted
    <3>2. CASE u = t
      <4>1. done'[u] = i
        BY <1>10, <2>3, <3>2
      <4>2. tr[v].inode = i => tr[v].path = p
        BY <1>1, <1>2, <3>1 DEF Homes, i
      <4>3. tr[v].path # p
        BY <1>1, <3>1, <3>2, Alone
      <4> QED  BY <3>1, <4>1, <4>2, <4>3
    <3>3. CASE u # t
      BY <1>1, <1>10, <2>3, <3>1, <3>3 DEF Reported
    <3> QED  BY <3>2, <3>3
  <2> QED  BY <2>1, <2>2, <2>3 DEF Reported
<1>18. InodesApart'
  <2>1. \A q \in Paths : partFile'[q] < next
    <3> SUFFICES ASSUME NEW q \in Paths PROVE partFile'[q] < next
      OBVIOUS
    <3>1. partFile[q] < next /\ next \in Nat \ {0}
      BY <1>1 DEF InodesApart, Counted
    <3> QED  BY <1>9, <3>1
  <2>2. \A u \in Transfers : done'[u] < next
    <3>1. i < next /\ \A u \in Transfers : done[u] < next
      BY <1>1, <1>2 DEF InodesApart, i
    <3> QED  BY <1>10, <3>1
  <2>3. ASSUME NEW q \in Paths, NEW s \in Paths, partFile'[q] # 0, partFile'[q] = partFile'[s]
        PROVE  q = s
    <3>1. partFile'[q] = partFile[q] /\ partFile'[s] = partFile[s]
      BY <1>9, <2>3
    <3> QED  BY <1>1, <2>3, <3>1 DEF InodesApart
  <2>4. ASSUME NEW q \in Paths, NEW u \in Transfers, partFile'[q] # 0
        PROVE  partFile'[q] # done'[u]
    <3>1. partFile'[q] = partFile[q] /\ partFile[q] # 0
      BY <1>9, <2>4
    <3>2. CASE done'[u] = done[u]
      BY <1>1, <3>1, <3>2 DEF InodesApart
    <3>3. CASE done'[u] # done[u]
      <4>1. u = t /\ done'[t] = i /\ partFile'[p] = 0
        BY <1>10, <3>3
      <4>2. q # p
        BY <2>4, <4>1
      <4> QED  BY <1>1, <1>2, <3>1, <4>1, <4>2 DEF InodesApart, i
    <3> QED  BY <3>2, <3>3
  <2> QED  BY <2>1, <2>2, <2>3, <2>4 DEF InodesApart
<1> QED  BY <1>11, <1>12, <1>13, <1>15, <1>16, <1>17, <1>18, Noted DEF FileInv

LEMMA FinishKeeps == ASSUME FileInv, Crossing, NEW t \in Transfers, F!Finish(t) PROVE FileInv'
<1> DEFINE p == tr[t].path
<1>1. FileTyped
  BY DEF FileInv
<1>2. /\ tr[t].at = "body" /\ sent[t] = heard[t]
      /\ final' = [final EXCEPT ![p] = partFile[p]] /\ partFile' = [partFile EXCEPT ![p] = 0]
      /\ marker' = marker \ {p} /\ done' = [done EXCEPT ![t] = partFile[p]]
      /\ tr' = [tr EXCEPT ![t].at = "end"]
      /\ UNCHANGED <<source, sent, heard, data, next, crashes>>
  BY DEF F!Finish, F!Complete, F!Go, F!NoFile
<1>3. p \in Paths
  BY <1>1, <1>2 DEF FileTyped, Attempts
<1>4. final' \in [Paths -> F!Inodes \cup {0}] /\ marker' \subseteq Paths
  BY <1>1, <1>2, <1>3 DEF FileTyped
<1> QED  BY <1>2, <1>4, Ends

LEMMA MismatchKeeps == ASSUME FileInv, Crossing, NEW t \in Transfers, F!Mismatch(t) PROVE FileInv'
<1>1. FileTyped
  BY DEF FileInv
<1>2. /\ tr[t].at = "body" /\ partFile' = [partFile EXCEPT ![tr[t].path] = 0]
      /\ marker' \subseteq marker /\ tr' = [tr EXCEPT ![t].at = "end"]
      /\ UNCHANGED <<source, sent, heard, final, data, next, done, crashes>>
  BY DEF F!Mismatch, F!Complete, F!Go, F!NoFile
<1>3. final' \in [Paths -> F!Inodes \cup {0}] /\ marker' \subseteq Paths
  BY <1>1, <1>2 DEF FileTyped
<1> QED  BY <1>2, <1>3, Ends

LEMMA BreakOffKeeps == ASSUME FileInv, Crossing, NEW t \in Transfers, F!BreakOff(t) PROVE FileInv'
<1>1. FileTyped
  BY DEF FileInv
<1>2. /\ tr[t].at = "body"
      /\ partFile' = [partFile EXCEPT ![tr[t].path] = 0] \/ partFile' = partFile
      /\ marker' \subseteq marker \cup {tr[t].path} /\ tr' = [tr EXCEPT ![t].at = "end"]
      /\ UNCHANGED <<source, sent, heard, final, data, next, done, crashes>>
  BY DEF F!BreakOff, F!Go, F!NoFile
<1>3. tr[t].path \in Paths
  BY <1>1 DEF FileTyped, Attempts
<1>4. final' \in [Paths -> F!Inodes \cup {0}] /\ marker' \subseteq Paths
  BY <1>1, <1>2, <1>3 DEF FileTyped
<1> QED  BY <1>2, <1>4, Ends

\* The daemon ends with the attempts it had; parts stay as they are.
LEMMA CrashKeeps == ASSUME FileInv, Crossing, F!Crash PROVE FileInv'
<1> DEFINE over(t) == [tr[t] EXCEPT !.at = "end"]
<1>1. /\ FileTyped /\ F!Sharing \subseteq crossed /\ Counted /\ Unopened /\ Homes /\ Writing
      /\ Reported /\ InodesApart
  BY DEF FileInv
<1>2. /\ crashes < 1 /\ crashes' = crashes + 1
      /\ tr' = [t \in Transfers |-> IF t \in F!Active THEN over(t) ELSE tr[t]]
      /\ UNCHANGED <<source, sent, heard, partFile, final, marker, data, next, done>>
  BY DEF F!Crash, F!fs
<1>3. \A t \in Transfers : /\ over(t) \in Attempts /\ over(t).at = "end"
                           /\ over(t).inode = tr[t].inode /\ tr[t] \in Attempts
  BY <1>1 DEF FileTyped, Attempts
<1> HIDE DEF over
<1>4. /\ tr' \in [Transfers -> Attempts]
      /\ \A t \in Transfers : tr'[t].at = "end" \/ tr'[t] = tr[t]
      /\ \A t \in Transfers : tr'[t].inode = tr[t].inode /\ tr'[t].at \in {"new", "end"}
  <2>1. \A t \in Transfers : tr'[t] = IF t \in F!Active THEN over(t) ELSE tr[t]
    BY <1>2
  <2> QED  BY <1>2, <1>3, <2>1 DEF F!Active
<1>5. crashes' \in 0 .. 1
  BY <1>1, <1>2 DEF FileTyped
<1>6. FileTyped'
  BY <1>1, <1>2, <1>4, <1>5 DEF FileTyped
<1>7. Homes'
  BY <1>4 DEF Homes
<1>8. Counted'
  <2>1. Opened' = Opened
    BY <1>4 DEF Opened
  <2> QED  BY <1>1, <1>2, <2>1 DEF Counted
<1>9. Unopened'
  BY <1>1, <1>2, <1>4 DEF Unopened, Early
<1>10. Writing'
  BY <1>4 DEF Writing
<1>11. Reported'
  BY <1>1, <1>2, <1>4, Noted DEF Reported
<1>12. InodesApart'
  BY <1>1, <1>2 DEF InodesApart
<1> QED  BY <1>6, <1>7, <1>8, <1>9, <1>10, <1>11, <1>12, Noted DEF FileInv

\* The source changes, or another part of the device moves.
LEMMA FilesStand ==
    ASSUME FileInv, source' \in 1 .. MaxVersion, F!Sharing' \subseteq crossed', crossed \subseteq crossed',
           UNCHANGED <<tr, sent, heard, partFile, final, marker, data, next, done, crashes>>
    PROVE  FileInv'
BY DEF FileInv, FileTyped, Counted, Opened, Unopened, Homes, Writing, Reported, InodesApart

LEMMA SourceChangeKeeps == ASSUME FileInv, Crossing, F!SourceChange PROVE FileInv'
<1>1. /\ source < MaxVersion /\ source' = source + 1
      /\ UNCHANGED <<tr, sent, heard, partFile, final, marker, data, next, done, crashes>>
  BY DEF F!SourceChange, F!fs
<1>2. source \in 1 .. MaxVersion
  BY DEF FileInv, FileTyped
<1>3. source' \in 1 .. MaxVersion
  BY <1>1, <1>2, FileIs
<1> QED  BY <1>1, <1>3, FilesStand, Noted

LEMMA FileInit == DeviceInit => FileInv
<1> SUFFICES ASSUME DeviceInit PROVE FileInv
  OBVIOUS
<1> DEFINE r == F!Fresh
<1>1. F!Init
  BY DEF DeviceInit
<1>2. r \in Attempts /\ r.at = "new" /\ r.inode = 0
  BY FileIs DEF F!Fresh, F!NoFile, Attempts
<1>3. tr = [t \in Transfers |-> r]
  BY <1>1 DEF F!Init
<1> HIDE DEF r
<1>4. tr \in [Transfers -> Attempts] /\ \A t \in Transfers : tr[t].at = "new" /\ tr[t].inode = 0
  BY <1>2, <1>3
<1>5. << >> \in Blocks
  BY EmptySeq DEF Blocks
<1>6. FileTyped
  BY <1>1, <1>4, <1>5, FileIs DEF F!Init, F!NoFile, FileTyped
<1>7. F!Sharing = {} /\ Homes
  BY <1>4 DEF F!Sharing, F!Placed, Homes
<1>8. Counted
  BY <1>1, OpenedCount DEF F!Init, Counted
<1>9. Unopened /\ Writing
  BY <1>1, <1>4 DEF F!Init, Unopened, Writing
<1>10. Reported /\ InodesApart
  BY <1>1 DEF F!Init, F!NoFile, Reported, InodesApart
<1> QED  BY <1>6, <1>7, <1>8, <1>9, <1>10 DEF FileInv

(* For any number of transfers, paths, blocks and versions of the source,  *)
(* and however many run at one time, a file reported complete is block for *)
(* block what the sender hashed in that transfer, whether it went on from  *)
(* an earlier part or not (receive_body); but for transfers that had one   *)
(* path at one time, of which the model has a counterexample.              *)
THEOREM WhatIsReportedIsVerified == DeviceSpec => []Verified
<1>1. DeviceInit => FileInv
  BY FileInit
<1>2. FileInv /\ [DeviceNext]_allVars => FileInv'
  <2> SUFFICES ASSUME FileInv, [DeviceNext]_allVars PROVE FileInv'
    OBVIOUS
  <2>1. F!Next \/ UNCHANGED fileState
    BY DEF DeviceNext, LinkStep, KeyStep, FileStep, allVars
  <2>2. CASE UNCHANGED fileState
    <3>1. /\ UNCHANGED <<source, tr, sent, heard, partFile, final, marker, data, next, done, crashes>>
          /\ crossed' = crossed
      BY <2>2 DEF fileState
    <3>2. F!Sharing' = F!Sharing
      BY <3>1 DEF F!Sharing, F!Placed
    <3> QED  BY <3>1, <3>2, FilesStand DEF FileInv, FileTyped
  <2>3. CASE F!Next
    <3>1. Crossing
      BY <2>3 DEF F!Next, Crossing
    <3>2. CASE \E t \in Transfers : F!Attempt(t)
      BY <3>1, <3>2, OfferKeeps, FindMarkerKeeps, TakeMarkerKeeps, ChoosePathKeeps, OpenNewKeeps,
         OpenPartKeeps, OpenFailsKeeps, BlockKeeps, FinishKeeps, MismatchKeeps, BreakOffKeeps
         DEF F!Attempt
    <3> QED  BY <2>3, <3>1, <3>2, SourceChangeKeeps, CrashKeeps DEF F!Next
  <2> QED  BY <2>1, <2>2, <2>3
<1>3. FileInv => Verified
  <2> SUFFICES ASSUME FileInv PROVE Verified
    OBVIOUS
  <2>1. FileTyped /\ Reported
    BY DEF FileInv
  <2>2. F!TypeOK
    BY <2>1 DEF FileTyped, Attempts, F!TypeOK, F!NoFile
  <2>3. F!Verified
    BY <2>1 DEF Reported, F!Verified, F!NoFile
  <2> QED  BY <2>2, <2>3 DEF Verified
<1> QED  BY <1>1, <1>2, <1>3, PTL DEF DeviceSpec
=============================================================================
