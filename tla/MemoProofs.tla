----------------------------- MODULE MemoProofs -----------------------------
(***************************************************************************)
(* How shared memos are stored and reach a member, for any number of       *)
(* members, memos, sheets, editors and openers.  Of each part of MCShared: *)
(* its inductive invariant, that it holds at first (Starts), that every    *)
(* step keeps it (Keeps), and what it gives (Gives).  SharedProofs has the *)
(* other parts and puts them together.                                     *)
(***************************************************************************)
EXTENDS MCShared, SequenceTheorems, FiniteSetTheorems, WellFoundedInduction, TLAPS

-----------------------------------------------------------------------------
(* The feed of a memo: s1 is the memo, s2 the membership, s3 what the      *)
(* watcher saw of it, s4 the tasks, s5 the wire, s6 the connection, s7 the *)
(* synchronising task, s8 the cache, s9 whether all is quiet, s10 the      *)
(* counts.                                                                 *)

FeedMsgs == [k : F!Kinds, rev : 0 .. MaxChange + 1, edit : BOOLEAN]
FeedRows == [rev : 0 .. MaxChange + 1, edit : BOOLEAN]

FeedTyped == F!TypeOK /\ s1.rev <= s10.change + 1

LEMMA FeedNought == 0 \in 0 .. MaxChange + 1 /\ 0 \in 0 .. MaxChange
BY SharedAssumption

LEMMA FeedMsgIs ==
    ASSUME NEW k \in F!Kinds, NEW r \in 0 .. MaxChange + 1, NEW e \in BOOLEAN
    PROVE  F!Msg(k, r, e) \in FeedMsgs
BY DEF F!Msg, FeedMsgs

LEMMA FeedViewIs ==
    ASSUME FeedTyped, NEW g \in BOOLEAN
    PROVE  F!View(g) \in FeedRows
<1>1. MaxChange \in Nat
  BY SharedAssumption
<1> QED  BY <1>1 DEF FeedTyped, F!TypeOK, F!View, F!Sees, F!Absent, FeedRows

\* A change counts and leaves a task behind.
LEMMA FeedChange ==
    ASSUME FeedTyped, F!Change
    PROVE  /\ s10' \in [change : 0 .. MaxChange, connect : 0 .. MaxConnect]
           /\ s10'.change = s10.change + 1 /\ s10.change + 1 <= MaxChange
           /\ s9' = FALSE
<1>1. s10 \in [change : 0 .. MaxChange, connect : 0 .. MaxConnect] /\ MaxChange \in Nat
  BY SharedAssumption DEF FeedTyped, F!TypeOK
<1>2. s10.change < MaxChange /\ s10' = [s10 EXCEPT !.change = s10.change + 1] /\ s9' = FALSE
  BY Zenon DEF F!Change
<1> QED  BY <1>1, <1>2

FeedTasksAre == [FeedTasks -> [at : {"free", "start", "loaded", "changed", "removed"},
                               rev : 0 .. MaxChange + 1, edit : BOOLEAN]]

LEMMA FeedSpawn ==
    ASSUME FeedTyped, NEW x \in {F!Start, [at |-> "removed", rev |-> 0, edit |-> FALSE]},
           F!Spawn(x)
    PROVE  s4' \in FeedTasksAre
<1>1. x \in [at : {"free", "start", "loaded", "changed", "removed"},
             rev : 0 .. MaxChange + 1, edit : BOOLEAN]
  <2>1. F!Start \in [at : {"free", "start", "loaded", "changed", "removed"},
                     rev : 0 .. MaxChange + 1, edit : BOOLEAN]
    BY FeedNought DEF F!Start
  <2>2. [at |-> "removed", rev |-> 0, edit |-> FALSE]
          \in [at : {"free", "start", "loaded", "changed", "removed"},
              rev : 0 .. MaxChange + 1, edit : BOOLEAN]
    BY FeedNought
  <2> QED  BY <2>1, <2>2
<1>2. s4 \in FeedTasksAre
  BY DEF FeedTyped, F!TypeOK, FeedTasksAre
<1> QED  BY <1>1, <1>2 DEF F!Spawn, FeedTasksAre

LEMMA FeedTypeStep == FeedTyped /\ F!Next => FeedTyped'
<1> SUFFICES ASSUME FeedTyped, F!Next PROVE FeedTyped'
  OBVIOUS
<1>1. /\ MaxChange \in Nat /\ MaxConnect \in Nat
      /\ s1 \in [rev : 1 .. MaxChange + 1, live : BOOLEAN, grant : BOOLEAN, edit : BOOLEAN]
      /\ s2 \in BOOLEAN /\ s3 \in BOOLEAN /\ s6 \in BOOLEAN /\ s9 \in BOOLEAN
      /\ s4 \in FeedTasksAre /\ s5 \in Seq(FeedMsgs) /\ s7 \in FeedMsgs /\ s8 \in FeedRows
      /\ s10 \in [change : 0 .. MaxChange, connect : 0 .. MaxConnect]
      /\ s1.rev <= s10.change + 1
  BY SharedAssumption DEF FeedTyped, F!TypeOK, FeedTasksAre, FeedMsgs, FeedRows
<1>2. SUFFICES
      /\ s1' \in [rev : 1 .. MaxChange + 1, live : BOOLEAN, grant : BOOLEAN, edit : BOOLEAN]
      /\ s2' \in BOOLEAN /\ s3' \in BOOLEAN /\ s6' \in BOOLEAN /\ s9' \in BOOLEAN
      /\ s4' \in FeedTasksAre /\ s5' \in Seq(FeedMsgs) /\ s7' \in FeedMsgs /\ s8' \in FeedRows
      /\ s10' \in [change : 0 .. MaxChange, connect : 0 .. MaxConnect]
      /\ s1'.rev <= s10'.change + 1
  BY DEF FeedTyped, F!TypeOK, FeedTasksAre, FeedMsgs, FeedRows
<1>3. CASE F!Write
  <2>1. F!Start \in {F!Start, [at |-> "removed", rev |-> 0, edit |-> FALSE]} /\ F!Spawn(F!Start)
    BY <1>3 DEF F!Write
  <2>2. s4' \in FeedTasksAre
    BY <2>1, FeedSpawn
  <2>3. F!Change
    BY <1>3 DEF F!Write
  <2> QED  BY <1>1, <1>3, <2>2, <2>3, FeedChange DEF F!Write
<1>4. CASE F!Comment \/ F!Trash \/ F!Restore \/ \E g, e \in BOOLEAN : F!SetPerms(g, e)
  <2>1. /\ F!Change
        /\ \E x \in {F!Start, [at |-> "removed", rev |-> 0, edit |-> FALSE]} : F!Spawn(x)
    BY <1>4 DEF F!Comment, F!Trash, F!Restore, F!SetPerms
  <2>2. s4' \in FeedTasksAre
    BY <2>1, FeedSpawn
  <2>3. s1' \in [rev : 1 .. MaxChange + 1, live : BOOLEAN, grant : BOOLEAN, edit : BOOLEAN]
        /\ s1'.rev = s1.rev /\ UNCHANGED <<s2, s3, s5, s6, s7, s8>>
    BY <1>1, <1>4 DEF F!Comment, F!Trash, F!Restore, F!SetPerms
  <2> QED  BY <1>1, <2>1, <2>2, <2>3, FeedChange
<1>5. CASE F!EditGroup
  BY <1>1, <1>5, FeedChange DEF F!EditGroup
<1>6. CASE F!WatchGroups
  <2>1. s4' \in FeedTasksAre
    BY <1>6, FeedSpawn DEF F!WatchGroups
  <2> QED  BY <1>1, <1>6, <2>1 DEF F!WatchGroups
<1>7. ASSUME NEW t \in FeedTasks, F!TaskLoad(t) PROVE <1>2!1
  <2>1. /\ F!Free \in [at : {"free", "start", "loaded", "changed", "removed"},
                        rev : 0 .. MaxChange + 1, edit : BOOLEAN]
        /\ [s4[t] EXCEPT !.at = "loaded", !.edit = s2]
             \in [at : {"free", "start", "loaded", "changed", "removed"},
                 rev : 0 .. MaxChange + 1, edit : BOOLEAN]
    BY <1>1, FeedNought DEF F!Free, FeedTasksAre
  <2>2. s4' \in FeedTasksAre
    BY <1>1, <1>7, <2>1 DEF F!TaskLoad, FeedTasksAre
  <2> QED  BY <1>1, <1>7, <2>2 DEF F!TaskLoad
<1>8. ASSUME NEW t \in FeedTasks, F!TaskRead(t) PROVE <1>2!1
  <2>1. F!View(s4[t].edit) \in FeedRows
    BY <1>1, FeedViewIs DEF FeedTasksAre
  <2>2. s4' \in FeedTasksAre
    BY <1>1, <1>8, <2>1 DEF F!TaskRead, FeedTasksAre, FeedRows
  <2> QED  BY <1>1, <1>8, <2>2 DEF F!TaskRead
<1>9. ASSUME NEW t \in FeedTasks, F!TaskSend(t) PROVE <1>2!1
  <2>1. F!Msg(s4[t].at, s4[t].rev, s4[t].edit) \in FeedMsgs
    BY <1>1, <1>9, FeedMsgIs DEF F!TaskSend, FeedTasksAre, F!Kinds
  <2>2. s5' \in Seq(FeedMsgs)
    BY <1>1, <1>9, <2>1 DEF F!TaskSend
  <2>3. s4' \in FeedTasksAre
    BY <1>1, <1>9 DEF F!TaskSend, F!Free, FeedTasksAre
  <2> QED  BY <1>1, <1>9, <2>2, <2>3 DEF F!TaskSend
<1>10. CASE F!Connect \/ F!Lose \/ F!SyncTimeout
  <2>1. F!Msg("ask", 0, FALSE) \in FeedMsgs /\ F!Msg("off", 0, FALSE) \in FeedMsgs
    BY FeedNought, FeedMsgIs DEF F!Kinds
  <2>2. << >> \in Seq(FeedMsgs)
    OBVIOUS
  <2>3. s10' \in [change : 0 .. MaxChange, connect : 0 .. MaxConnect] /\ s10'.change = s10.change
    <3>1. CASE F!Connect
      BY <1>1, <3>1 DEF F!Connect
    <3>2. CASE F!Lose \/ F!SyncTimeout
      BY <1>1, <3>2 DEF F!Lose, F!SyncTimeout
    <3> QED  BY <1>10, <3>1, <3>2
  <2>4. s9' \in BOOLEAN
    BY <1>10 DEF F!Connect, F!Lose, F!SyncTimeout
  <2>5. s5' \in Seq(FeedMsgs) /\ s6' \in BOOLEAN /\ s7' \in FeedMsgs /\ UNCHANGED <<s1, s2, s3, s4, s8>>
    BY <1>1, <1>10, <2>1, <2>2 DEF F!Connect, F!Lose, F!SyncTimeout
  <2> QED  BY <1>1, <2>3, <2>4, <2>5
<1>11. CASE F!Answer
  <2>1. F!View(s2) \in FeedRows
    BY <1>1, FeedViewIs
  <2>2. PICK m \in FeedMsgs : s5' = Append(s5, m)
    <3> DEFINE v == F!View(s2)
    <3>1. F!Msg("error", 0, FALSE) \in FeedMsgs
      BY FeedNought, FeedMsgIs DEF F!Kinds
    <3>2. /\ F!Msg("list", v.rev, v.edit) \in FeedMsgs
          /\ F!Msg("memo", v.rev, v.edit) \in FeedMsgs
      BY <2>1, FeedMsgIs DEF F!Kinds, FeedRows
    <3> QED  BY <1>11, <3>1, <3>2 DEF F!Answer
  <2>3. s7' \in FeedMsgs
    BY <1>1, <1>11 DEF F!Answer, FeedMsgs, F!Kinds
  <2>4. s5' \in Seq(FeedMsgs)
    BY <1>1, <2>2
  <2>5. UNCHANGED <<s1, s2, s3, s4, s6, s8, s9, s10>>
    BY <1>11 DEF F!Answer
  <2> QED  BY <1>1, <2>3, <2>4, <2>5
<1>12. CASE F!ReadWire
  <2>1. Head(s5) \in FeedMsgs /\ Tail(s5) \in Seq(FeedMsgs)
    BY <1>1, <1>12 DEF F!ReadWire
  <2>2. F!Applied(Head(s5)) \in FeedRows
    <3> DEFINE m == Head(s5)
    <3>1. m.rev \in 0 .. MaxChange + 1 /\ m.edit \in BOOLEAN
      BY <2>1 DEF FeedMsgs
    <3>2. s8 \in FeedRows
      BY <1>1 DEF FeedRows
    <3>3. [rev |-> m.rev, edit |-> m.edit] \in FeedRows /\ F!Absent \in FeedRows
      BY <3>1, SharedAssumption DEF FeedRows, F!Absent
    <3> HIDE DEF m
    <3>4. F!Applied(m) \in {[rev |-> m.rev, edit |-> m.edit], F!Absent, s8}
      BY DEF F!Applied
    <3> QED  BY <3>2, <3>3, <3>4 DEF m
  <2> QED  BY <1>1, <1>12, <2>1, <2>2 DEF F!ReadWire
<1>13. CASE F!SyncFromList \/ F!SyncMemo
  <2>1. \A k \in {"done", "get"} : F!Msg(k, 0, FALSE) \in FeedMsgs
    BY FeedNought, FeedMsgIs DEF F!Kinds
  <2>2. F!Absent \in FeedRows
    BY <1>1 DEF F!Absent, FeedRows
  <2>3. [rev |-> s7.rev, edit |-> s7.edit] \in FeedRows
    BY <1>1 DEF FeedRows, FeedMsgs
  <2>4. s7' \in FeedMsgs /\ s8' \in FeedRows /\ UNCHANGED <<s1, s2, s3, s4, s5, s6, s9, s10>>
    <3>1. CASE F!SyncFromList
      BY <1>1, <2>1, <2>2, <3>1 DEF F!SyncFromList
    <3>2. CASE F!SyncMemo
      BY <1>1, <2>1, <2>3, <3>2 DEF F!SyncMemo
    <3> QED  BY <1>13, <3>1, <3>2
  <2> QED  BY <1>1, <2>4
<1> QED  BY <1>3, <1>4, <1>5, <1>6, <1>7, <1>8, <1>9, <1>10, <1>11, <1>12, <1>13
         DEF F!Next, F!Progress

\* While nothing disturbs a synchronisation, what is on the wire and what the
\* synchronising task has of it is what the member may see.
FeedAnswer(k) == F!Msg(k, F!Want.rev, F!Want.edit)
FeedQuiet == s9 =>
    /\ s6 /\ s3 = s2 /\ \A t \in FeedTasks : s4[t] = F!Free
    /\ s7.k \in {"ask", "asked", "list", "get", "got", "memo", "done"}
    /\ s7.k \in {"ask", "list", "get", "memo", "done"} => s5 = << >>
    /\ s7.k = "asked" => s5 = <<FeedAnswer("list")>>
    /\ s7.k = "got" => s5 = <<FeedAnswer("memo")>>
    /\ s7.k \in {"list", "memo"} => s7 = FeedAnswer(s7.k)
    /\ s7.k \in {"get", "got"} => F!Want.rev # 0
    /\ s7.k = "done" => s8.rev = F!Want.rev

FeedInv == FeedTyped /\ FeedQuiet

LEMMA FeedQuietStep == FeedInv /\ F!Next => FeedQuiet'
<1> SUFFICES ASSUME FeedTyped, FeedQuiet, F!Next, s9' PROVE FeedQuiet'
  BY DEF FeedInv, FeedQuiet
<1>1. /\ s7 = F!Msg(s7.k, s7.rev, s7.edit) /\ s7.k \in F!Kinds
      /\ s9 \in BOOLEAN /\ F!Free.at = "free"
  BY DEF FeedTyped, F!TypeOK, F!Msg, F!Free
<1>2. CASE F!Write \/ F!Comment \/ F!Trash \/ F!Restore \/ F!EditGroup
           \/ (\E g, e \in BOOLEAN : F!SetPerms(g, e)) \/ F!Lose \/ F!SyncTimeout
  BY <1>2 DEF F!Write, F!Comment, F!Trash, F!Restore, F!EditGroup, F!SetPerms, F!Lose,
              F!SyncTimeout, F!Change
<1>3. CASE F!Connect
  <2>1. /\ s6' /\ s3' = s2' /\ \A t \in FeedTasks : s4'[t] = F!Free
        /\ s7'.k = "ask" /\ s5' = << >>
    BY <1>3 DEF F!Connect, F!Msg
  <2> QED  BY <2>1 DEF FeedQuiet
<1>4. ASSUME F!Progress PROVE FeedQuiet'
  <2>1. s9 /\ UNCHANGED <<s1, s2, s9>> /\ s6' = s6
    BY <1>4 DEF F!Progress, F!WatchGroups, F!Answer, F!ReadWire, F!SyncFromList, F!SyncMemo,
                F!TaskLoad, F!TaskRead, F!TaskSend
  <2>2. /\ s6 /\ s3 = s2 /\ \A t \in FeedTasks : s4[t] = F!Free
        /\ s7.k \in {"ask", "asked", "list", "get", "got", "memo", "done"}
        /\ s7.k \in {"ask", "list", "get", "memo", "done"} => s5 = << >>
        /\ s7.k = "asked" => s5 = <<FeedAnswer("list")>>
        /\ s7.k = "got" => s5 = <<FeedAnswer("memo")>>
        /\ s7.k \in {"list", "memo"} => s7 = FeedAnswer(s7.k)
        /\ s7.k \in {"get", "got"} => F!Want.rev # 0
        /\ s7.k = "done" => s8.rev = F!Want.rev
    BY <2>1 DEF FeedQuiet
  <2>3. F!Want' = F!Want /\ \A k : FeedAnswer(k)' = FeedAnswer(k)
    BY <2>1 DEF F!Want, F!View, F!Sees, FeedAnswer, F!Msg
  <2>4. F!View(s2) = F!Want
    BY DEF F!Want
  <2>5. ~F!WatchGroups /\ \A t \in FeedTasks : ~F!TaskLoad(t) /\ ~F!TaskRead(t) /\ ~F!TaskSend(t)
    BY <1>1, <2>2 DEF F!WatchGroups, F!TaskLoad, F!TaskRead, F!TaskSend
  <2>6. CASE F!Answer
    <3>1. CASE s7.k = "ask"
      <4>1. s7'.k = "asked" /\ s5' = Append(s5, FeedAnswer("list")) /\ UNCHANGED <<s3, s4>>
        BY <1>1, <2>4, <2>6, <3>1 DEF F!Answer, FeedAnswer, F!Msg
      <4>2. s5' = <<FeedAnswer("list")>>
        BY <2>2, <3>1, <4>1
      <4> QED  BY <2>1, <2>2, <2>3, <4>1, <4>2 DEF FeedQuiet
    <3>2. CASE s7.k = "get"
      <4>1. s7'.k = "got" /\ s5' = Append(s5, FeedAnswer("memo")) /\ UNCHANGED <<s3, s4>>
        BY <1>1, <2>2, <2>4, <2>6, <3>2 DEF F!Answer, FeedAnswer, F!Msg
      <4>2. s5' = <<FeedAnswer("memo")>>
        BY <2>2, <3>2, <4>1
      <4> QED  BY <2>1, <2>2, <2>3, <3>2, <4>1, <4>2 DEF FeedQuiet
    <3> QED  BY <2>6, <3>1, <3>2 DEF F!Answer
  <2>7. CASE F!ReadWire
    <3>1. PICK k \in {"list", "memo"} : s5 = <<FeedAnswer(k)>> /\ s7.k \in {"asked", "got"}
      BY <2>2, <2>7 DEF F!ReadWire
    <3>2. Head(s5) = FeedAnswer(k) /\ Tail(s5) = << >> /\ FeedAnswer(k).k = k
      BY <3>1 DEF FeedAnswer, F!Msg
    <3>3. s7' = FeedAnswer(k) /\ s5' = << >> /\ UNCHANGED <<s3, s4>>
      BY <2>7, <3>2 DEF F!ReadWire
    <3> QED  BY <2>1, <2>2, <2>3, <3>2, <3>3 DEF FeedQuiet
  <2>8. CASE F!SyncFromList
    <3>1. s7.rev = F!Want.rev /\ s5 = << >>
      BY <2>2, <2>8 DEF F!SyncFromList, FeedAnswer, F!Msg
    <3>2. UNCHANGED <<s3, s4, s5>> /\ s8' = (IF s7.rev = 0 THEN F!Absent ELSE s8)
          /\ s7'.k = IF s7.rev \in {0, s8.rev} THEN "done" ELSE "get"
      BY <2>8 DEF F!SyncFromList, F!Msg
    <3>3. s7'.k = "done" => s8'.rev = F!Want.rev
      BY <3>1, <3>2 DEF F!Absent
    <3>4. s7'.k = "get" => F!Want.rev # 0
      BY <3>1, <3>2
    <3>5. s7'.k \in {"done", "get"}
      BY <3>2
    <3> QED  BY <2>1, <2>2, <2>3, <3>1, <3>2, <3>3, <3>4, <3>5 DEF FeedQuiet
  <2>9. CASE F!SyncMemo
    <3>1. s7 = FeedAnswer("memo") /\ s5 = << >>
      BY <2>2, <2>9 DEF F!SyncMemo
    <3>2. s7'.k = "done" /\ s8'.rev = F!Want.rev /\ UNCHANGED <<s3, s4, s5>>
      BY <2>9, <3>1 DEF F!SyncMemo, FeedAnswer, F!Msg
    <3> QED  BY <2>1, <2>2, <2>3, <3>1, <3>2 DEF FeedQuiet
  <2> QED  BY <1>4, <2>5, <2>6, <2>7, <2>8, <2>9 DEF F!Progress
<1> QED  BY <1>2, <1>3, <1>4 DEF F!Next

LEMMA FeedStarts == F!Init => FeedInv
<1> SUFFICES ASSUME F!Init PROVE FeedInv
  OBVIOUS
<1>1. MaxChange \in Nat /\ MaxConnect \in Nat
  BY SharedAssumption
<1>2. F!TypeOK
  <2>1. s1 \in [rev : 1 .. MaxChange + 1, live : BOOLEAN, grant : BOOLEAN, edit : BOOLEAN]
        /\ s10 \in [change : 0 .. MaxChange, connect : 0 .. MaxConnect]
    BY <1>1 DEF F!Init
  <2>2. s7 \in FeedMsgs /\ s8 \in FeedRows
    BY FeedNought, FeedMsgIs DEF F!Init, F!Absent, F!Kinds, FeedRows
  <2>3. s4 \in FeedTasksAre
    BY FeedNought DEF F!Init, F!Free, FeedTasksAre
  <2>4. s5 \in Seq(FeedMsgs) /\ s2 \in BOOLEAN /\ s3 \in BOOLEAN /\ s6 \in BOOLEAN /\ s9 \in BOOLEAN
    <3>1. << >> \in Seq(FeedMsgs)
      OBVIOUS
    <3> QED  BY <3>1 DEF F!Init
  <2> QED  BY <2>1, <2>2, <2>3, <2>4 DEF F!TypeOK, FeedMsgs, FeedRows, FeedTasksAre
<1>3. s1.rev <= s10.change + 1
  BY <1>1 DEF F!Init
<1>4. FeedQuiet
  BY DEF F!Init, FeedQuiet
<1> QED  BY <1>2, <1>3, <1>4 DEF FeedInv, FeedTyped

LEMMA FeedKeeps == FeedInv /\ F!Next => FeedInv'
BY FeedTypeStep, FeedQuietStep DEF FeedInv

LEMMA FeedGives == FeedInv => F!TypeOK /\ F!SyncRepairs
BY DEF FeedInv, FeedTyped, FeedQuiet, F!SyncRepairs

-----------------------------------------------------------------------------
(* The feed of a row: s1 is its content, s2 its revision, s3 what the      *)
(* screens show, s4 the events due, s5 the connection, s6 the cache, s7    *)
(* whether all is calm, s8 the changes.                                    *)

RowMsgs == [k : {"event", "list"}, c : 0 .. MaxEdit]
RowLinks == [up : BOOLEAN, wire : Seq(RowMsgs),
             sync : {"off", "asked", "answered", "listed", "done"}, list : 0 .. MaxEdit]

RowTyped == R!TypeOK /\ s5 \in RowLinks /\ s1 <= s8 /\ s2 <= s8

RowIsTyped ==
    /\ s1 \in 0 .. MaxEdit /\ s2 \in 0 .. MaxEdit /\ s6 \in 0 .. MaxEdit
    /\ s3 \in [Editors -> 0 .. MaxEdit] /\ s7 \in BOOLEAN /\ s8 \in 0 .. MaxEdit
    /\ s4 \subseteq [n : 1 .. MaxEdit, c : 0 .. MaxEdit]
    /\ s5 \in RowLinks /\ s1 <= s8 /\ s2 <= s8

LEMMA RowTypes == RowTyped <=> RowIsTyped
BY DEF RowTyped, RowIsTyped, R!TypeOK, RowLinks, RowMsgs

LEMMA RowCommit ==
    ASSUME RowIsTyped, NEW e \in Editors, NEW c \in {0, s8 + 1}, NEW r \in 0 .. s8 + 1,
           R!Commit(e, c, r)
    PROVE  RowIsTyped' /\ s7' = FALSE
<1>1. MaxEdit \in Nat /\ s8 < MaxEdit /\ s8 \in Nat
  BY SharedAssumption DEF R!Commit, RowIsTyped
<1>2. [n |-> s8 + 1, c |-> c] \in [n : 1 .. MaxEdit, c : 0 .. MaxEdit] /\ r \in 0 .. MaxEdit
  BY <1>1
<1>3. s4' \subseteq [n : 1 .. MaxEdit, c : 0 .. MaxEdit]
  BY <1>2 DEF R!Commit, RowIsTyped
<1>4. s3' \in [Editors -> 0 .. MaxEdit]
  BY <1>2 DEF R!Commit, RowIsTyped
<1>5. /\ s1' \in 0 .. MaxEdit /\ s2' \in 0 .. MaxEdit /\ s8' \in 0 .. MaxEdit
      /\ s1' <= s8' /\ s2' <= s8'
  BY <1>1, <1>2 DEF R!Commit
<1>6. s7' = FALSE /\ UNCHANGED <<s5, s6>>
  BY DEF R!Commit
<1> QED  BY <1>3, <1>4, <1>5, <1>6 DEF RowIsTyped

LEMMA RowTypeStep == RowIsTyped /\ R!Next => RowIsTyped'
<1> SUFFICES ASSUME RowIsTyped, R!Next PROVE RowIsTyped'
  OBVIOUS
<1>1. MaxEdit \in Nat /\ 0 \in 0 .. MaxEdit /\ s8 \in Nat
  BY SharedAssumption DEF RowIsTyped
<1>2. ASSUME NEW e \in Editors, R!Create(e) \/ R!Update(e) \/ R!Delete(e) PROVE RowIsTyped'
  <2>1. \E c \in {0, s8 + 1}, r \in 0 .. s8 + 1 : R!Commit(e, c, r)
    <3>1. 1 \in 0 .. s8 + 1 /\ 0 \in 0 .. s8 + 1 /\ s2 + 1 \in 0 .. s8 + 1
      BY <1>1 DEF RowIsTyped
    <3> QED  BY <1>2, <3>1 DEF R!Create, R!Update, R!Delete
  <2> QED  BY <2>1, RowCommit
<1>3. ASSUME NEW e \in Editors, R!Look(e) PROVE RowIsTyped'
  BY <1>3 DEF R!Look, RowIsTyped
<1>4. ASSUME NEW ev \in s4, R!SendChange(ev) PROVE RowIsTyped'
  <2>1. [k |-> "event", c |-> ev.c] \in RowMsgs
    BY DEF RowMsgs, RowIsTyped
  <2>2. Append(s5.wire, [k |-> "event", c |-> ev.c]) \in Seq(RowMsgs)
    BY <2>1 DEF RowIsTyped, RowLinks
  <2>3. s5' \in RowLinks
    <3>1. s5' = s5 \/ s5' = [s5 EXCEPT !.wire = Append(s5.wire, [k |-> "event", c |-> ev.c])]
      BY <1>4 DEF R!SendChange, RowIsTyped, RowLinks
    <3>2. s5 \in RowLinks
      BY DEF RowIsTyped
    <3>3. CASE s5' = s5
      BY <3>2, <3>3
    <3>4. CASE s5' = [s5 EXCEPT !.wire = Append(s5.wire, [k |-> "event", c |-> ev.c])]
      BY <2>2, <3>2, <3>4 DEF RowLinks
    <3> QED  BY <3>1, <3>3, <3>4
  <2> QED  BY <1>4, <2>3 DEF R!SendChange, RowIsTyped
<1>5. CASE R!Connect \/ R!Lose
  <2>1. << >> \in Seq(RowMsgs)
    OBVIOUS
  <2>2. s5' \in RowLinks
    <3>1. \A y \in {"off", "asked"}, u \in BOOLEAN :
            [up |-> u, wire |-> << >>, sync |-> y, list |-> 0] \in RowLinks
      BY <1>1, <2>1 DEF RowLinks
    <3>2. \/ s5' = [up |-> TRUE, wire |-> << >>, sync |-> "asked", list |-> 0]
          \/ s5' = [up |-> FALSE, wire |-> << >>, sync |-> "off", list |-> 0]
      BY <1>5 DEF R!Connect, R!Lose, R!Down
    <3> QED  BY <3>1, <3>2
  <2> QED  BY <1>5, <2>2 DEF R!Connect, R!Lose, RowIsTyped
<1>6. CASE R!AnswerList
  <2>1. [k |-> "list", c |-> s1] \in RowMsgs
    BY DEF RowMsgs, RowIsTyped
  <2>2. Append(s5.wire, [k |-> "list", c |-> s1]) \in Seq(RowMsgs)
    BY <2>1 DEF RowIsTyped, RowLinks
  <2>3. s5' \in RowLinks
    BY <1>6, <2>2 DEF R!AnswerList, RowIsTyped, RowLinks
  <2> QED  BY <1>6, <2>3 DEF R!AnswerList, RowIsTyped
<1>7. CASE R!ReceiveRow
  <2>1. s5.wire \in Seq(RowMsgs) /\ s5.wire # << >>
    BY <1>7 DEF R!ReceiveRow, RowIsTyped, RowLinks
  <2>2. Head(s5.wire) \in RowMsgs /\ Tail(s5.wire) \in Seq(RowMsgs)
    BY <2>1
  <2>3. Head(s5.wire).c \in 0 .. MaxEdit
    BY <2>2 DEF RowMsgs
  <2>4. s5' \in RowLinks
    BY <1>7, <2>2, <2>3 DEF R!ReceiveRow, RowIsTyped, RowLinks
  <2>5. s6' \in 0 .. MaxEdit
    BY <1>7, <2>3 DEF R!ReceiveRow, RowIsTyped
  <2> QED  BY <1>7, <2>4, <2>5 DEF R!ReceiveRow, RowIsTyped
<1>8. CASE R!ReplaceAll
  BY <1>1, <1>8 DEF R!ReplaceAll, RowIsTyped, RowLinks
<1> QED  BY <1>2, <1>3, <1>4, <1>5, <1>6, <1>7, <1>8 DEF R!Next, R!Progress

\* While nothing changes after a connection was made, the list under way is
\* the host's row.
RowCalm == s7 =>
    /\ s5.up /\ s4 = {}
    /\ s5.sync \in {"asked", "answered", "listed", "done"}
    /\ s5.sync # "answered" => s5.wire = << >>
    /\ s5.sync = "answered" => s5.wire = <<[k |-> "list", c |-> s1]>>
    /\ s5.sync = "listed" => s5.list = s1
    /\ s5.sync = "done" => s6 = s1

RowInv == RowTyped /\ RowCalm

LEMMA RowCalmStep == RowIsTyped /\ RowCalm /\ R!Next => RowCalm'
<1> SUFFICES ASSUME RowIsTyped, RowCalm, R!Next, s7' PROVE RowCalm'
  BY DEF RowCalm
<1>1. s5 \in RowLinks
  BY DEF RowIsTyped
<1>2. ASSUME NEW e \in Editors, R!Create(e) \/ R!Update(e) \/ R!Delete(e) PROVE FALSE
  BY <1>2 DEF R!Create, R!Update, R!Delete, R!Commit
<1>3. CASE R!Connect
  <2>1. s4 = {}
    BY <1>3 DEF R!Connect, RowIsTyped
  <2> QED  BY <1>3, <2>1 DEF R!Connect, R!Down, RowCalm
<1>4. CASE R!Lose
  BY <1>4 DEF R!Lose
<1>5. ASSUME R!Progress \/ \E e \in Editors : R!Look(e) PROVE RowCalm'
  <2>1. s7 /\ UNCHANGED s1 /\ s4 = {} /\ s5.up
    BY <1>5 DEF R!Progress, R!Look, R!SendChange, R!AnswerList, R!ReceiveRow, R!ReplaceAll, RowCalm
  <2>2. CASE \E e \in Editors : R!Look(e)
    BY <2>2 DEF R!Look, RowCalm
  <2>3. CASE R!AnswerList
    <3>1. s5.wire = << >> /\ s5'.wire = Append(s5.wire, [k |-> "list", c |-> s1])
      BY <1>1, <2>1, <2>3 DEF R!AnswerList, RowCalm, RowLinks
    <3>2. s5'.wire = <<[k |-> "list", c |-> s1]>>
      BY <3>1
    <3>3. s5'.up /\ s5'.sync = "answered" /\ s4' = {}
      BY <1>1, <2>1, <2>3 DEF R!AnswerList, RowLinks
    <3> QED  BY <2>1, <3>2, <3>3 DEF RowCalm
  <2>4. CASE R!ReceiveRow
    <3>1. s5.wire = <<[k |-> "list", c |-> s1]>>
      BY <2>1, <2>4 DEF R!ReceiveRow, RowCalm
    <3>2. Head(s5.wire) = [k |-> "list", c |-> s1] /\ Tail(s5.wire) = << >>
      BY <3>1
    <3>3. s5'.up /\ s5'.sync = "listed" /\ s5'.wire = << >> /\ s5'.list = s1 /\ s4' = {}
      BY <1>1, <2>1, <2>4, <3>2 DEF R!ReceiveRow, RowLinks
    <3> QED  BY <2>1, <3>3 DEF RowCalm
  <2>5. CASE R!ReplaceAll
    <3>1. s5'.up /\ s5'.sync = "done" /\ s5'.wire = << >> /\ s6' = s1 /\ s4' = {}
      BY <1>1, <2>1, <2>5 DEF R!ReplaceAll, RowLinks, RowCalm
    <3> QED  BY <2>1, <3>1 DEF RowCalm
  <2> QED  BY <1>5, <2>1, <2>2, <2>3, <2>4, <2>5 DEF R!Progress
<1> QED  BY <1>2, <1>3, <1>4, <1>5 DEF R!Next

LEMMA RowStarts == R!Init => RowInv
<1> SUFFICES ASSUME R!Init PROVE RowInv
  OBVIOUS
<1>1. 0 \in 0 .. MaxEdit /\ << >> \in Seq(RowMsgs)
  BY SharedAssumption
<1>2. RowIsTyped
  <2>1. s5 \in RowLinks
    BY <1>1 DEF R!Init, R!Down, RowLinks
  <2>2. s3 \in [Editors -> 0 .. MaxEdit] /\ s4 \subseteq [n : 1 .. MaxEdit, c : 0 .. MaxEdit]
    BY <1>1 DEF R!Init
  <2>3. s1 = 0 /\ s2 = 0 /\ s6 = 0 /\ s7 = FALSE /\ s8 = 0
    BY DEF R!Init
  <2>4. s3 \in [Editors -> 0 .. MaxEdit]
    BY <2>2
  <2>5. s1 \in 0 .. MaxEdit /\ s1 <= s8
    BY <1>1, <2>3
  <2>6. s2 \in 0 .. MaxEdit /\ s2 <= s8 /\ s6 \in 0 .. MaxEdit
    BY <1>1, <2>3
  <2>7. s7 \in BOOLEAN /\ s8 \in 0 .. MaxEdit
    BY <1>1, <2>3
  <2> QED  BY <2>1, <2>2, <2>4, <2>5, <2>6, <2>7 DEF RowIsTyped
<1> QED  BY <1>2, RowTypes DEF R!Init, RowInv, RowCalm

LEMMA RowFeedKeeps == RowInv /\ R!Next => RowInv'
<1>1. RowIsTyped' => RowTyped'
  BY DEF RowTyped, RowIsTyped, R!TypeOK, RowLinks, RowMsgs
<1> QED  BY <1>1, RowTypes, RowTypeStep, RowCalmStep DEF RowInv

LEMMA RowGives == RowInv => R!TypeOK /\ R!ReplaceRepairs
BY DEF RowInv, RowTyped, RowCalm, R!ReplaceRepairs

-----------------------------------------------------------------------------
(* The cache of the sheets: s1 is the host's sheets, s2 the copies, s3 the *)
(* announcements due, s4 the connection, s5 whether all is calm, s6 who is *)
(* where, s7 who is shown where, s8 the counts.                            *)

CacheKinds == {"meta", "removed", "cells", "look", "presence", "list", "content", "error"}
CacheEvents == [k : CacheKinds, s : Nat, n : Nat, row : C!Contents,
                who : SUBSET (Lookers \cup Nat \cup (Nat \X Nat))]
CacheMsgs == {e \in CacheEvents : /\ e.k # "list" => e.s \in C!Sheets
                                  /\ e.k = "presence" => e.who \subseteq Lookers}
CacheSync == {"off", "ask", "asked", "answered", "listed", "cells", "got", "done"}
CacheLinks == [up : BOOLEAN, wire : Seq(CacheMsgs), sync : CacheSync,
               slot : CacheMsgs \cup {C!NoSheet}, todo : SUBSET C!Sheets]
CacheCounts == [edit : 0 .. MaxEdit, look : 0 .. MaxLook, join : 0 .. MaxJoin]

\* At most one announcement is due, so the guard on their number is met by
\* none alone.
CacheLate == s3 \subseteq CacheMsgs /\ \E e : s3 \subseteq {e}

CacheLinked == /\ s4 \in CacheLinks
               /\ s4.sync = "got" => s4.slot \in CacheMsgs
               /\ s4.sync = "cells" => s4.todo # {}

CacheTyped == /\ s1 \in [C!Sheets -> C!Contents] /\ s2 \in [C!Sheets -> C!Contents]
              /\ CacheLate /\ CacheLinked /\ s5 \in BOOLEAN
              /\ s6 \in [Lookers -> C!Numbers] /\ s7 \in [C!Sheets -> SUBSET Lookers]
              /\ s8 \in CacheCounts

LEMMA CacheNat == /\ MaxSheets \in Nat /\ MaxLook \in Nat /\ MaxJoin \in Nat /\ MaxEdit \in Nat
                  /\ 0 \in 0 .. MaxEdit /\ 0 \in 0 .. MaxLook /\ 0 \in 0 .. MaxJoin
BY SharedAssumption

LEMMA CacheNoSheet == C!NoSheet \in C!Contents
BY CacheNat DEF C!NoSheet, C!Contents

LEMMA LeastNatural == ASSUME NEW Z \in SUBSET Nat, Z # {} PROVE \E x \in Z : \A y \in Z : x <= y
<1>1. PICK x \in Z : \A y \in Z : <<y, x>> \notin OpToRel(<, Nat)
  BY WFMin, NatLessThanWellFounded, Zenon
<1>2. \A y \in Z : y < x => <<y, x>> \in OpToRel(<, Nat)
  <2>1. \A y \in Z : y \in Nat /\ x \in Nat
    OBVIOUS
  <2> QED  BY <2>1, Zenon DEF OpToRel
<1>3. \A y \in Z : ~(y < x)
  BY <1>1, <1>2
<1>4. \A y \in Z : y \in Nat /\ x \in Nat
  OBVIOUS
<1> QED  BY <1>3, <1>4

LEMMA CacheMin == ASSUME NEW Z \in SUBSET Nat, Z # {} PROVE C!Min(Z) \in Z
<1>1. \E x \in Z : \A y \in Z : x <= y
  BY LeastNatural
<1> QED  BY <1>1 DEF C!Min

\* The guard of an announcement: none is due.
LEMMA CacheCount == \A Z : C!Cardinality(Z) = Cardinality(Z)
BY Zenon DEF C!Cardinality, Cardinality

LEMMA CacheRoom == ASSUME CacheLate, C!Cardinality(s3) < 1 PROVE s3 = {}
<1>1. PICK e : s3 \subseteq {e}
  BY DEF CacheLate
<1>2. s3 = {e} => Cardinality(s3) = 1
  BY FS_Singleton
<1>3. C!Cardinality(s3) = Cardinality(s3)
  BY CacheCount
<1> QED  BY <1>1, <1>2, <1>3

LEMMA CacheDue ==
    ASSUME CacheLate, C!Cardinality(s3) < 1, NEW e \in CacheMsgs, s3' = s3 \cup {e}
    PROVE  CacheLate'
<1>1. s3' = {e}
  BY CacheRoom
<1>2. s3' \subseteq CacheMsgs /\ \E x : s3' \subseteq {x}
  BY <1>1
<1> QED  BY <1>2 DEF CacheLate

-----------------------------------------------------------------------------
(* A change of a sheet.                                                    *)

CacheRowKinds == {"meta", "removed", "cells", "look"}

LEMMA CacheEdit ==
    ASSUME CacheTyped, NEW s \in C!Sheets, NEW given \in C!Contents, NEW k \in CacheRowKinds,
           C!Edit(s, given, k)
    PROVE  CacheTyped' /\ s5' = FALSE
<1>1. s8.edit \in 0 .. MaxEdit /\ s8.edit < MaxEdit /\ MaxEdit \in Nat
  BY CacheNat DEF CacheTyped, CacheCounts, C!Edit
<1>2. s8' \in CacheCounts
  BY <1>1 DEF CacheTyped, CacheCounts, C!Edit
<1>3. s1' \in [C!Sheets -> C!Contents]
  BY DEF CacheTyped, C!Edit
<1> DEFINE e == [k |-> k, s |-> s, n |-> s8.edit + 1, row |-> given, who |-> {}]
<1>4. e \in CacheMsgs
  <2>1. e \in CacheEvents
    <3>1. s \in Nat /\ s8.edit + 1 \in Nat /\ k \in CacheKinds
      BY <1>1, CacheNat DEF C!Sheets, CacheKinds, CacheRowKinds
    <3>2. {} \in SUBSET (Lookers \cup Nat \cup (Nat \X Nat))
      OBVIOUS
    <3> QED  BY <3>1, <3>2 DEF CacheEvents
  <2> QED  BY <2>1 DEF CacheMsgs, CacheRowKinds
<1>5. CacheLate'
  <2>1. s3' = s3 \cup {e} /\ C!Cardinality(s3) < 1
    BY Zenon DEF C!Edit
  <2>2. CacheLate
    BY DEF CacheTyped
  <2> HIDE DEF e
  <2> QED  BY <1>4, <2>1, <2>2, CacheDue
<1>6. UNCHANGED <<s2, s4, s6, s7>> /\ s5' = FALSE
  BY DEF C!Edit
<1> HIDE DEF e
<1>7. CacheLinked'
  BY <1>6 DEF CacheTyped, CacheLinked
<1> QED  BY <1>2, <1>3, <1>5, <1>6, <1>7 DEF CacheTyped

CacheEdits(s) ==
  C!SheetCreate(s) \/ C!SheetRename(s) \/ C!SheetSettings(s) \/ C!SheetDelete(s)
  \/ C!SheetLayout(s) \/ \E b \in BOOLEAN : C!SheetWrite(s, b)

LEMMA CacheEditStep ==
    ASSUME CacheTyped, NEW s \in C!Sheets, CacheEdits(s)
    PROVE  CacheTyped' /\ s5' = FALSE
<1>1. s1[s] \in C!Contents /\ s8.edit \in 0 .. MaxEdit
  BY DEF CacheTyped, CacheCounts
<1>2. s8.edit < MaxEdit => s8.edit + 1 \in 0 .. MaxEdit
  BY <1>1, CacheNat
<1>3. s8.edit < MaxEdit => \A z \in {s8.edit + 1, 0} :
        /\ [s1[s] EXCEPT !.meta = z] \in C!Contents
        /\ [s1[s] EXCEPT !.cell = z] \in C!Contents
        /\ [s1[s] EXCEPT !.look = z] \in C!Contents
        /\ [C!NoSheet EXCEPT !.meta = z] \in C!Contents
  <2> SUFFICES ASSUME s8.edit < MaxEdit, NEW z \in {s8.edit + 1, 0}
               PROVE  /\ [s1[s] EXCEPT !.meta = z] \in C!Contents
                      /\ [s1[s] EXCEPT !.cell = z] \in C!Contents
                      /\ [s1[s] EXCEPT !.look = z] \in C!Contents
                      /\ [C!NoSheet EXCEPT !.meta = z] \in C!Contents
    OBVIOUS
  <2>1. z \in 0 .. MaxEdit
    BY <1>2, CacheNat
  <2>2. ASSUME NEW r \in C!Contents
        PROVE  /\ [r EXCEPT !.meta = z] \in C!Contents
               /\ [r EXCEPT !.cell = z] \in C!Contents
               /\ [r EXCEPT !.look = z] \in C!Contents
    BY <2>1 DEF C!Contents
  <2> QED  BY <1>1, <2>2, CacheNoSheet
<1>4. \E given \in C!Contents, k \in CacheRowKinds : C!Edit(s, given, k)
  <2>1. \A given, k : C!Edit(s, given, k) => s8.edit < MaxEdit
    BY DEF C!Edit
  <2>2. CASE C!SheetCreate(s)
    BY <1>3, <2>1, <2>2 DEF C!SheetCreate, C!Stamp, CacheRowKinds
  <2>3. CASE C!SheetRename(s)
    BY <1>3, <2>1, <2>3 DEF C!SheetRename, C!Stamp, CacheRowKinds
  <2>4. CASE C!SheetSettings(s)
    BY <1>3, <2>1, <2>4 DEF C!SheetSettings, C!Stamp, CacheRowKinds
  <2>5. CASE C!SheetDelete(s)
    BY <2>5, CacheNoSheet DEF C!SheetDelete, CacheRowKinds
  <2>6. CASE C!SheetLayout(s)
    BY <1>3, <2>1, <2>6 DEF C!SheetLayout, C!Stamp, CacheRowKinds
  <2>7. ASSUME NEW b \in BOOLEAN, C!SheetWrite(s, b)
        PROVE  \E given \in C!Contents, k \in CacheRowKinds : C!Edit(s, given, k)
    <3>1. (IF b THEN 0 ELSE C!Stamp) \in {s8.edit + 1, 0}
      BY DEF C!Stamp
    <3> QED  BY <1>3, <2>1, <2>7, <3>1 DEF C!SheetWrite, CacheRowKinds
  <2> QED  BY <2>2, <2>3, <2>4, <2>5, <2>6, <2>7 DEF CacheEdits
<1> QED  BY <1>4, CacheEdit

-----------------------------------------------------------------------------
(* Who looks where, and the announcement of it.                            *)

LEMMA CacheAnnounce ==
    ASSUME NEW s \in C!Sheets, NEW table, NEW n \in Nat
    PROVE  C!Announce(s, table, n) \in CacheMsgs /\ C!Announce(s, table, n).k = "presence"
<1>1. C!Announce(s, table, n) \in CacheEvents
  <2>1. C!At(s, table) \in SUBSET (Lookers \cup Nat \cup (Nat \X Nat))
    BY DEF C!At
  <2>2. s \in Nat
    BY CacheNat DEF C!Sheets
  <2> QED  BY <2>1, <2>2, CacheNoSheet DEF C!Announce, CacheEvents, CacheKinds
<1> QED  BY <1>1 DEF C!Announce, CacheMsgs, C!At

\* What is due after a step that announces presence.
CachePresence == s3' = s3 \/ \E e \in CacheMsgs : /\ e.k = "presence" /\ s3' = s3 \cup {e}
                                                  /\ C!Cardinality(s3) < 1

LEMMA CacheSelect ==
    ASSUME CacheTyped, NEW p \in Lookers, NEW s \in C!Sheets, C!Select(p, s)
    PROVE  CacheTyped' /\ CachePresence /\ UNCHANGED <<s1, s2, s4, s5>>
<1>1. s8.look \in 0 .. MaxLook /\ s8.look < MaxLook /\ MaxLook \in Nat
  BY CacheNat DEF CacheTyped, CacheCounts, C!Select
<1>2. s8' \in CacheCounts /\ s8'.look \in Nat
  BY <1>1 DEF CacheTyped, CacheCounts, C!Select
<1>3. s6' \in [Lookers -> C!Numbers]
  BY CacheNat DEF CacheTyped, C!Select, C!Sheets, C!Numbers
<1>4. CachePresence
  <2>1. CASE p = Me
    BY <2>1 DEF C!Select, CachePresence
  <2>2. CASE p # Me
    <3>1. s3' = s3 \cup {C!Announce(s, s6', s8'.look)} /\ C!Cardinality(s3) < 1
      BY <2>2, Zenon DEF C!Select
    <3>2. C!Announce(s, s6', s8'.look) \in CacheMsgs /\ C!Announce(s, s6', s8'.look).k = "presence"
      BY <1>2, CacheAnnounce
    <3> QED  BY <3>1, <3>2, Zenon DEF CachePresence
  <2> QED  BY <2>1, <2>2
<1>5. CacheLate'
  BY <1>4, CacheDue DEF CachePresence, CacheTyped, CacheLate
<1>6. UNCHANGED <<s1, s2, s4, s5, s7>>
  BY DEF C!Select
<1>7. CacheLinked'
  BY <1>6 DEF CacheTyped, CacheLinked
<1> QED  BY <1>2, <1>3, <1>4, <1>5, <1>6, <1>7 DEF CacheTyped

LEMMA CacheSweep ==
    ASSUME CacheTyped, NEW p \in Lookers, C!Sweep(p)
    PROVE  CacheTyped' /\ CachePresence /\ UNCHANGED <<s1, s2, s4, s5>>
<1>1. s6[p] \in C!Sheets
  BY CacheNat DEF CacheTyped, C!Sweep, C!Sheets, C!Numbers
<1>2. s6' \in [Lookers -> C!Numbers]
  BY CacheNat DEF CacheTyped, C!Sweep, C!Numbers
<1>3. s8.look \in Nat
  BY CacheNat DEF CacheTyped, CacheCounts
<1>4. CachePresence
  <2>1. s3' = s3 \cup {C!Announce(s6[p], s6', s8.look)} /\ C!Cardinality(s3) < 1
    BY Zenon DEF C!Sweep
  <2>2. C!Announce(s6[p], s6', s8.look) \in CacheMsgs /\ C!Announce(s6[p], s6', s8.look).k = "presence"
    BY <1>1, <1>3, CacheAnnounce
  <2> QED  BY <2>1, <2>2, Zenon DEF CachePresence
<1>5. CacheLate'
  BY <1>4, CacheDue DEF CachePresence, CacheTyped, CacheLate
<1>6. UNCHANGED <<s1, s2, s4, s5, s7, s8>>
  BY DEF C!Sweep
<1>7. CacheLinked'
  BY <1>6 DEF CacheTyped, CacheLinked
<1> QED  BY <1>2, <1>4, <1>5, <1>6, <1>7 DEF CacheTyped

LEMMA CacheSend ==
    ASSUME CacheTyped, NEW e \in s3, C!SendLate(e)
    PROVE  /\ CacheTyped' /\ s3' \subseteq s3 /\ UNCHANGED <<s1, s2, s5>>
           /\ \/ s4' = s4
              \/ s4' = [s4 EXCEPT !.wire = Append(s4.wire, e)]
<1>1. e \in CacheMsgs
  BY DEF CacheTyped, CacheLate
<1>2. UNCHANGED <<s1, s2, s5, s6, s7, s8>> /\ s3' \subseteq s3
  BY DEF C!SendLate
<1>3. CacheLate'
  BY <1>2 DEF CacheTyped, CacheLate
<1>4. s4' = s4 \/ s4' = [s4 EXCEPT !.wire = Append(s4.wire, e)]
  BY DEF C!SendLate
<1>5. CacheLinked'
  <2>1. Append(s4.wire, e) \in Seq(CacheMsgs)
    BY <1>1 DEF CacheTyped, CacheLinked, CacheLinks
  <2>2. CASE s4' = s4
    BY <2>2 DEF CacheTyped, CacheLinked
  <2>3. CASE s4' = [s4 EXCEPT !.wire = Append(s4.wire, e)]
    BY <2>1, <2>3 DEF CacheTyped, CacheLinked, CacheLinks
  <2> QED  BY <1>4, <2>2, <2>3
<1> QED  BY <1>2, <1>3, <1>4, <1>5 DEF CacheTyped

LEMMA CacheDown == ASSUME NEW u \in BOOLEAN, NEW y \in CacheSync
    PROVE [up |-> u, wire |-> << >>, sync |-> y, slot |-> C!NoSheet, todo |-> {}] \in CacheLinks
<1>1. << >> \in Seq(CacheMsgs)
  OBVIOUS
<1>2. {} \in SUBSET C!Sheets
  OBVIOUS
<1> QED  BY <1>1, <1>2 DEF CacheLinks

LEMMA CacheConnect ==
    ASSUME CacheTyped, C!Connect \/ C!Lose
    PROVE  /\ CacheTyped' /\ UNCHANGED <<s1, s2, s3>>
           /\ \/ C!Lose /\ s5' = FALSE
              \/ /\ s5' => s3 = {}
                 /\ s4' = [up |-> TRUE, wire |-> << >>, sync |-> "ask",
                            slot |-> C!NoSheet, todo |-> {}]
<1>1. UNCHANGED <<s1, s2, s3, s6, s7>> /\ s5' \in BOOLEAN
  BY DEF C!Connect, C!Lose
<1>2. CacheLate'
  BY <1>1 DEF CacheTyped, CacheLate
<1>3. CASE C!Connect
  <2>1. s8' \in CacheCounts
    <3>1. s8.join \in 0 .. MaxJoin /\ s8.join < MaxJoin /\ MaxJoin \in Nat
      BY <1>3, CacheNat DEF CacheTyped, CacheCounts, C!Connect
    <3> QED  BY <1>3, <3>1 DEF CacheTyped, CacheCounts, C!Connect
  <2>2. s4' = [up |-> TRUE, wire |-> << >>, sync |-> "ask", slot |-> C!NoSheet, todo |-> {}]
    BY <1>3 DEF C!Connect, C!Down
  <2>3. s4' \in CacheLinks
    <3>1. "ask" \in CacheSync /\ TRUE \in BOOLEAN
      BY DEF CacheSync
    <3> QED  BY <2>2, <3>1, CacheDown
  <2>4. CacheLinked'
    BY <2>2, <2>3 DEF CacheLinked
  <2>5. s5' => s3 = {}
    BY <1>3 DEF C!Connect
  <2> QED  BY <1>1, <1>2, <2>1, <2>2, <2>4, <2>5 DEF CacheTyped
<1>4. CASE C!Lose
  <2>1. s8' = s8 /\ s5' = FALSE
    BY <1>4 DEF C!Lose
  <2>2. s4' = [up |-> FALSE, wire |-> << >>, sync |-> "off", slot |-> C!NoSheet, todo |-> {}]
    BY <1>4 DEF C!Lose, C!Down
  <2>3. s4' \in CacheLinks
    <3>1. "off" \in CacheSync /\ FALSE \in BOOLEAN
      BY DEF CacheSync
    <3> QED  BY <2>2, <3>1, CacheDown
  <2>4. CacheLinked'
    BY <2>2, <2>3 DEF CacheLinked
  <2> QED  BY <1>1, <1>2, <1>4, <2>1, <2>4 DEF CacheTyped
<1> QED  BY <1>3, <1>4

-----------------------------------------------------------------------------
(* The synchronisation: the answers, their reading, and what they replace. *)

CacheListed == [k |-> "list", s |-> 1, n |-> 0, row |-> C!NoSheet,
                who |-> {<<s, s1[s].meta>> : s \in C!Existing}]
CacheNext == C!Min(s4.todo)
CacheContent(k, s) == [k |-> k, s |-> s, n |-> 0, row |-> s1[s], who |-> C!Existing]

LEMMA CacheListedIs == CacheTyped => CacheListed \in CacheMsgs
<1> SUFFICES ASSUME CacheTyped PROVE CacheListed \in CacheMsgs
  OBVIOUS
<1>1. \A s \in C!Existing : s \in Nat /\ s1[s].meta \in Nat
  BY CacheNat DEF CacheTyped, C!Existing, C!Sheets, C!Contents
<1>2. {<<s, s1[s].meta>> : s \in C!Existing} \subseteq Nat \X Nat
  BY <1>1
<1>3. CacheListed \in CacheEvents
  BY <1>2, CacheNoSheet DEF CacheListed, CacheEvents, CacheKinds
<1> QED  BY <1>3 DEF CacheMsgs, CacheListed

LEMMA CacheContentIs ==
    ASSUME CacheTyped, NEW s \in C!Sheets, NEW k \in {"content", "error"}
    PROVE  CacheContent(k, s) \in CacheMsgs
<1>1. s \in Nat /\ s1[s] \in C!Contents /\ C!Existing \subseteq Nat
  BY CacheNat DEF CacheTyped, C!Existing, C!Sheets
<1>2. CacheContent(k, s) \in CacheEvents
  BY <1>1 DEF CacheContent, CacheEvents, CacheKinds
<1> QED  BY <1>1, <1>2 DEF CacheMsgs, CacheContent

LEMMA CacheNextIs == CacheTyped /\ s4.todo # {} => CacheNext \in s4.todo /\ CacheNext \in C!Sheets
<1> SUFFICES ASSUME CacheTyped, s4.todo # {} PROVE CacheNext \in s4.todo /\ CacheNext \in C!Sheets
  OBVIOUS
<1>1. s4.todo \subseteq C!Sheets /\ s4.todo \in SUBSET Nat
  BY CacheNat DEF CacheTyped, CacheLinked, CacheLinks, C!Sheets
<1> QED  BY <1>1, CacheMin DEF CacheNext

\* What the host answers, and when.
CacheSays(m) == \/ s4.sync = "ask" /\ m = CacheListed
                \/ /\ s4.sync = "cells"
                   /\ m = CacheContent(IF C!Exists(CacheNext) THEN "content" ELSE "error", CacheNext)

LEMMA CacheAnswer ==
    ASSUME CacheTyped, C!Answer
    PROVE  /\ CacheTyped' /\ UNCHANGED <<s1, s2, s3, s5>>
           /\ \E m \in CacheMsgs :
                /\ CacheSays(m)
                /\ s4' = [s4 EXCEPT !.sync = "asked", !.wire = Append(s4.wire, m)]
<1>1. UNCHANGED <<s1, s2, s3, s5, s6, s7, s8>>
  BY DEF C!Answer
<1>2. CacheLate'
  BY <1>1 DEF CacheTyped, CacheLate
<1>3. \E m \in CacheMsgs :
        /\ CacheSays(m)
        /\ s4' = [s4 EXCEPT !.sync = "asked", !.wire = Append(s4.wire, m)]
  <2>1. CASE s4.sync = "ask"
    <3>1. s4' = [s4 EXCEPT !.sync = "asked",
                 !.wire = Append(s4.wire, [C!Reply("list", 1) EXCEPT !.row = C!NoSheet,
                             !.who = {<<s, s1[s].meta>> : s \in C!Existing}])]
      BY <2>1, Zenon DEF C!Answer
    <3>2. [C!Reply("list", 1) EXCEPT !.row = C!NoSheet,
                     !.who = {<<s, s1[s].meta>> : s \in C!Existing}] = CacheListed
      <4>1. \A w : [C!Reply("list", 1) EXCEPT !.row = C!NoSheet, !.who = w]
                    = [k |-> "list", s |-> 1, n |-> 0, row |-> C!NoSheet, who |-> w]
        <5>2. C!Reply("list", 1) = [k |-> "list", s |-> 1, n |-> 0, row |-> s1[1], who |-> C!Existing]
          BY Zenon DEF C!Reply
        <5>3. ASSUME NEW x, NEW w,
                     x = [k |-> "list", s |-> 1, n |-> 0, row |-> s1[1], who |-> C!Existing]
              PROVE  [x EXCEPT !.row = C!NoSheet, !.who = w]
                     = [k |-> "list", s |-> 1, n |-> 0, row |-> C!NoSheet, who |-> w]
          <6>1. [[k |-> "list", s |-> 1, n |-> 0, row |-> s1[1], who |-> C!Existing]
                   EXCEPT !.row = C!NoSheet, !.who = w]
                  = [k |-> "list", s |-> 1, n |-> 0, row |-> C!NoSheet, who |-> w]
            <7>1. [k |-> "list", s |-> 1, n |-> 0, row |-> C!NoSheet, who |-> C!Existing]
                    = [[k |-> "list", s |-> 1, n |-> 0, row |-> s1[1], who |-> C!Existing]
                         EXCEPT !.row = C!NoSheet]
              OBVIOUS
            <7>2. [[k |-> "list", s |-> 1, n |-> 0, row |-> C!NoSheet, who |-> C!Existing]
                     EXCEPT !.who = w]
                    = [k |-> "list", s |-> 1, n |-> 0, row |-> C!NoSheet, who |-> w]
              OBVIOUS
            <7> QED  BY <7>1, <7>2, Zenon
          <6> QED  BY <5>3, <6>1, Zenon
        <5> HIDE DEF C!Reply
        <5> QED  BY <5>2, <5>3, Zenon
      <4> QED  BY <4>1, Zenon DEF CacheListed
    <3>3. s4' = [s4 EXCEPT !.sync = "asked", !.wire = Append(s4.wire, CacheListed)]
      BY <3>1, <3>2, Zenon
    <3> QED  BY <2>1, <3>3, CacheListedIs, Zenon DEF CacheSays
  <2>2. CASE s4.sync = "cells"
    <3>1. CacheNext \in C!Sheets
      BY <2>2, CacheNextIs DEF CacheTyped, CacheLinked
    <3>2. s4' = [s4 EXCEPT !.sync = "asked",
                 !.wire = Append(s4.wire,
                            IF C!Exists(C!Min(s4.todo)) THEN C!Reply("content", C!Min(s4.todo))
                                                       ELSE C!Reply("error", C!Min(s4.todo)))]
      <4>1. s4.sync # "ask"
        BY <2>2
      <4> QED  BY <4>1, Zenon DEF C!Answer
    <3> DEFINE k == IF C!Exists(CacheNext) THEN "content" ELSE "error"
    <3>3. (IF C!Exists(C!Min(s4.todo)) THEN C!Reply("content", C!Min(s4.todo))
                                      ELSE C!Reply("error", C!Min(s4.todo)))
            = CacheContent(k, CacheNext)
      BY DEF C!Reply, CacheContent, CacheNext
    <3>4. s4' = [s4 EXCEPT !.sync = "asked", !.wire = Append(s4.wire, CacheContent(k, CacheNext))]
      BY <3>2, <3>3, Zenon
    <3>5. k \in {"content", "error"}
      OBVIOUS
    <3>6. CacheContent(k, CacheNext) \in CacheMsgs
      <4> HIDE DEF k
      <4> QED  BY <3>1, <3>5, CacheContentIs
    <3> QED  BY <2>2, <3>4, <3>6, Zenon DEF CacheSays
  <2> QED  BY <2>1, <2>2 DEF C!Answer
<1>4. CacheLinked'
  <2>1. PICK m \in CacheMsgs : s4' = [s4 EXCEPT !.sync = "asked", !.wire = Append(s4.wire, m)]
    BY <1>3
  <2>2. s4 \in CacheLinks /\ Append(s4.wire, m) \in Seq(CacheMsgs) /\ "asked" \in CacheSync
    BY <2>1 DEF CacheTyped, CacheLinked, CacheLinks, CacheSync
  <2>3. s4' \in CacheLinks /\ s4'.sync = "asked"
    BY <2>1, <2>2 DEF CacheLinks
  <2> QED  BY <2>3 DEF CacheLinked
<1> QED  BY <1>1, <1>2, <1>3, <1>4 DEF CacheTyped

CacheAnswers == {"list", "content", "error"}

\* The wire after the head was read, and what the reading did.
LEMMA CacheRead ==
    ASSUME CacheTyped, C!ReadWire
    PROVE  /\ CacheTyped' /\ UNCHANGED <<s1, s3, s5>>
           /\ s4.wire # << >> /\ Head(s4.wire) \in CacheMsgs
           /\ Head(s4.wire).k \in CacheAnswers \cup {"presence"} => s2' = s2
           /\ s4' = [s4 EXCEPT !.wire = Tail(s4.wire),
                     !.sync = IF Head(s4.wire).k \in CacheAnswers THEN "got" ELSE s4.sync,
                     !.slot = IF Head(s4.wire).k \in CacheAnswers THEN Head(s4.wire) ELSE s4.slot]
<1> DEFINE e == Head(s4.wire)
<1>1. UNCHANGED <<s1, s3, s5, s6, s8>> /\ s4.wire # << >>
  BY DEF C!ReadWire
<1>2. s4 \in CacheLinks /\ s4.wire \in Seq(CacheMsgs)
  BY DEF CacheTyped, CacheLinked, CacheLinks
<1>3. e \in CacheMsgs /\ Tail(s4.wire) \in Seq(CacheMsgs)
  BY <1>1, <1>2
<1>4. s4' = [s4 EXCEPT !.wire = Tail(s4.wire),
                 !.sync = IF e.k \in CacheAnswers THEN "got" ELSE s4.sync,
                 !.slot = IF e.k \in CacheAnswers THEN e ELSE s4.slot]
  BY Zenon DEF C!ReadWire, CacheAnswers
<1>5. s2' = C!Applied(e) /\ s7' = IF e.k = "presence" THEN [s7 EXCEPT ![e.s] = e.who] ELSE s7
  BY Zenon DEF C!ReadWire
<1> HIDE DEF e
<1>6. e \in CacheEvents /\ (e.k # "list" => e.s \in C!Sheets)
      /\ (e.k = "presence" => e.who \subseteq Lookers)
  BY <1>3 DEF CacheMsgs
<1>7. s2' \in [C!Sheets -> C!Contents]
  <2>1. e.row.meta \in 0 .. MaxEdit /\ e.row.cell \in 0 .. MaxEdit /\ e.row.look \in 0 .. MaxEdit
    BY <1>6 DEF CacheEvents, C!Contents
  <2>2. e.k \in CacheKinds /\ s2 \in [C!Sheets -> C!Contents]
    BY <1>6 DEF CacheEvents, CacheTyped
  <2>3. CASE e.k = "meta"
    <3>1. s2' = [s2 EXCEPT ![e.s] = [s2[e.s] EXCEPT !.meta = e.row.meta]]
      BY <1>5, <2>3 DEF C!Applied, C!Upserted
    <3>2. [s2[e.s] EXCEPT !.meta = e.row.meta] \in C!Contents
      BY <1>6, <2>1, <2>2, <2>3 DEF C!Contents
    <3> QED  BY <2>2, <3>1, <3>2
  <2>4. CASE e.k = "cells"
    <3>1. s2' = [s2 EXCEPT ![e.s] = [s2[e.s] EXCEPT !.cell = e.row.cell]]
      BY <1>5, <2>4 DEF C!Applied, C!CellsApplied
    <3>2. [s2[e.s] EXCEPT !.cell = e.row.cell] \in C!Contents
      BY <1>6, <2>1, <2>2, <2>4 DEF C!Contents
    <3> QED  BY <2>2, <3>1, <3>2
  <2>5. CASE e.k = "look"
    <3>1. s2' = [s2 EXCEPT ![e.s] = [s2[e.s] EXCEPT !.look = e.row.look]]
      BY <1>5, <2>5 DEF C!Applied, C!LookReplaced
    <3>2. [s2[e.s] EXCEPT !.look = e.row.look] \in C!Contents
      BY <1>6, <2>1, <2>2, <2>5 DEF C!Contents
    <3> QED  BY <2>2, <3>1, <3>2
  <2>6. CASE e.k = "removed"
    BY <1>5, <2>2, <2>6, CacheNoSheet DEF C!Applied, C!Removed
  <2>7. CASE e.k \notin {"meta", "cells", "look", "removed"}
    BY <1>5, <2>2, <2>7 DEF C!Applied
  <2> QED  BY <2>3, <2>4, <2>5, <2>6, <2>7
<1>8. e.k \in CacheAnswers \cup {"presence"} => s2' = s2
  BY <1>5 DEF C!Applied, CacheAnswers
<1>9. s7' \in [C!Sheets -> SUBSET Lookers]
  BY <1>5, <1>6 DEF CacheTyped
<1>10. CacheLinked'
  <2>1. CASE e.k \in CacheAnswers
    <3>1. s4' = [s4 EXCEPT !.wire = Tail(s4.wire), !.sync = "got", !.slot = e]
      BY <1>4, <2>1
    <3>2. "got" \in CacheSync
      BY DEF CacheSync
    <3>3. s4' \in CacheLinks /\ s4'.sync = "got" /\ s4'.slot = e
      BY <1>2, <1>3, <3>1, <3>2 DEF CacheLinks
    <3> QED  BY <1>3, <3>3 DEF CacheLinked
  <2>2. CASE e.k \notin CacheAnswers
    <3>1. s4' = [s4 EXCEPT !.wire = Tail(s4.wire)]
      BY <1>2, <1>4, <2>2 DEF CacheLinks
    <3>2. /\ s4' \in CacheLinks /\ s4'.sync = s4.sync /\ s4'.slot = s4.slot
          /\ s4'.todo = s4.todo
      BY <1>2, <1>3, <3>1 DEF CacheLinks
    <3> QED  BY <3>2 DEF CacheLinked, CacheTyped
  <2> QED  BY <2>1, <2>2
<1>11. CacheLate'
  BY <1>1 DEF CacheTyped, CacheLate
<1>12. CacheTyped'
  BY <1>1, <1>7, <1>9, <1>10, <1>11 DEF CacheTyped
<1> QED  BY <1>1, <1>3, <1>4, <1>8, <1>12 DEF e

LEMMA CacheMetaIn ==
    ASSUME NEW list, NEW s
    PROVE  C!MetaIn(list, s) \in 0 .. MaxEdit
<1>1. \A m \in 1 .. MaxEdit : m \in 0 .. MaxEdit
  BY CacheNat
<1> QED  BY <1>1, CacheNat DEF C!MetaIn

\* The list replaces all metas and drops what is not listed.
LEMMA CacheSyncList ==
    ASSUME CacheTyped, C!SyncList
    PROVE  /\ CacheTyped' /\ UNCHANGED <<s1, s3, s5>>
           /\ s4.sync = "got" /\ s4.slot.k = "list"
           /\ s2' = C!ReplacedAll(s4.slot.who)
           /\ s4'.todo = C!First({s \in C!Sheets : C!MetaIn(s4.slot.who, s) > 0})
           /\ s4'.sync = IF s4'.todo = {} THEN "done" ELSE "cells"
           /\ s4'.up = s4.up /\ s4'.wire = s4.wire
<1> DEFINE list == s4.slot.who
           todo == C!First({s \in C!Sheets : C!MetaIn(list, s) > 0})
<1>1. UNCHANGED <<s1, s3, s5, s6, s7, s8>> /\ s4.sync = "got" /\ s4.slot.k = "list"
  BY DEF C!SyncList
<1>2. s4' = [s4 EXCEPT !.slot = C!NoSheet, !.todo = todo,
                 !.sync = IF todo = {} THEN "done" ELSE "cells"]
  BY Zenon DEF C!SyncList
<1>3. s2' = C!ReplacedAll(list)
  BY Zenon DEF C!SyncList
<1>4. todo \subseteq C!Sheets
  BY DEF C!First
<1>5. s2' \in [C!Sheets -> C!Contents]
  <2> HIDE DEF list
  <2>1. ASSUME NEW s \in C!Sheets PROVE [s2[s] EXCEPT !.meta = C!MetaIn(list, s)] \in C!Contents
    BY CacheMetaIn DEF CacheTyped, C!Contents
  <2> QED  BY <1>3, <2>1, CacheNoSheet DEF C!ReplacedAll
<1> HIDE DEF todo
<1>6. s4 \in CacheLinks /\ {"done", "cells"} \subseteq CacheSync
  BY DEF CacheTyped, CacheLinked, CacheSync
<1>7. /\ s4' \in CacheLinks /\ s4'.todo = todo /\ s4'.up = s4.up /\ s4'.wire = s4.wire
      /\ s4'.sync = IF todo = {} THEN "done" ELSE "cells"
  BY <1>2, <1>4, <1>6 DEF CacheLinks
<1>8. CacheLinked' /\ CacheLate'
  BY <1>1, <1>7 DEF CacheLinked, CacheTyped, CacheLate
<1>9. CacheTyped'
  BY <1>1, <1>5, <1>8 DEF CacheTyped
<1> QED  BY <1>1, <1>3, <1>7, <1>9 DEF todo

\* The content of one sheet is replaced, and the next is asked for.
LEMMA CacheSyncCells ==
    ASSUME CacheTyped, C!SyncCells
    PROVE  /\ CacheTyped' /\ UNCHANGED <<s1, s3, s5>>
           /\ s4.sync = "got" /\ s4.slot.k \in {"content", "error"} /\ s4.slot.s \in C!Sheets
           /\ s4.slot.k = "error" => s2' = s2
           /\ s4.slot.k = "content" =>
                 s2' = [s2 EXCEPT ![s4.slot.s] = [s2[s4.slot.s] EXCEPT !.cell = s4.slot.row.cell,
                                                                      !.look = s4.slot.row.look]]
           /\ s4'.todo = s4.todo \ {s4.slot.s}
           /\ s4'.sync = IF s4'.todo = {} THEN "done" ELSE "cells"
           /\ s4'.up = s4.up /\ s4'.wire = s4.wire
<1> DEFINE s == s4.slot.s
           rest == s4.todo \ {s}
<1>1. /\ UNCHANGED <<s1, s3, s5, s6, s7, s8>> /\ s4.sync = "got"
      /\ s4.slot.k \in {"content", "error"}
  BY DEF C!SyncCells
<1>2. s4' = [s4 EXCEPT !.slot = C!NoSheet, !.todo = rest,
                 !.sync = IF rest = {} THEN "done" ELSE "cells"]
  BY Zenon DEF C!SyncCells
<1>3. s2' = IF s4.slot.k = "error" THEN s2 ELSE C!ContentReplaced(s, s4.slot.row)
  BY Zenon DEF C!SyncCells
<1>4. s4.slot \in CacheEvents /\ s \in C!Sheets /\ s4.slot.row \in C!Contents
  BY <1>1 DEF CacheTyped, CacheLinked, CacheMsgs, CacheEvents
<1>5. s4 \in CacheLinks /\ {"done", "cells"} \subseteq CacheSync /\ rest \subseteq C!Sheets
  BY DEF CacheTyped, CacheLinked, CacheSync, CacheLinks
<1> HIDE DEF rest, s
<1>6. s4.slot.k # "error" => s2' = [s2 EXCEPT ![s] = [s2[s] EXCEPT !.cell = s4.slot.row.cell,
                                                                  !.look = s4.slot.row.look]]
  BY <1>3, <1>4 DEF C!ContentReplaced, CacheTyped, C!Contents
<1>7. s2' \in [C!Sheets -> C!Contents]
  <2>1. [s2[s] EXCEPT !.cell = s4.slot.row.cell, !.look = s4.slot.row.look] \in C!Contents
    BY <1>4 DEF CacheTyped, C!Contents
  <2> QED  BY <1>3, <1>4, <1>6, <2>1 DEF CacheTyped
<1>8. /\ s4' \in CacheLinks /\ s4'.todo = rest /\ s4'.up = s4.up /\ s4'.wire = s4.wire
      /\ s4'.sync = IF rest = {} THEN "done" ELSE "cells"
  BY <1>2, <1>5 DEF CacheLinks
<1>9. CacheLinked' /\ CacheLate'
  BY <1>1, <1>8 DEF CacheLinked, CacheTyped, CacheLate
<1>10. CacheTyped'
  BY <1>1, <1>7, <1>9 DEF CacheTyped
<1> QED  BY <1>1, <1>3, <1>4, <1>6, <1>8, <1>10 DEF rest, s

-----------------------------------------------------------------------------
(* While nothing changes after a connection was made, what the host        *)
(* answered is what it has, and so is what the member replaced.            *)

CacheTrue == s5 =>
    /\ s4.up /\ s4.sync \in {"ask", "asked", "cells", "got", "done"}
    /\ \A e \in s3 : e.k = "presence"
    /\ s4.todo \subseteq C!First(C!Existing)
    /\ s4.sync \in {"ask", "done"} => s4.todo = {}

\* The answer that is due: the list before anything is to be fetched, then
\* the content of the next sheet, which exists.
CacheDueAnswer == IF s4.todo = {} THEN CacheListed ELSE CacheContent("content", CacheNext)

CacheWire == s5 =>
    /\ \A i \in 1 .. Len(s4.wire) :
         s4.wire[i].k = "presence" \/ (s4.sync = "asked" /\ s4.wire[i] = CacheDueAnswer)
    /\ \A i, j \in 1 .. Len(s4.wire) :
         s4.wire[i].k = "presence" \/ s4.wire[j].k = "presence" \/ i = j
    /\ s4.sync = "got" => s4.slot = CacheDueAnswer

\* What was replaced so far: every meta, every sheet that is gone, and of
\* the first sheets those not to be fetched any more.
CacheSame(todo) ==
    /\ \A s \in C!Sheets : s2[s].meta = s1[s].meta
    /\ \A s \in C!First(C!Existing) \ todo : s2[s] = s1[s]
    /\ \A s \in C!Sheets \ C!Existing : s2[s] = C!NoSheet
CacheFilled == (s5 /\ (s4.sync = "done" \/ s4.todo # {})) => CacheSame(s4.todo)

CacheInv == CacheTyped /\ CacheTrue /\ CacheWire /\ CacheFilled

LEMMA CacheStill ==
    ASSUME CacheInv, CacheTyped', UNCHANGED <<s1, s2, s4, s5>>,
           s5 => \A e \in s3' : e.k = "presence"
    PROVE  CacheInv'
<1>1. UNCHANGED <<C!Existing, CacheListed, CacheNext>>
  BY DEF C!Existing, C!Exists, CacheListed, CacheNext
<1>2. UNCHANGED CacheContent("content", CacheNext)
  BY <1>1 DEF CacheContent
<1>3. UNCHANGED CacheDueAnswer
  BY <1>1, <1>2 DEF CacheDueAnswer
<1>4. CacheTrue'
  BY <1>1 DEF CacheInv, CacheTrue
<1>5. CacheWire'
  BY <1>3 DEF CacheInv, CacheWire
<1>6. CacheFilled'
  <2>1. CacheSame(s4.todo) => CacheSame(s4.todo)'
    BY <1>1 DEF CacheSame
  <2> QED  BY <2>1 DEF CacheInv, CacheFilled
<1> QED  BY <1>4, <1>5, <1>6 DEF CacheInv

LEMMA CacheQuiet == CacheInv /\ s5' = FALSE /\ CacheTyped' => CacheInv'
BY DEF CacheInv, CacheTrue, CacheWire, CacheFilled

LEMMA CacheKeepsSend ==
    ASSUME CacheInv, NEW e \in s3, C!SendLate(e)
    PROVE  CacheInv'
<1>1. /\ CacheTyped' /\ s3' \subseteq s3 /\ UNCHANGED <<s1, s2, s5>>
      /\ s4' = s4 \/ s4' = [s4 EXCEPT !.wire = Append(s4.wire, e)]
  BY CacheSend DEF CacheInv
<1>2. CASE s4' = s4
  BY <1>1, <1>2, CacheStill DEF CacheInv, CacheTrue
<1>3. CASE ~s5
  BY <1>1, <1>3, CacheQuiet
<1>4. CASE s5 /\ s4' = [s4 EXCEPT !.wire = Append(s4.wire, e)]
  <2>1. s4 \in CacheLinks /\ s4.wire \in Seq(CacheMsgs)
    BY DEF CacheInv, CacheTyped, CacheLinked, CacheLinks
  <2>2. /\ s4'.up = s4.up /\ s4'.sync = s4.sync /\ s4'.todo = s4.todo /\ s4'.slot = s4.slot
        /\ s4'.wire = Append(s4.wire, e)
    BY <1>4, <2>1 DEF CacheLinks
  <2>3. e.k = "presence" /\ s5'
    BY <1>1, <1>4 DEF CacheInv, CacheTrue
  <2>4. UNCHANGED <<C!Existing, CacheListed, CacheNext>>
    BY <1>1, <2>2 DEF C!Existing, C!Exists, CacheListed, CacheNext
  <2>5. UNCHANGED CacheDueAnswer
    BY <1>1, <2>2, <2>4 DEF CacheDueAnswer, CacheContent
  <2>6. CacheTrue'
    BY <1>1, <1>4, <2>2, <2>4 DEF CacheInv, CacheTrue
  <2>7. CacheWire'
    <3>1. /\ Len(s4'.wire) = Len(s4.wire) + 1 /\ Len(s4.wire) \in Nat
          /\ \A i \in 1 .. Len(s4'.wire) : \/ i \in 1 .. Len(s4.wire) /\ s4'.wire[i] = s4.wire[i]
                                          \/ s4'.wire[i].k = "presence"
      <4>1. e \in CacheMsgs
        BY DEF CacheInv, CacheTyped, CacheLate
      <4>2. /\ Len(s4'.wire) = Len(s4.wire) + 1 /\ Len(s4.wire) \in Nat
            /\ s4'.wire[Len(s4.wire) + 1] = e
            /\ \A i \in 1 .. Len(s4.wire) : s4'.wire[i] = s4.wire[i]
        BY <2>1, <2>2, <4>1
      <4> QED  BY <2>3, <4>2
    <3> QED  BY <1>4, <2>2, <2>5, <3>1 DEF CacheInv, CacheWire
  <2>8. CacheFilled'
    <3>1. CacheSame(s4.todo) => CacheSame(s4.todo)'
      BY <1>1, <2>2, <2>4 DEF CacheSame
    <3> QED  BY <1>4, <2>2, <3>1 DEF CacheInv, CacheFilled
  <2> QED  BY <1>1, <2>6, <2>7, <2>8 DEF CacheInv
<1> QED  BY <1>1, <1>2, <1>3, <1>4

LEMMA CacheKeepsConnect == CacheInv /\ (C!Connect \/ C!Lose) => CacheInv'
<1> SUFFICES ASSUME CacheInv, C!Connect \/ C!Lose PROVE CacheInv'
  OBVIOUS
<1>1. /\ CacheTyped' /\ UNCHANGED <<s1, s2, s3>>
      /\ \/ C!Lose /\ s5' = FALSE
         \/ /\ s5' => s3 = {}
            /\ s4' = [up |-> TRUE, wire |-> << >>, sync |-> "ask",
                       slot |-> C!NoSheet, todo |-> {}]
  BY CacheConnect DEF CacheInv
<1>2. CASE s5' = FALSE
  BY <1>1, <1>2, CacheQuiet
<1>3. CASE s5' # FALSE
  <2>1. /\ s3' = {} /\ s4'.up = TRUE /\ s4'.wire = << >> /\ s4'.sync = "ask"
        /\ s4'.todo = {} /\ s5'
    <3>1. s5'
      BY <1>1, <1>3 DEF CacheTyped
    <3>2. s4' = [up |-> TRUE, wire |-> << >>, sync |-> "ask", slot |-> C!NoSheet, todo |-> {}]
      BY <1>1, <1>3
    <3>3. s3' = {}
      BY <1>1, <1>3, <3>1
    <3> QED  BY <3>1, <3>2, <3>3
  <2>2. CacheTrue' /\ CacheFilled'
    BY <2>1 DEF CacheTrue, CacheFilled
  <2>3. Len(s4'.wire) = 0
    BY <2>1
  <2>4. CacheWire'
    BY <2>1, <2>3 DEF CacheWire
  <2> QED  BY <1>1, <2>2, <2>4 DEF CacheInv
<1> QED  BY <1>2, <1>3

\* The next sheet to be fetched exists.
LEMMA CacheNextExists ==
    ASSUME CacheInv, s5, s4.todo # {}
    PROVE  CacheNext \in s4.todo /\ CacheNext \in C!Sheets /\ C!Exists(CacheNext)
<1>1. CacheNext \in s4.todo /\ CacheNext \in C!Sheets
  BY CacheNextIs DEF CacheInv
<1>2. CacheNext \in C!Existing
  BY <1>1 DEF CacheInv, CacheTrue, C!First
<1> QED  BY <1>1, <1>2 DEF C!Existing

LEMMA CacheKeepsAnswer == CacheInv /\ C!Answer => CacheInv'
<1> SUFFICES ASSUME CacheInv, C!Answer PROVE CacheInv'
  OBVIOUS
<1>1. PICK m \in CacheMsgs :
        /\ CacheTyped' /\ UNCHANGED <<s1, s2, s3, s5>> /\ CacheSays(m)
        /\ s4' = [s4 EXCEPT !.sync = "asked", !.wire = Append(s4.wire, m)]
  BY CacheAnswer DEF CacheInv
<1>2. CASE ~s5
  BY <1>1, <1>2, CacheQuiet DEF CacheInv, CacheTyped
<1>3. CASE s5
  <2>1. s4 \in CacheLinks /\ s4.wire \in Seq(CacheMsgs)
    BY DEF CacheInv, CacheTyped, CacheLinked, CacheLinks
  <2>2. /\ s4'.up = s4.up /\ s4'.sync = "asked" /\ s4'.todo = s4.todo
        /\ s4'.wire = Append(s4.wire, m)
    BY <1>1, <2>1 DEF CacheLinks
  <2>3. UNCHANGED <<C!Existing, CacheListed, CacheNext>>
    BY <1>1, <2>2 DEF C!Existing, C!Exists, CacheListed, CacheNext
  <2>4. UNCHANGED CacheDueAnswer
    BY <1>1, <2>2, <2>3 DEF CacheDueAnswer, CacheContent
  <2>5. m = CacheDueAnswer
    <3>1. CASE s4.sync = "ask"
      BY <1>1, <1>3, <3>1 DEF CacheSays, CacheInv, CacheTrue, CacheDueAnswer
    <3>2. CASE s4.sync = "cells"
      <4>1. s4.todo # {}
        BY <3>2 DEF CacheInv, CacheTyped, CacheLinked
      <4>2. C!Exists(CacheNext)
        BY <1>3, <4>1, CacheNextExists
      <4> QED  BY <1>1, <3>2, <4>1, <4>2 DEF CacheSays, CacheDueAnswer
    <3> QED  BY <1>1, <3>1, <3>2 DEF CacheSays
  <2>6. CacheTrue'
    BY <1>1, <1>3, <2>2, <2>3 DEF CacheInv, CacheTrue
  <2>7. CacheWire'
    <3>1. \A i \in 1 .. Len(s4.wire) : s4.wire[i].k = "presence"
      BY <1>1, <1>3 DEF CacheSays, CacheInv, CacheWire
    <3>2. /\ Len(s4'.wire) = Len(s4.wire) + 1 /\ Len(s4.wire) \in Nat
          /\ s4'.wire[Len(s4.wire) + 1] = m
          /\ \A i \in 1 .. Len(s4.wire) : s4'.wire[i] = s4.wire[i]
      BY <2>1, <2>2
    <3>3. \A i \in 1 .. Len(s4'.wire) : s4'.wire[i].k = "presence"
                                        \/ (i = Len(s4.wire) + 1 /\ s4'.wire[i] = m)
      BY <3>1, <3>2
    <3>4. \A i \in 1 .. Len(s4'.wire) : s4'.wire[i].k = "presence"
                                        \/ (s4'.sync = "asked" /\ s4'.wire[i] = CacheDueAnswer')
      BY <2>2, <2>4, <2>5, <3>3
    <3>5. \A i, j \in 1 .. Len(s4'.wire) :
            s4'.wire[i].k = "presence" \/ s4'.wire[j].k = "presence" \/ i = j
      BY <3>3
    <3>6. s4'.sync # "got"
      BY <2>2
    <3> QED  BY <3>4, <3>5, <3>6 DEF CacheWire
  <2>8. CacheFilled'
    <3>1. CacheSame(s4.todo) => CacheSame(s4.todo)'
      BY <1>1, <2>2, <2>3 DEF CacheSame
    <3> QED  BY <1>1, <1>3, <2>2, <3>1 DEF CacheInv, CacheFilled, CacheSays
  <2> QED  BY <1>1, <2>6, <2>7, <2>8 DEF CacheInv
<1> QED  BY <1>2, <1>3

LEMMA CacheKeepsRead == CacheInv /\ C!ReadWire => CacheInv'
<1> SUFFICES ASSUME CacheInv, C!ReadWire PROVE CacheInv'
  OBVIOUS
<1> DEFINE e == Head(s4.wire)
<1>1. /\ CacheTyped' /\ UNCHANGED <<s1, s3, s5>>
      /\ s4.wire # << >> /\ e \in CacheMsgs
      /\ e.k \in CacheAnswers \cup {"presence"} => s2' = s2
      /\ s4' = [s4 EXCEPT !.wire = Tail(s4.wire),
                          !.sync = IF e.k \in CacheAnswers THEN "got" ELSE s4.sync,
                          !.slot = IF e.k \in CacheAnswers THEN e ELSE s4.slot]
  BY CacheRead DEF CacheInv
<1>2. CASE ~s5
  BY <1>1, <1>2, CacheQuiet DEF CacheInv, CacheTyped
<1>3. CASE s5
  <2>1. s4 \in CacheLinks /\ s4.wire \in Seq(CacheMsgs)
    BY DEF CacheInv, CacheTyped, CacheLinked, CacheLinks
  <2>2. /\ e = s4.wire[1] /\ 1 \in 1 .. Len(s4.wire) /\ Len(s4.wire) \in Nat
        /\ Len(Tail(s4.wire)) = Len(s4.wire) - 1
        /\ \A i \in 1 .. Len(Tail(s4.wire)) : /\ Tail(s4.wire)[i] = s4.wire[i + 1]
                                              /\ i + 1 \in 1 .. Len(s4.wire)
    BY <1>1, <2>1
  <2> HIDE DEF e
  <2>3. e.k = "presence" \/ (s4.sync = "asked" /\ e = CacheDueAnswer)
    BY <1>3, <2>2 DEF CacheInv, CacheWire
  <2>4. CacheDueAnswer.k \in {"list", "content"}
    BY DEF CacheDueAnswer, CacheListed, CacheContent
  <2>5. s2' = s2 /\ s5'
    BY <1>1, <1>3, <2>3, <2>4 DEF CacheAnswers
  <2>6. /\ s4'.up = s4.up /\ s4'.todo = s4.todo /\ s4'.wire = Tail(s4.wire)
        /\ s4'.sync = IF e.k \in CacheAnswers THEN "got" ELSE s4.sync
        /\ s4'.slot = IF e.k \in CacheAnswers THEN e ELSE s4.slot
    BY <1>1, <2>1 DEF CacheLinks
  <2>7. UNCHANGED <<C!Existing, CacheListed, CacheNext>>
    BY <1>1, <2>6 DEF C!Existing, C!Exists, CacheListed, CacheNext
  <2>8. UNCHANGED CacheDueAnswer
    BY <1>1, <2>6, <2>7 DEF CacheDueAnswer, CacheContent
  <2>9. s4'.sync = s4.sync \/ (s4.sync = "asked" /\ s4'.sync = "got")
    BY <2>3, <2>6 DEF CacheAnswers
  <2>10. CacheTrue'
    BY <1>1, <1>3, <2>6, <2>7, <2>9 DEF CacheInv, CacheTrue
  <2>11. CacheFilled'
    <3>1. CacheSame(s4.todo) => CacheSame(s4.todo)'
      BY <1>1, <2>5, <2>6, <2>7 DEF CacheSame
    <3> QED  BY <1>3, <2>6, <2>9, <3>1 DEF CacheInv, CacheFilled
  <2>12. CacheWire'
    <3>1. CASE e.k = "presence"
      <4>1. s4'.sync = s4.sync /\ s4'.slot = s4.slot
        BY <2>6, <3>1 DEF CacheAnswers
      <4>2. \A i \in 1 .. Len(s4'.wire) : s4'.wire[i] = s4.wire[i + 1] /\ i + 1 \in 1 .. Len(s4.wire)
        BY <2>2, <2>6
      <4>3. \A i \in 1 .. Len(s4'.wire) :
              s4'.wire[i].k = "presence" \/ (s4'.sync = "asked" /\ s4'.wire[i] = CacheDueAnswer')
        BY <1>3, <2>8, <4>1, <4>2 DEF CacheInv, CacheWire
      <4>4. \A i, j \in 1 .. Len(s4'.wire) :
              s4'.wire[i].k = "presence" \/ s4'.wire[j].k = "presence" \/ i = j
        <5>1. \A x, y \in 1 .. Len(s4.wire) :
                s4.wire[x].k = "presence" \/ s4.wire[y].k = "presence" \/ x = y
          BY <1>3 DEF CacheInv, CacheWire
        <5> SUFFICES ASSUME NEW i \in 1 .. Len(s4'.wire), NEW j \in 1 .. Len(s4'.wire)
                     PROVE  s4'.wire[i].k = "presence" \/ s4'.wire[j].k = "presence" \/ i = j
          OBVIOUS
        <5>2. s4.wire[i + 1].k = "presence" \/ s4.wire[j + 1].k = "presence" \/ i + 1 = j + 1
          BY <4>2, <5>1
        <5>3. i + 1 = j + 1 => i = j
          OBVIOUS
        <5> QED  BY <4>2, <5>2, <5>3
      <4>5. s4'.sync = "got" => s4'.slot = CacheDueAnswer'
        BY <1>3, <2>8, <4>1 DEF CacheInv, CacheWire
      <4> QED  BY <4>3, <4>4, <4>5 DEF CacheWire
    <3>2. CASE e.k # "presence"
      <4>1. s4'.sync = "got" /\ s4'.slot = CacheDueAnswer'
        BY <2>3, <2>4, <2>6, <2>8, <3>2 DEF CacheAnswers
      <4>2. \A i \in 1 .. Len(s4'.wire) :
              s4'.wire[i] = s4.wire[i + 1] /\ i + 1 \in 1 .. Len(s4.wire) /\ i + 1 # 1
        BY <2>2, <2>6
      <4>3. \A i \in 1 .. Len(s4'.wire) : s4'.wire[i].k = "presence"
        BY <1>3, <2>2, <3>2, <4>2 DEF CacheInv, CacheWire
      <4> QED  BY <4>1, <4>3 DEF CacheWire
    <3> QED  BY <3>1, <3>2
  <2> QED  BY <1>1, <2>10, <2>11, <2>12 DEF CacheInv
<1> QED  BY <1>2, <1>3

\* What the list says of a sheet is the host's meta, 0 for one that is gone.
LEMMA CacheMetaTrue ==
    ASSUME CacheTyped, NEW s \in C!Sheets
    PROVE  C!MetaIn({<<t, s1[t].meta>> : t \in C!Existing}, s) = s1[s].meta
<1> DEFINE list == {<<t, s1[t].meta>> : t \in C!Existing}
<1>1. s1[s].meta \in 0 .. MaxEdit /\ MaxEdit \in Nat
  BY CacheNat DEF CacheTyped, C!Contents
<1>2. \A m : <<s, m>> \in list <=> s \in C!Existing /\ m = s1[s].meta
  OBVIOUS
<1> HIDE DEF list
<1>3. CASE s \in C!Existing
  <2>1. s1[s].meta > 0
    BY <1>3 DEF C!Existing, C!Exists
  <2>2. s1[s].meta \in 1 .. MaxEdit
    BY <1>1, <2>1
  <2>3. (CHOOSE m \in 1 .. MaxEdit : <<s, m>> \in list) = s1[s].meta
    BY <1>2, <1>3, <2>2
  <2> QED  BY <1>2, <1>3, <2>2, <2>3 DEF C!MetaIn, list
<1>4. CASE s \notin C!Existing
  <2>1. s1[s].meta = 0
    BY <1>1, <1>4 DEF C!Existing, C!Exists
  <2> QED  BY <1>2, <1>4, <2>1 DEF C!MetaIn, list
<1> QED  BY <1>3, <1>4

LEMMA CacheKeepsList == CacheInv /\ C!SyncList => CacheInv'
<1> SUFFICES ASSUME CacheInv, C!SyncList PROVE CacheInv'
  OBVIOUS
<1> DEFINE list == {<<t, s1[t].meta>> : t \in C!Existing}
<1>1. /\ CacheTyped' /\ UNCHANGED <<s1, s3, s5>>
      /\ s4.sync = "got" /\ s4.slot.k = "list"
      /\ s2' = C!ReplacedAll(s4.slot.who)
      /\ s4'.todo = C!First({s \in C!Sheets : C!MetaIn(s4.slot.who, s) > 0})
      /\ s4'.sync = IF s4'.todo = {} THEN "done" ELSE "cells"
      /\ s4'.up = s4.up /\ s4'.wire = s4.wire
  BY CacheSyncList DEF CacheInv
<1>2. CASE ~s5
  BY <1>1, <1>2, CacheQuiet DEF CacheInv, CacheTyped
<1>3. CASE s5
  <2>1. s4.slot.who = list
    <3>1. s4.slot = CacheDueAnswer
      BY <1>1, <1>3 DEF CacheInv, CacheWire
    <3>2. s4.slot = CacheListed
      BY <1>1, <3>1 DEF CacheDueAnswer, CacheContent
    <3> QED  BY <3>2 DEF CacheListed
  <2>2. CacheTyped
    BY DEF CacheInv
  <2> HIDE DEF list
  <2>3. \A s \in C!Sheets : C!MetaIn(list, s) = s1[s].meta
    BY <2>2, CacheMetaTrue DEF list
  <2>4. {s \in C!Sheets : C!MetaIn(list, s) > 0} = C!Existing
    BY <2>3 DEF C!Existing, C!Exists
  <2>5. s4'.todo = C!First(C!Existing)
    BY <1>1, <2>1, <2>4
  <2>6. C!Existing' = C!Existing
    BY <1>1 DEF C!Existing, C!Exists
  <2>7. s4'.sync \in {"done", "cells"} /\ (s4'.sync = "done" => s4'.todo = {}) /\ s5'
    BY <1>1, <1>3
  <2>8. CacheTrue'
    BY <1>1, <1>3, <2>5, <2>6, <2>7 DEF CacheInv, CacheTrue, C!First
  <2>9. CacheWire'
    <3>1. \A i \in 1 .. Len(s4.wire) : s4.wire[i].k = "presence"
      BY <1>1, <1>3 DEF CacheInv, CacheWire
    <3> QED  BY <1>1, <2>7, <3>1 DEF CacheWire
  <2>10. CacheSame(s4.todo)'
    <3>1. \A s \in C!Sheets : s2'[s] = IF s1[s].meta = 0 THEN C!NoSheet
                                      ELSE [s2[s] EXCEPT !.meta = s1[s].meta]
      BY <1>1, <2>1, <2>3 DEF C!ReplacedAll
    <3>2. \A s \in C!Sheets : s2'[s].meta = s1'[s].meta
      <4>1. C!NoSheet.meta = 0
        BY DEF C!NoSheet
      <4>2. \A s \in C!Sheets : [s2[s] EXCEPT !.meta = s1[s].meta].meta = s1[s].meta
        BY <2>2 DEF CacheTyped, C!Contents
      <4> QED  BY <1>1, <3>1, <4>1, <4>2
    <3>3. \A s \in C!Sheets \ C!Existing : s2'[s] = C!NoSheet
      <4>1. \A s \in C!Sheets \ C!Existing : s1[s].meta = 0
        BY <2>2, CacheNat DEF CacheTyped, C!Contents, C!Existing, C!Exists
      <4> QED  BY <3>1, <4>1
    <3>4. C!First(C!Existing)' \ s4'.todo = {}
      BY <2>5, <2>6 DEF C!First
    <3> QED  BY <2>6, <3>2, <3>3, <3>4 DEF CacheSame
  <2> QED  BY <1>1, <2>8, <2>9, <2>10 DEF CacheInv, CacheFilled
<1> QED  BY <1>2, <1>3

LEMMA CacheKeepsCells == CacheInv /\ C!SyncCells => CacheInv'
<1> SUFFICES ASSUME CacheInv, C!SyncCells PROVE CacheInv'
  OBVIOUS
<1>1. /\ CacheTyped' /\ UNCHANGED <<s1, s3, s5>>
      /\ s4.sync = "got" /\ s4.slot.k \in {"content", "error"} /\ s4.slot.s \in C!Sheets
      /\ s4.slot.k = "content" =>
            s2' = [s2 EXCEPT ![s4.slot.s] = [s2[s4.slot.s] EXCEPT !.cell = s4.slot.row.cell,
                                                                 !.look = s4.slot.row.look]]
      /\ s4'.todo = s4.todo \ {s4.slot.s}
      /\ s4'.sync = IF s4'.todo = {} THEN "done" ELSE "cells"
      /\ s4'.up = s4.up /\ s4'.wire = s4.wire
  BY CacheSyncCells DEF CacheInv
<1>2. CASE ~s5
  BY <1>1, <1>2, CacheQuiet DEF CacheInv, CacheTyped
<1>3. CASE s5
  <2> DEFINE n == CacheNext
  <2>1. s4.slot = CacheDueAnswer
    BY <1>1, <1>3 DEF CacheInv, CacheWire
  <2>2. s4.todo # {} /\ s4.slot = CacheContent("content", n)
    BY <1>1, <2>1 DEF CacheDueAnswer, CacheListed
  <2>3. s4.slot.k = "content" /\ s4.slot.s = n /\ s4.slot.row = s1[n]
    BY <2>2 DEF CacheContent
  <2> HIDE DEF n
  <2>4. CacheTyped
    BY DEF CacheInv
  <2>5. s2' = [s2 EXCEPT ![n] = [s2[n] EXCEPT !.cell = s1[n].cell, !.look = s1[n].look]]
    BY <1>1, <2>3
  <2>6. CacheSame(s4.todo) /\ n \in C!Sheets
    BY <1>1, <1>3, <2>2, <2>3 DEF CacheInv, CacheFilled
  <2>7. s2'[n] = s1[n]
    <3>1. s2[n] \in C!Contents /\ s1[n] \in C!Contents /\ s2[n].meta = s1[n].meta
      BY <2>4, <2>6 DEF CacheTyped, CacheSame
    <3>2. [s2[n] EXCEPT !.cell = s1[n].cell, !.look = s1[n].look] = s1[n]
      BY <3>1 DEF C!Contents
    <3> QED  BY <2>4, <2>5, <2>6, <3>2 DEF CacheTyped
  <2>8. \A s \in C!Sheets : s # n => s2'[s] = s2[s]
    BY <2>4, <2>5 DEF CacheTyped
  <2>9. UNCHANGED C!Existing
    BY <1>1 DEF C!Existing, C!Exists
  <2>10. s4'.sync \in {"done", "cells"} /\ (s4'.sync = "done" => s4'.todo = {}) /\ s5'
    BY <1>1, <1>3
  <2>11. CacheTrue'
    BY <1>1, <1>3, <2>9, <2>10 DEF CacheInv, CacheTrue, C!First
  <2>12. CacheWire'
    <3>1. \A i \in 1 .. Len(s4.wire) : s4.wire[i].k = "presence"
      BY <1>1, <1>3 DEF CacheInv, CacheWire
    <3> QED  BY <1>1, <2>10, <3>1 DEF CacheWire
  <2>13. CacheSame(s4.todo)'
    <3>1. n \in C!Existing
      BY <1>3, <2>2, CacheNextExists DEF n, C!Existing
    <3>2. \A s \in C!Sheets : s2'[s].meta = s1'[s].meta
      BY <1>1, <2>6, <2>7, <2>8 DEF CacheSame
    <3>3. \A s \in C!Sheets \ C!Existing : s2'[s] = C!NoSheet
      BY <2>6, <2>8, <3>1 DEF CacheSame
    <3>4. \A s \in C!First(C!Existing) \ s4'.todo : s2'[s] = s1'[s]
      <4>1. \A s \in C!First(C!Existing) : s \in C!Sheets
        BY DEF C!First, C!Existing
      <4> QED  BY <1>1, <2>3, <2>6, <2>7, <2>8, <4>1 DEF CacheSame
    <3>5. C!First(C!Existing)' = C!First(C!Existing)
      BY <2>9 DEF C!First
    <3> QED  BY <2>9, <3>2, <3>3, <3>4, <3>5 DEF CacheSame
  <2> QED  BY <1>1, <2>11, <2>12, <2>13 DEF CacheInv, CacheFilled
<1> QED  BY <1>2, <1>3

LEMMA CacheKeeps == CacheInv /\ C!Next => CacheInv'
<1> SUFFICES ASSUME CacheInv, C!Next PROVE CacheInv'
  OBVIOUS
<1>1. ASSUME NEW s \in C!Sheets, CacheEdits(s) PROVE CacheInv'
  BY <1>1, CacheEditStep, CacheQuiet DEF CacheInv
<1>2. ASSUME CachePresence, CacheTyped', UNCHANGED <<s1, s2, s4, s5>> PROVE CacheInv'
  <2>1. s5 => \A e \in s3' : e.k = "presence"
    BY <1>2 DEF CachePresence, CacheInv, CacheTrue
  <2> QED  BY <1>2, <2>1, CacheStill
<1>3. ASSUME NEW p \in Lookers, NEW s \in C!Sheets, C!Select(p, s) PROVE CacheInv'
  BY <1>2, <1>3, CacheSelect DEF CacheInv
<1>4. ASSUME NEW p \in Lookers, C!Sweep(p) PROVE CacheInv'
  BY <1>2, <1>4, CacheSweep DEF CacheInv
<1>5. ASSUME NEW e \in s3, C!SendLate(e) PROVE CacheInv'
  BY <1>5, CacheKeepsSend
<1> QED  BY <1>1, <1>3, <1>4, <1>5, CacheKeepsConnect, CacheKeepsAnswer, CacheKeepsRead,
            CacheKeepsList, CacheKeepsCells DEF C!Next, CacheEdits

LEMMA CacheStarts == C!Init => CacheInv
<1> SUFFICES ASSUME C!Init PROVE CacheInv
  OBVIOUS
<1>1. /\ s1 = [s \in C!Sheets |-> C!NoSheet] /\ s2 = s1 /\ s3 = {} /\ s5 = FALSE
      /\ s6 = [p \in Lookers |-> 0] /\ s7 = [s \in C!Sheets |-> {}]
      /\ s8 = [edit |-> 0, look |-> 0, join |-> 0]
      /\ s4 = [up |-> FALSE, wire |-> << >>, sync |-> "off", slot |-> C!NoSheet, todo |-> {}]
  BY DEF C!Init, C!Down
<1>2. s1 \in [C!Sheets -> C!Contents] /\ s2 \in [C!Sheets -> C!Contents]
  BY <1>1, CacheNoSheet
<1>3. CacheLinked
  <2>1. "off" \in CacheSync /\ FALSE \in BOOLEAN
    BY DEF CacheSync
  <2>2. s4 \in CacheLinks
    BY <1>1, <2>1, CacheDown
  <2> QED  BY <1>1, <2>2 DEF CacheLinked
<1>4. s6 \in [Lookers -> C!Numbers] /\ s7 \in [C!Sheets -> SUBSET Lookers] /\ s8 \in CacheCounts
  BY <1>1, CacheNat DEF C!Numbers, CacheCounts
<1>5. CacheLate
  BY <1>1 DEF CacheLate
<1>6. CacheTyped
  BY <1>1, <1>2, <1>3, <1>4, <1>5 DEF CacheTyped
<1> QED  BY <1>1, <1>6 DEF CacheInv, CacheTrue, CacheWire, CacheFilled

LEMMA CacheGives == CacheInv => C!TypeOK /\ C!SheetsRepaired
<1> SUFFICES ASSUME CacheInv PROVE C!TypeOK /\ C!SheetsRepaired
  OBVIOUS
<1>1. C!Cardinality(s3) <= 2
  <2>1. PICK e : s3 \subseteq {e}
    BY DEF CacheInv, CacheTyped, CacheLate
  <2>2. s3 = {} \/ s3 = {e}
    BY <2>1
  <2>3. Cardinality(s3) = 0 \/ Cardinality(s3) = 1
    BY <2>2, FS_Singleton, FS_EmptySet
  <2>4. C!Cardinality(s3) = Cardinality(s3)
    BY CacheCount
  <2> QED  BY <2>3, <2>4
<1>2. s4 \in CacheLinks
  BY DEF CacheInv, CacheTyped, CacheLinked
<1>3. s4.up \in BOOLEAN /\ s4.todo \subseteq C!Sheets /\ s4.sync \in CacheSync
  BY <1>2 DEF CacheLinks
<1>4. C!TypeOK
  BY <1>1, <1>3 DEF CacheInv, CacheTyped, CacheSync, CacheCounts, C!TypeOK
<1>5. ASSUME s4.up, s4.sync = "done", s5
      PROVE  /\ \A s \in C!Sheets : s2[s].meta = s1[s].meta
             /\ \A s \in C!First(C!Existing) : s2[s] = s1[s]
             /\ \A s \in C!Sheets \ C!Existing : s2[s] = C!NoSheet
  BY <1>5 DEF CacheInv, CacheTrue, CacheFilled, CacheSame
<1> QED  BY <1>4, <1>5 DEF C!SheetsRepaired, C!Settled

-----------------------------------------------------------------------------
(* The cells of a sheet: s1 says whether it exists, s2 are its cells, s3   *)
(* the merges, s4 the screens, s5 the next value, s6 the worst overwrite.  *)

SheetRows(n) == [rev : 0 .. n, val : 0 .. n, life : 0 .. n]

\* Numbers grow with the values written; a cell that is blank holds nothing.
SheetTyped ==
    /\ s1 \in BOOLEAN /\ s3 \subseteq S!Ranges /\ s5 \in 1 .. MaxValue + 1
    /\ s2 \in [S!Cells -> SheetRows(s5 - 1)]
    /\ s4 \in [Editors -> [S!Cells -> SheetRows(s5 - 1)]]
    /\ s6 \in {"no", "other life"}
    /\ ~s1 /\ s5 = 1 => s2 = S!AllBlank /\ s4 = [e \in Editors |-> S!AllBlank]

\* What a screen shows of the life a cell is in, it showed no later than now,
\* and if it is of this revision it is what the cell holds.
SheetKnows(x, y) ==
    /\ x.rev = 0 => x.val = 0
    /\ y.rev = 0 => y.val = 0
    /\ x.life <= y.life
    /\ x.life = y.life /\ y.rev # 0 => x.rev <= y.rev
    /\ x.life = y.life /\ x.rev = y.rev => x.val = y.val

SheetKnown == s1 => \A e \in Editors, c \in S!Cells : SheetKnows(s4[e][c], s2[c])

\* The cells of an existing sheet, told apart from what screens show of them.
SheetBlank == s1 => \A c \in S!Cells : s2[c].rev = 0 => s2[c].val = 0

SheetInv == SheetTyped /\ SheetKnown /\ SheetBlank

LEMMA SheetNat == MaxValue \in Nat /\ MaxValue # 0
BY SharedAssumption

LEMMA SheetFresh ==
    ASSUME SheetTyped
    PROVE  /\ s5 \in Nat /\ s5 # 0 /\ s5 - 1 \in Nat /\ s5 - 1 <= MaxValue /\ s5 \in 1 .. MaxValue + 1
           /\ MaxValue \in Nat
<1>1. s5 \in 1 .. MaxValue + 1
  BY Zenon DEF SheetTyped
<1> QED  BY <1>1, SheetNat

LEMMA SheetIsTyped == SheetInv => SheetTyped
BY Zenon DEF SheetInv

LEMMA SheetGrows ==
    ASSUME NEW n \in Nat, NEW m \in Nat, n <= m
    PROVE  SheetRows(n) \subseteq SheetRows(m)
BY DEF SheetRows

LEMMA SheetZero == ASSUME NEW n \in Nat PROVE S!Blank \in SheetRows(n)
BY DEF S!Blank, SheetRows

\* What becomes of a cell that is written.
LEMMA SheetWritten ==
    ASSUME SheetTyped, NEW c \in S!Cells, NEW v \in {0, s5},
           s2[c].rev = 0 => s2[c].val = 0
    PROVE  /\ S!Written(c, v) \in SheetRows(IF v = 0 THEN s5 - 1 ELSE s5)
           /\ S!Written(c, v).rev = 0 => S!Written(c, v).val = 0
           /\ SheetKnows(S!Written(c, v), S!Written(c, v))
           /\ \A x \in SheetRows(s5 - 1) : SheetKnows(x, s2[c]) => SheetKnows(x, S!Written(c, v))
<1>1. s5 \in Nat /\ s5 - 1 \in Nat /\ s5 # 0
  BY SheetFresh
<1>2. s2[c] \in SheetRows(s5 - 1)
  BY DEF SheetTyped
<1> DEFINE w == S!Written(c, v)
<1>3. CASE v = 0
  <2>1. w = [rev |-> 0, val |-> 0, life |-> s2[c].life]
    BY <1>3 DEF S!Written, S!Blank
  <2> HIDE DEF w
  <2>2. w \in SheetRows(s5 - 1) /\ SheetKnows(w, w)
    BY <1>1, <1>2, <2>1 DEF SheetRows, SheetKnows
  <2>3. \A x \in SheetRows(s5 - 1) : SheetKnows(x, s2[c]) => SheetKnows(x, w)
    BY <1>1, <1>2, <2>1 DEF SheetRows, SheetKnows
  <2> QED  BY <1>3, <2>1, <2>2, <2>3 DEF w
<1>4. CASE v # 0
  <2>1. w = [rev |-> s2[c].rev + 1, val |-> s5,
             life |-> IF s2[c].rev = 0 THEN s2[c].life + 1 ELSE s2[c].life]
    BY <1>4 DEF S!Written
  <2> HIDE DEF w
  <2>2. w \in SheetRows(s5) /\ SheetKnows(w, w)
    BY <1>1, <1>2, <2>1 DEF SheetRows, SheetKnows
  <2>3. \A x \in SheetRows(s5 - 1) : SheetKnows(x, s2[c]) => SheetKnows(x, w)
    BY <1>1, <1>2, <2>1 DEF SheetRows, SheetKnows
  <2>4. w.rev # 0
    BY <1>2, <2>1 DEF SheetRows
  <2> QED  BY <1>4, <2>2, <2>3, <2>4 DEF w
<1> QED  BY <1>3, <1>4

LEMMA SheetKeepsWrite ==
    ASSUME SheetInv, NEW e \in Editors, NEW X \in SUBSET S!Cells, NEW v \in {0, s5},
           S!Write(e, X, v)
    PROVE  SheetInv'
<1> DEFINE after == [c \in S!Cells |-> IF c \in S!Accepted(e, X) THEN S!Written(c, v) ELSE s2[c]]
<1>1. /\ s1 /\ s2' = after /\ UNCHANGED <<s1, s3>> /\ (v # 0 => s5 <= MaxValue)
      /\ s5' = IF v # 0 THEN s5 + 1 ELSE s5
      /\ s4' = [s4 EXCEPT ![e] = [c \in S!Cells |-> IF c \in X THEN after[c] ELSE s4[e][c]]]
      /\ s6' = S!Overwrite(e, X)
  BY Zenon DEF S!Write
<1>2. s5 \in Nat /\ s5 # 0 /\ s5 - 1 \in Nat /\ MaxValue \in Nat /\ SheetTyped
  BY SheetFresh, SheetIsTyped
<1>3. s5' \in 1 .. MaxValue + 1 /\ s5 <= s5' /\ s5' - 1 \in Nat /\ s5 - 1 <= s5' - 1
  BY <1>1, <1>2, SheetFresh
<1>4. s5' - 1 = IF v = 0 THEN s5 - 1 ELSE s5
  BY <1>1, <1>2
<1>5. ASSUME NEW c \in S!Cells
      PROVE  /\ after[c] \in SheetRows(s5' - 1)
             /\ after[c].rev = 0 => after[c].val = 0
             /\ SheetKnows(after[c], after[c])
             /\ \A x \in SheetRows(s5 - 1) : SheetKnows(x, s2[c]) => SheetKnows(x, after[c])
  <2>1. s2[c].rev = 0 => s2[c].val = 0
    BY <1>1 DEF SheetInv, SheetBlank
  <2>2. CASE c \in S!Accepted(e, X)
    <3>1. after[c] = S!Written(c, v)
      BY <2>2
    <3> HIDE DEF after
    <3> QED  BY <1>2, <1>4, <2>1, <3>1, SheetWritten
  <2>3. CASE c \notin S!Accepted(e, X)
    <3>1. after[c] = s2[c]
      BY <2>3
    <3>2. s2[c] \in SheetRows(s5 - 1)
      BY <1>2 DEF SheetTyped
    <3>3. s2[c] \in SheetRows(s5' - 1)
      BY <1>2, <1>3, <3>2, SheetGrows
    <3> HIDE DEF after
    <3>4. SheetKnows(s2[c], s2[c])
      BY <1>2, <2>1, <3>2 DEF SheetKnows, SheetRows
    <3> QED  BY <2>1, <3>1, <3>3, <3>4
  <2> QED  BY <2>2, <2>3
<1>6. DOMAIN after = S!Cells /\ s2' = after /\ s2' \in [S!Cells -> SheetRows(s5' - 1)]
  BY <1>1, <1>5
<1> HIDE DEF after
<1>7. \A d \in Editors, c \in S!Cells :
        s4'[d][c] = IF d = e /\ c \in X THEN after[c] ELSE s4[d][c]
  BY <1>1, <1>2 DEF SheetTyped
<1>8. s4' \in [Editors -> [S!Cells -> SheetRows(s5' - 1)]]
  <2>1. SheetRows(s5 - 1) \subseteq SheetRows(s5' - 1)
    BY <1>2, <1>3, SheetGrows
  <2>2. s4 \in [Editors -> [S!Cells -> SheetRows(s5' - 1)]]
    BY <1>2, <2>1 DEF SheetTyped
  <2>3. [c \in S!Cells |-> IF c \in X THEN after[c] ELSE s4[e][c]] \in [S!Cells -> SheetRows(s5' - 1)]
    BY <1>5, <2>2
  <2> QED  BY <1>1, <2>2, <2>3
<1>9. s6' \in {"no", "other life"}
  <2>1. ASSUME NEW c \in S!Accepted(e, X), s2[c].val # s4[e][c].val
        PROVE  s2[c].life # s4[e][c].life
    <3>1. c \in S!Cells /\ s2[c].rev = s4[e][c].rev
      BY DEF S!Accepted
    <3>2. SheetKnows(s4[e][c], s2[c])
      BY <1>1, <3>1 DEF SheetInv, SheetKnown
    <3> QED  BY <2>1, <3>1, <3>2 DEF SheetKnows
  <2>2. S!Overwrite(e, X) \in {s6, "other life"}
    <3>1. CASE {c \in S!Accepted(e, X) : s2[c].val # s4[e][c].val} = {}
      BY <3>1 DEF S!Overwrite
    <3>2. CASE {c \in S!Accepted(e, X) : s2[c].val # s4[e][c].val} # {}
      <4>1. s6 # "same life"
        BY <1>2 DEF SheetTyped
      <4> QED  BY <2>1, <3>2, <4>1 DEF S!Overwrite
    <3> QED  BY <3>1, <3>2
  <2> QED  BY <1>1, <1>2, <2>2 DEF SheetTyped
<1>10. SheetTyped'
  BY <1>1, <1>2, <1>3, <1>6, <1>8, <1>9 DEF SheetTyped
<1>11. SheetKnown'
  <2> SUFFICES ASSUME NEW d \in Editors, NEW c \in S!Cells
               PROVE  SheetKnows(s4'[d][c], s2'[c])
    BY DEF SheetKnown
  <2>1. CASE d = e /\ c \in X
    BY <1>5, <1>6, <1>7, <2>1
  <2>2. CASE ~(d = e /\ c \in X)
    <3>1. s4'[d][c] = s4[d][c] /\ s4[d][c] \in SheetRows(s5 - 1)
      BY <1>2, <1>7, <2>2 DEF SheetTyped
    <3>2. SheetKnows(s4[d][c], s2[c])
      BY <1>1 DEF SheetInv, SheetKnown
    <3> QED  BY <1>5, <1>6, <3>1, <3>2
  <2> QED  BY <2>1, <2>2
<1>12. SheetBlank'
  BY <1>5, <1>6 DEF SheetBlank
<1> QED  BY <1>10, <1>11, <1>12 DEF SheetInv

LEMMA SheetKeepsMerge ==
    ASSUME SheetInv, NEW r \in S!Ranges, S!Merge(r)
    PROVE  SheetInv'
<1> DEFINE hidden == {c \in S!Filled(s2) : S!Within(c, r) /\ c # r[1]}
           after == [c \in S!Cells |-> IF c \in hidden THEN S!Written(c, 0) ELSE s2[c]]
<1>1. s1 /\ s3' = s3 \cup {r} /\ s2' = after /\ UNCHANGED <<s1, s4, s5, s6>>
  BY Zenon DEF S!Merge
<1>2. s5 \in Nat /\ s5 - 1 \in Nat /\ SheetTyped
  BY SheetFresh, SheetIsTyped
<1> HIDE DEF hidden
<1>3. ASSUME NEW c \in S!Cells
      PROVE  /\ after[c] \in SheetRows(s5 - 1)
             /\ after[c].rev = 0 => after[c].val = 0
             /\ \A x \in SheetRows(s5 - 1) : SheetKnows(x, s2[c]) => SheetKnows(x, after[c])
  <2>1. s2[c].rev = 0 => s2[c].val = 0
    BY <1>1 DEF SheetInv, SheetBlank
  <2>2. CASE c \in hidden
    <3>1. after[c] = S!Written(c, 0)
      BY <2>2
    <3> HIDE DEF after
    <3> QED  BY <1>2, <2>1, <3>1, SheetWritten
  <2>3. CASE c \notin hidden
    <3>1. after[c] = s2[c]
      BY <2>3
    <3> HIDE DEF after
    <3> QED  BY <1>2, <2>1, <3>1 DEF SheetTyped
  <2> QED  BY <2>2, <2>3
<1>4. s2' = after /\ s2' \in [S!Cells -> SheetRows(s5 - 1)]
  BY <1>1, <1>3
<1> HIDE DEF after
<1>5. SheetTyped'
  BY <1>1, <1>2, <1>4 DEF SheetTyped
<1>6. SheetKnown'
  BY <1>1, <1>2, <1>3, <1>4 DEF SheetInv, SheetKnown, SheetTyped
<1>7. SheetBlank'
  BY <1>3, <1>4 DEF SheetBlank
<1> QED  BY <1>5, <1>6, <1>7 DEF SheetInv

LEMMA SheetKeeps == SheetInv /\ S!Next => SheetInv'
<1> SUFFICES ASSUME SheetInv, S!Next PROVE SheetInv'
  OBVIOUS
<1>1. s5 \in Nat /\ s5 - 1 \in Nat /\ SheetTyped
  BY SheetFresh, SheetIsTyped
<1>2. CASE S!SheetCreate
  <2>1. /\ s1' /\ UNCHANGED <<s2, s3, s4, s5, s6>>
        /\ s2 = S!AllBlank /\ s4 = [e \in Editors |-> S!AllBlank]
    BY <1>1, <1>2 DEF S!SheetCreate, SheetTyped
  <2>2. \A c \in S!Cells : s2[c] = S!Blank /\ \A e \in Editors : s4[e][c] = S!Blank
    BY <2>1 DEF S!AllBlank
  <2>3. SheetKnows(S!Blank, S!Blank) /\ S!Blank.val = 0
    BY DEF SheetKnows, S!Blank
  <2>4. SheetTyped'
    BY <1>1, <2>1 DEF SheetTyped
  <2>5. SheetKnown' /\ SheetBlank'
    BY <2>1, <2>2, <2>3 DEF SheetKnown, SheetBlank
  <2> QED  BY <2>4, <2>5 DEF SheetInv
<1>3. CASE S!SheetDelete
  <2>1. /\ ~s1' /\ s2' = S!AllBlank /\ s3' = {} /\ s5' = MaxValue + 1 /\ UNCHANGED <<s4, s6>>
    BY <1>3 DEF S!SheetDelete
  <2>2. MaxValue \in Nat /\ s5' - 1 = MaxValue /\ s5' # 1 /\ s5 - 1 <= MaxValue
    BY <1>1, <2>1, SheetFresh, SheetNat
  <2>3. s2' \in [S!Cells -> SheetRows(s5' - 1)]
    BY <2>1, <2>2, SheetZero DEF S!AllBlank
  <2>4. s4' \in [Editors -> [S!Cells -> SheetRows(s5' - 1)]]
    <3>1. SheetRows(s5 - 1) \subseteq SheetRows(s5' - 1)
      BY <1>1, <2>2, SheetGrows
    <3>2. s4 \in [Editors -> [S!Cells -> SheetRows(s5 - 1)]] /\ s4' = s4
      BY <1>1, <2>1 DEF SheetTyped
    <3> DEFINE early == SheetRows(s5 - 1)
               late == SheetRows(s5' - 1)
    <3>3. early \subseteq late /\ s4 \in [Editors -> [S!Cells -> early]]
      BY <3>1, <3>2
    <3>4. SUFFICES s4 \in [Editors -> [S!Cells -> late]]
      BY <3>2
    <3> HIDE DEF early, late
    <3> QED  BY <3>3
  <2>5. s5' \in 1 .. MaxValue + 1 /\ s3' \subseteq S!Ranges /\ s1' = FALSE
    BY <2>1, <2>2, <1>3 DEF S!SheetDelete
  <2>6. SheetTyped'
    BY <1>1, <2>1, <2>2, <2>3, <2>4, <2>5 DEF SheetTyped
  <2> QED  BY <2>1, <2>6 DEF SheetInv, SheetKnown, SheetBlank
<1>4. ASSUME NEW e \in Editors, S!Open(e) PROVE SheetInv'
  <2>1. s1 /\ s4' = [s4 EXCEPT ![e] = s2] /\ UNCHANGED <<s1, s2, s3, s5, s6>>
    BY <1>4 DEF S!Open
  <2>2. SheetTyped'
    BY <1>1, <2>1 DEF SheetTyped
  <2>3. ASSUME NEW c \in S!Cells PROVE SheetKnows(s2[c], s2[c])
    <3>1. s2[c] \in SheetRows(s5 - 1) /\ (s2[c].rev = 0 => s2[c].val = 0)
      BY <1>1, <2>1 DEF SheetInv, SheetBlank, SheetTyped
    <3> QED  BY <1>1, <3>1 DEF SheetKnows, SheetRows
  <2>4. SheetKnown'
    BY <1>1, <2>1, <2>3 DEF SheetInv, SheetKnown, SheetTyped
  <2> QED  BY <2>1, <2>2, <2>4 DEF SheetInv, SheetBlank
<1>5. ASSUME NEW e \in Editors, NEW X \in SUBSET S!Cells, S!Write(e, X, s5) \/ S!Write(e, X, 0)
      PROVE  SheetInv'
  BY <1>5, SheetKeepsWrite
<1>6. ASSUME NEW c \in S!Cells, S!Unmerge(c) PROVE SheetInv'
  <2>1. s3' \subseteq s3 /\ UNCHANGED <<s1, s2, s4, s5, s6>>
    BY <1>6 DEF S!Unmerge
  <2>2. SheetTyped'
    BY <1>1, <2>1 DEF SheetTyped
  <2> QED  BY <2>1, <2>2 DEF SheetInv, SheetKnown, SheetBlank
<1> QED  BY <1>2, <1>3, <1>4, <1>5, <1>6, SheetKeepsMerge DEF S!Next

LEMMA SheetStarts == S!Init => SheetInv
<1> SUFFICES ASSUME S!Init PROVE SheetInv
  OBVIOUS
<1>1. /\ s1 = FALSE /\ s2 = S!AllBlank /\ s3 = {} /\ s4 = [e \in Editors |-> S!AllBlank]
      /\ s5 = 1 /\ s6 = "no"
  BY DEF S!Init
<1>2. s5 - 1 = 0 /\ s5 \in 1 .. MaxValue + 1
  BY <1>1, SheetNat
<1>3. S!AllBlank \in [S!Cells -> SheetRows(s5 - 1)]
  BY <1>2, SheetZero DEF S!AllBlank
<1> QED  BY <1>1, <1>2, <1>3 DEF SheetInv, SheetTyped, SheetKnown, SheetBlank

LEMMA SheetGives == SheetInv => S!TypeOK /\ S!KnownWhileAlive
<1> SUFFICES ASSUME SheetInv PROVE S!TypeOK /\ S!KnownWhileAlive
  OBVIOUS
<1>1. s5 - 1 \in Nat /\ s5 - 1 <= MaxValue /\ MaxValue \in Nat /\ SheetTyped
  BY SheetFresh, SheetIsTyped
<1>2. SheetRows(s5 - 1) \subseteq S!Row
  <2>1. SheetRows(MaxValue) = S!Row
    BY DEF SheetRows, S!Row
  <2> QED  BY <1>1, <2>1, SheetGrows
<1>3. s2 \in [S!Cells -> S!Row] /\ s4 \in [Editors -> [S!Cells -> S!Row]]
  BY <1>1, <1>2 DEF SheetTyped
<1> QED  BY <1>1, <1>3 DEF SheetTyped, S!TypeOK, S!KnownWhileAlive

-----------------------------------------------------------------------------
(* Opening a file: s1 is its kind, s2 its version, s3 its schema, s4 the   *)
(* commits so far, s5 where each opener is, s6 the version it read, s7 its *)
(* transaction, s8 who has the lock, s9 and s10 the opens and deaths.      *)

StoreDrafts == [schema : SUBSET (1 .. 11), from : Nat, next : 0 .. 11]

StoreTyped ==
    /\ s1 \in {"shared", "cache"} /\ s2 \in 0 .. 11 /\ s3 \in SUBSET (1 .. 11) /\ s4 \in Nat
    /\ s5 \in [Openers -> O!Places] /\ s6 \in [Openers -> 0 .. 11]
    /\ s7 \in [Openers -> StoreDrafts] /\ s8 \in Openers \cup {O!Nobody}
    /\ s9 \in 0 .. MaxOpens /\ s10 \in 0 .. MaxDeaths

StoreCounts == s9 \in 0 .. MaxOpens /\ s10 \in 0 .. MaxDeaths

\* One opener, of which at is where it is, v the version it read and d its
\* transaction: what it read is still there, what it has done holds all steps
\* up to the next one, and if nothing was committed since, all of the file.
StoreOpener(at, v, d) ==
    /\ at \in {"opened", "begun"} => 1 .. v \subseteq s3 /\ (s4 = 0 => v = s2)
    /\ at = "begun" => v < O!Latest /\ d.next \in v + 1 .. O!Latest + 1
    /\ at = "begun" /\ d.next > v + 1 =>
          /\ 1 .. d.next - 1 \subseteq d.schema /\ d.from <= s4
          /\ d.from = s4 => s3 \subseteq d.schema
          /\ s4 = 0 => d.schema \subseteq 1 .. d.next - 1
    /\ at = "ready" => O!Steps \subseteq s3
    /\ at = "refused" => s2 >= O!Latest

StoreFile == /\ 1 .. s2 \subseteq s3
             /\ s4 # 0 => s2 = O!Latest
             /\ s4 = 0 => s3 = 1 .. s2

StoreInv == /\ StoreTyped /\ StoreFile
            /\ \A o \in Openers : StoreOpener(s5[o], s6[o], s7[o])

LEMMA StoreLatest == /\ O!Latest \in 8 .. 10 /\ O!Steps = 1 .. O!Latest /\ O!Bare \subseteq O!Steps
<1>1. (1 .. 6) \cup (7 .. 10) = 1 .. 10 /\ (1 .. 4) \cup (5 .. 8) = 1 .. 8
  OBVIOUS
<1>2. CASE s1 = "shared"
  <2>1. O!Latest = 10 /\ O!Steps = (1 .. 6) \cup (7 .. 10) /\ O!Bare = {1}
    BY <1>2 DEF O!Latest, O!Steps, O!Bare, O!SharedTables, O!SharedColumns
  <2> QED  BY <1>1, <2>1
<1>3. CASE s1 # "shared"
  <2>1. O!Latest = 8 /\ O!Steps = (1 .. 4) \cup (5 .. 8) /\ O!Bare = {1, 2}
    BY <1>3 DEF O!Latest, O!Steps, O!Bare, O!CacheTables, O!CacheColumns
  <2> QED  BY <1>1, <2>1
<1> QED  BY <1>2, <1>3

LEMMA StoreNone == O!NoDraft \in StoreDrafts
<1>1. {} \in SUBSET (1 .. 11) /\ 0 \in Nat /\ 0 \in 0 .. 11
  OBVIOUS
<1> QED  BY <1>1 DEF O!NoDraft, StoreDrafts

LEMMA StoreOpenerTyped ==
    ASSUME StoreTyped, NEW o \in Openers
    PROVE  /\ s5[o] \in O!Places /\ s6[o] \in 0 .. 11 /\ s7[o] \in StoreDrafts
           /\ s7[o].next \in 0 .. 11 /\ s7[o].from \in Nat /\ s7[o].schema \in SUBSET (1 .. 11)
<1>1. s5[o] \in O!Places /\ s6[o] \in 0 .. 11 /\ s7[o] \in StoreDrafts
  BY DEF StoreTyped
<1> QED  BY <1>1 DEF StoreDrafts

\* A step of one opener that leaves the file alone.
LEMMA StoreOwn ==
    ASSUME StoreInv, NEW o \in Openers, UNCHANGED <<s1, s2, s3, s4>>,
           NEW at \in O!Places, NEW v \in 0 .. 11, NEW d \in StoreDrafts,
           s5' = [s5 EXCEPT ![o] = at], s6' = [s6 EXCEPT ![o] = v], s7' = [s7 EXCEPT ![o] = d],
           s8' \in Openers \cup {O!Nobody}, StoreCounts', StoreOpener(at, v, d)
    PROVE  StoreInv'
<1>1. StoreTyped
  BY DEF StoreInv
<1>2. s5' \in [Openers -> O!Places] /\ s6' \in [Openers -> 0 .. 11] /\ s7' \in [Openers -> StoreDrafts]
  BY <1>1 DEF StoreTyped
<1>3. StoreTyped'
  BY <1>1, <1>2 DEF StoreTyped, StoreCounts
<1>4. UNCHANGED <<O!Latest, O!Steps>>
  BY DEF O!Latest, O!Steps
<1>5. StoreFile'
  BY <1>4 DEF StoreInv, StoreFile
<1>6. ASSUME NEW p \in Openers PROVE StoreOpener(s5[p], s6[p], s7[p])'
  <2>1. CASE p = o
    <3>1. s5'[p] = at /\ s6'[p] = v /\ s7'[p] = d
      BY <1>1, <2>1 DEF StoreTyped
    <3>2. StoreOpener(at, v, d)'
      BY <1>4 DEF StoreOpener
    <3> QED  BY <1>4, <3>1, <3>2 DEF StoreOpener
  <2>2. CASE p # o
    <3>1. s5'[p] = s5[p] /\ s6'[p] = s6[p] /\ s7'[p] = s7[p]
      BY <1>1, <2>2 DEF StoreTyped
    <3>2. StoreOpener(s5[p], s6[p], s7[p])
      BY DEF StoreInv
    <3> QED  BY <1>4, <3>1, <3>2 DEF StoreOpener
  <2> QED  BY <2>1, <2>2
<1> QED  BY <1>3, <1>5, <1>6 DEF StoreInv

LEMMA StoreKeepsOpen ==
    ASSUME StoreInv, NEW o \in Openers, O!Open(o)
    PROVE  StoreInv'
<1>1. StoreTyped /\ StoreFile
  BY DEF StoreInv
<1>2. UNCHANGED <<s1, s2, s3, s4, s7, s8, s10>>
  BY DEF O!Open, O!fileVars
<1>3. StoreCounts'
  <2>1. s9 < MaxOpens /\ s9' = s9 + 1
    BY DEF O!Open
  <2>2. s9 \in 0 .. MaxOpens /\ s10 \in 0 .. MaxDeaths
    BY <1>1 DEF StoreTyped
  <2> QED  BY <1>2, <2>1, <2>2, SharedAssumption DEF StoreCounts
<1>4. s7' = [s7 EXCEPT ![o] = s7[o]] /\ s7[o] \in StoreDrafts /\ s8' \in Openers \cup {O!Nobody}
  BY <1>1, <1>2 DEF StoreTyped
<1>5. CASE s5' = [s5 EXCEPT ![o] = "opened"] /\ s6' = [s6 EXCEPT ![o] = s2]
  <2>1. StoreOpener("opened", s2, s7[o])
    BY <1>1 DEF StoreFile, StoreOpener
  <2>2. "opened" \in O!Places /\ s2 \in 0 .. 11
    BY <1>1 DEF O!Places, StoreTyped
  <2> QED  BY <1>2, <1>3, <1>4, <1>5, <2>1, <2>2, StoreOwn
<1>6. CASE s5' = [s5 EXCEPT ![o] = "busy"] /\ UNCHANGED s6
  <2>1. StoreOpener("busy", s6[o], s7[o])
    BY DEF StoreOpener
  <2>2. "busy" \in O!Places /\ s6[o] \in 0 .. 11 /\ s6' = [s6 EXCEPT ![o] = s6[o]]
    BY <1>1, <1>6 DEF O!Places, StoreTyped
  <2> QED  BY <1>2, <1>3, <1>4, <1>6, <2>1, <2>2, StoreOwn
<1> QED  BY <1>5, <1>6 DEF O!Open

LEMMA StoreKeepsMigrate ==
    ASSUME StoreInv, NEW o \in Openers, O!Migrate(o)
    PROVE  StoreInv'
<1>1. StoreTyped /\ StoreFile /\ s6[o] \in 0 .. 11 /\ s7[o] \in StoreDrafts
  BY StoreOpenerTyped DEF StoreInv
<1>2. UNCHANGED <<s1, s2, s3, s4, s6, s8, s9, s10>> /\ s5[o] = "opened"
  BY DEF O!Migrate, O!fileVars
<1>3. StoreCounts' /\ s8' \in Openers \cup {O!Nobody} /\ s6' = [s6 EXCEPT ![o] = s6[o]]
  BY <1>1, <1>2 DEF StoreTyped, StoreCounts
<1>4. StoreOpener("opened", s6[o], s7[o])
  BY <1>2 DEF StoreInv
<1>5. CASE s6[o] >= O!Latest
  <2>1. s5' = [s5 EXCEPT ![o] = "ready"] /\ s7' = [s7 EXCEPT ![o] = s7[o]]
    BY <1>1, <1>5 DEF O!Migrate, StoreTyped
  <2>2. StoreOpener("ready", s6[o], s7[o])
    <3>1. O!Steps \subseteq s3
      BY <1>1, <1>4, <1>5, StoreLatest DEF StoreOpener
    <3> QED  BY <3>1 DEF StoreOpener
  <2>3. "ready" \in O!Places
    BY DEF O!Places
  <2> QED  BY <1>1, <1>2, <1>3, <2>1, <2>2, <2>3, StoreOwn
<1>6. CASE ~(s6[o] >= O!Latest)
  <2> DEFINE d == [schema |-> {}, from |-> s4, next |-> s6[o] + 1]
  <2>1. s5' = [s5 EXCEPT ![o] = "begun"] /\ s7' = [s7 EXCEPT ![o] = d]
    BY <1>6, Zenon DEF O!Migrate
  <2>2. s6[o] < O!Latest /\ s6[o] + 1 \in 0 .. 11 /\ s6[o] + 1 \in s6[o] + 1 .. O!Latest + 1
    BY <1>1, <1>6, StoreLatest
  <2>3. d \in StoreDrafts
    BY <1>1, <2>2 DEF StoreTyped, StoreDrafts
  <2>4. d.next = s6[o] + 1
    OBVIOUS
  <2> HIDE DEF d
  <2>5. StoreOpener("begun", s6[o], d)
    BY <1>1, <1>4, <2>2, <2>4 DEF StoreOpener
  <2>6. "begun" \in O!Places
    BY DEF O!Places
  <2> QED  BY <1>1, <1>2, <1>3, <2>1, <2>3, <2>5, <2>6, StoreOwn
<1> QED  BY <1>5, <1>6

\* A transaction that is given up.
LEMMA StoreKeepsFail ==
    ASSUME StoreInv, NEW o \in Openers, NEW how \in {"busy", "refused", "out"}, O!Fail(o, how),
           UNCHANGED <<s1, s2, s3, s4, s6>>, StoreCounts',
           how = "refused" => s2 >= O!Latest
    PROVE  StoreInv'
<1>1. StoreTyped /\ s6[o] \in 0 .. 11
  BY StoreOpenerTyped DEF StoreInv
<1>2. s5' = [s5 EXCEPT ![o] = how] /\ s7' = [s7 EXCEPT ![o] = O!NoDraft]
      /\ s8' \in Openers \cup {O!Nobody} /\ s6' = [s6 EXCEPT ![o] = s6[o]]
  BY <1>1 DEF O!Fail, StoreTyped
<1>3. how \in O!Places /\ StoreOpener(how, s6[o], O!NoDraft)
  BY DEF O!Places, StoreOpener
<1> QED  BY <1>1, <1>2, <1>3, StoreNone, StoreOwn

LEMMA StoreKeepsStep ==
    ASSUME StoreInv, NEW o \in Openers, O!Step(o)
    PROVE  StoreInv'
<1> DEFINE n == s7[o].next
           v == s6[o]
           from == IF n > v + 1 THEN s7[o].from ELSE s4
           base == IF n > v + 1 THEN s7[o].schema ELSE s3
<1>1. /\ StoreTyped /\ StoreFile /\ v \in 0 .. 11 /\ s7[o] \in StoreDrafts /\ n \in 0 .. 11
      /\ s7[o].from \in Nat /\ s7[o].schema \in SUBSET (1 .. 11) /\ s3 \in SUBSET (1 .. 11) /\ s4 \in Nat
  BY StoreOpenerTyped DEF StoreInv, StoreTyped
<1>2. s5[o] = "begun" /\ n \in O!Steps /\ UNCHANGED <<s1, s2, s3, s4, s6, s9, s10>>
  BY DEF O!Step, O!Next1, O!fileVars
<1>3. \/ n \in base /\ n \in O!Bare /\ O!Fail(o, "refused")
      \/ /\ n \in base /\ UNCHANGED <<s5, s8>>
         /\ s7' = [s7 EXCEPT ![o] = [schema |-> base, from |-> from, next |-> n + 1]]
      \/ /\ from = s4 /\ s8' = o /\ UNCHANGED s5
         /\ s7' = [s7 EXCEPT ![o] = [schema |-> base \cup {n}, from |-> from, next |-> n + 1]]
      \/ O!Fail(o, "busy")
  BY DEF O!Step, O!Next1, O!Started
<1>4. StoreOpener("begun", v, s7[o])
  BY <1>2 DEF StoreInv
<1>5. StoreCounts'
  BY <1>1, <1>2 DEF StoreTyped, StoreCounts
<1>6. /\ base \in SUBSET (1 .. 11) /\ from \in Nat /\ v < O!Latest /\ n \in v + 1 .. O!Latest
      /\ O!Latest \in 8 .. 10
  BY <1>1, <1>2, <1>4, StoreLatest DEF StoreOpener
<1>7. /\ 1 .. n - 1 \subseteq base /\ from <= s4 /\ (from = s4 => s3 \subseteq base)
      /\ s4 = 0 => base \subseteq 1 .. n - 1
  <2>1. CASE n > v + 1
    BY <1>4, <2>1 DEF StoreOpener
  <2>2. CASE n = v + 1
    <3>1. 1 .. v \subseteq s3 /\ (s4 = 0 => s3 = 1 .. v)
      BY <1>1, <1>4 DEF StoreOpener, StoreFile
    <3>2. n - 1 = v
      BY <1>1, <2>2
    <3> QED  BY <1>1, <2>2, <3>1, <3>2
  <2> QED  BY <1>6, <1>1, <2>1, <2>2
<1> HIDE DEF base, from
<1>8. ASSUME NEW after \in SUBSET (1 .. 11), after = base \cup {n},
             s7' = [s7 EXCEPT ![o] = [schema |-> after, from |-> from, next |-> n + 1]],
             UNCHANGED s5, s8' \in Openers \cup {O!Nobody}
      PROVE  StoreInv'
  <2> DEFINE d == [schema |-> after, from |-> from, next |-> n + 1]
  <2>1. d \in StoreDrafts /\ d.schema = after /\ d.from = from /\ d.next = n + 1
    BY <1>1, <1>6 DEF StoreDrafts
  <2>2. s7' = [s7 EXCEPT ![o] = d]
    BY <1>8
  <2> HIDE DEF d
  <2>3. n + 1 \in v + 1 .. O!Latest + 1 /\ n + 1 - 1 = n
    BY <1>1, <1>6
  <2>4. 1 .. n \subseteq after /\ (s4 = 0 => after \subseteq 1 .. n) /\ (from = s4 => s3 \subseteq after)
    BY <1>1, <1>6, <1>7, <1>8
  <2>5. StoreOpener("begun", v, d)
    BY <1>4, <1>6, <1>7, <2>1, <2>3, <2>4 DEF StoreOpener
  <2>6. s5' = [s5 EXCEPT ![o] = "begun"] /\ s6' = [s6 EXCEPT ![o] = v] /\ "begun" \in O!Places
    BY <1>1, <1>2, <1>8 DEF StoreTyped, O!Places
  <2> HIDE DEF v, n
  <2> QED  BY <1>1, <1>2, <1>5, <1>8, <2>1, <2>2, <2>5, <2>6, StoreOwn
<1>9. CASE n \in base /\ n \in O!Bare /\ O!Fail(o, "refused")
  <2>1. s4 # 0
    BY <1>1, <1>6, <1>7, <1>9
  <2>2. s2 >= O!Latest
    BY <1>1, <1>6, <2>1 DEF StoreFile
  <2> QED  BY <1>2, <1>5, <1>9, <2>2, StoreKeepsFail
<1>10. CASE O!Fail(o, "busy")
  BY <1>2, <1>5, <1>10, StoreKeepsFail
<1>11. CASE /\ n \in base /\ UNCHANGED <<s5, s8>>
            /\ s7' = [s7 EXCEPT ![o] = [schema |-> base, from |-> from, next |-> n + 1]]
  <2>1. base = base \cup {n} /\ s8' \in Openers \cup {O!Nobody}
    BY <1>1, <1>11 DEF StoreTyped
  <2> QED  BY <1>6, <1>8, <1>11, <2>1
<1>12. CASE /\ from = s4 /\ s8' = o /\ UNCHANGED s5
            /\ s7' = [s7 EXCEPT ![o] = [schema |-> base \cup {n}, from |-> from, next |-> n + 1]]
  <2>1. base \cup {n} \in SUBSET (1 .. 11) /\ s8' \in Openers \cup {O!Nobody}
    <3>1. n \in 1 .. 11
      BY <1>1, <1>6
    <3> QED  BY <1>6, <1>12, <3>1
  <2> QED  BY <1>8, <1>12, <2>1
<1> QED  BY <1>3, <1>9, <1>10, <1>11, <1>12 DEF base, from

\* A commit replaces the file, which nobody else has changed since, by one
\* that has all of it and all the steps.
LEMMA StoreKeepsCommit ==
    ASSUME StoreInv, NEW o \in Openers, O!Commit(o)
    PROVE  StoreInv'
<1> DEFINE n == s7[o].next
           v == s6[o]
<1>1. /\ StoreTyped /\ StoreFile /\ v \in 0 .. 11 /\ s7[o] \in StoreDrafts /\ n \in 0 .. 11
      /\ s7[o].from \in Nat /\ s7[o].schema \in SUBSET (1 .. 11) /\ s4 \in Nat
  BY StoreOpenerTyped DEF StoreInv, StoreTyped
<1>2. s5[o] = "begun" /\ n \notin O!Steps /\ UNCHANGED <<s1, s6, s9, s10>>
  BY DEF O!Commit, O!Next1
<1>3. StoreOpener("begun", v, s7[o])
  BY <1>2 DEF StoreInv
<1>4. StoreCounts'
  BY <1>1, <1>2 DEF StoreTyped, StoreCounts
<1>5. /\ O!Latest \in 8 .. 10 /\ O!Steps = 1 .. O!Latest
  BY StoreLatest
<1>6. n = O!Latest + 1 /\ n > v + 1 /\ 1 .. O!Latest \subseteq s7[o].schema
  <2>1. v < O!Latest /\ n \in v + 1 .. O!Latest + 1
    BY <1>3 DEF StoreOpener
  <2>2. n = O!Latest + 1 /\ n > v + 1 /\ n - 1 = O!Latest
    BY <1>1, <1>2, <1>5, <2>1
  <2> QED  BY <1>3, <2>2 DEF StoreOpener
<1>7. CASE O!Fail(o, "busy") /\ UNCHANGED O!fileVars
  BY <1>2, <1>4, <1>7, StoreKeepsFail DEF O!fileVars
<1>8. CASE /\ s7[o].from = s4 /\ s2' = O!Latest /\ s3' = s7[o].schema /\ s4' = s4 + 1
           /\ s5' = [s5 EXCEPT ![o] = "ready"] /\ s7' = [s7 EXCEPT ![o] = O!NoDraft]
           /\ s8' = O!Nobody
  <2>1. s3 \subseteq s3' /\ 1 .. O!Latest \subseteq s3' /\ s3' \in SUBSET (1 .. 11)
    BY <1>1, <1>3, <1>6, <1>8 DEF StoreOpener
  <2>2. UNCHANGED <<O!Latest, O!Steps>>
    BY <1>2 DEF O!Latest, O!Steps
  <2>3. s4' \in Nat /\ s4' # 0 /\ s4 < s4' /\ s2' \in 0 .. 11
    BY <1>1, <1>5, <1>8
  <2>4. s5' \in [Openers -> O!Places] /\ s7' \in [Openers -> StoreDrafts]
    <3>1. "ready" \in O!Places
      BY DEF O!Places
    <3> QED  BY <1>1, <1>8, <3>1, StoreNone DEF StoreTyped
  <2>5. StoreTyped'
    BY <1>1, <1>2, <1>4, <1>8, <2>1, <2>3, <2>4 DEF StoreTyped, StoreCounts
  <2>6. StoreFile'
    BY <1>8, <2>1, <2>2, <2>3 DEF StoreFile
  <2>7. ASSUME NEW p \in Openers PROVE StoreOpener(s5[p], s6[p], s7[p])'
    <3>1. CASE p = o
      <4>1. s5'[p] = "ready"
        BY <1>1, <1>8, <3>1 DEF StoreTyped
      <4>2. O!Steps' \subseteq s3'
        BY <1>5, <2>1, <2>2
      <4> QED  BY <4>1, <4>2 DEF StoreOpener
    <3>2. CASE p # o
      <4>1. s5'[p] = s5[p] /\ s6'[p] = s6[p] /\ s7'[p] = s7[p]
        BY <1>1, <1>2, <1>8, <3>2 DEF StoreTyped
      <4>2. StoreOpener(s5[p], s6[p], s7[p])
        BY DEF StoreInv
      <4>3. s7[p].from \in Nat
        BY <1>1, StoreOpenerTyped
      <4>4. s7[p].from <= s4 => s7[p].from <= s4' /\ s7[p].from # s4'
        BY <1>1, <2>3, <4>3
      <4>5. s5[p] = "refused" => s2' >= O!Latest'
        BY <1>5, <1>8, <2>2
      <4>6. s5[p] \in {"opened", "begun"} => 1 .. s6[p] \subseteq s3'
        BY <2>1, <4>2 DEF StoreOpener
      <4>7. s5[p] = "ready" => O!Steps' \subseteq s3'
        BY <2>1, <2>2, <4>2 DEF StoreOpener
      <4>8. s5[p] = "begun" => s6[p] < O!Latest' /\ s7[p].next \in s6[p] + 1 .. O!Latest' + 1
        BY <2>2, <4>2 DEF StoreOpener
      <4>9. s5[p] = "begun" /\ s7[p].next > s6[p] + 1 =>
              /\ 1 .. s7[p].next - 1 \subseteq s7[p].schema /\ s7[p].from <= s4'
              /\ s7[p].from # s4'
        BY <4>2, <4>4 DEF StoreOpener
      <4> QED  BY <2>3, <4>1, <4>5, <4>6, <4>7, <4>8, <4>9 DEF StoreOpener
    <3> QED  BY <3>1, <3>2
  <2> QED  BY <2>5, <2>6, <2>7 DEF StoreInv
<1> QED  BY <1>7, <1>8, Zenon DEF O!Commit

LEMMA StoreKeeps == StoreInv /\ O!Next => StoreInv'
<1> SUFFICES ASSUME StoreInv, NEW o \in Openers,
                    \/ O!Open(o) \/ O!Migrate(o) \/ O!Step(o) \/ O!Commit(o)
                    \/ O!Close(o) \/ O!Die(o)
             PROVE  StoreInv'
  BY DEF O!Next
<1>1. StoreTyped /\ s6[o] \in 0 .. 11 /\ s7[o] \in StoreDrafts
  BY StoreOpenerTyped DEF StoreInv
<1>2. CASE O!Close(o)
  <2>1. /\ UNCHANGED <<s1, s2, s3, s4, s6, s7, s8, s9, s10>> /\ s5' = [s5 EXCEPT ![o] = "out"]
    BY <1>2 DEF O!Close, O!fileVars
  <2>2. /\ s6' = [s6 EXCEPT ![o] = s6[o]] /\ s7' = [s7 EXCEPT ![o] = s7[o]]
        /\ s8' \in Openers \cup {O!Nobody} /\ StoreCounts'
    BY <1>1, <2>1 DEF StoreTyped, StoreCounts
  <2>3. "out" \in O!Places /\ StoreOpener("out", s6[o], s7[o])
    BY DEF O!Places, StoreOpener
  <2> DEFINE v == s6[o]
             d == s7[o]
  <2>4. /\ UNCHANGED <<s1, s2, s3, s4>> /\ v \in 0 .. 11 /\ d \in StoreDrafts
        /\ s6' = [s6 EXCEPT ![o] = v] /\ s7' = [s7 EXCEPT ![o] = d] /\ StoreOpener("out", v, d)
    BY <1>1, <2>1, <2>2, <2>3
  <2> HIDE DEF v, d
  <2> QED  BY <2>1, <2>2, <2>3, <2>4, StoreOwn
<1>3. CASE O!Die(o)
  <2>1. O!Fail(o, "out") /\ UNCHANGED <<s1, s2, s3, s4, s6, s9>>
    BY <1>3 DEF O!Die, O!fileVars
  <2>2. StoreCounts'
    <3>1. s10 < MaxDeaths /\ s10' = s10 + 1
      BY <1>3 DEF O!Die
    <3>2. s9 \in 0 .. MaxOpens /\ s10 \in 0 .. MaxDeaths
      BY <1>1 DEF StoreTyped
    <3> QED  BY <2>1, <3>1, <3>2, SharedAssumption DEF StoreCounts
  <2> QED  BY <2>1, <2>2, StoreKeepsFail
<1> QED  BY <1>2, <1>3, StoreKeepsOpen, StoreKeepsMigrate, StoreKeepsStep, StoreKeepsCommit

LEMMA StoreStarts == O!Init => StoreInv
<1> SUFFICES ASSUME O!Init PROVE StoreInv
  OBVIOUS
<1>1. /\ s1 \in {"shared", "cache"} /\ s3 = 1 .. s2 /\ s4 = 0 /\ s8 = O!Nobody /\ s9 = 0
      /\ s10 = 0 /\ s5 = [o \in Openers |-> "out"] /\ s6 = [o \in Openers |-> 0]
      /\ s7 = [o \in Openers |-> O!NoDraft]
  BY DEF O!Init
<1>2. s2 \in 0 .. 11
  BY StoreLatest DEF O!Init
<1>3. s3 \in SUBSET (1 .. 11)
  BY <1>1, <1>2
<1>4. s9 \in 0 .. MaxOpens /\ s10 \in 0 .. MaxDeaths
  BY <1>1, SharedAssumption
<1>5. s5 \in [Openers -> O!Places] /\ s6 \in [Openers -> 0 .. 11] /\ s7 \in [Openers -> StoreDrafts]
  BY <1>1, StoreNone DEF O!Places
<1>6. StoreTyped
  BY <1>1, <1>2, <1>3, <1>4, <1>5 DEF StoreTyped
<1>7. StoreFile
  BY <1>1 DEF StoreFile
<1>8. \A o \in Openers : StoreOpener(s5[o], s6[o], s7[o])
  BY <1>1 DEF StoreOpener
<1> QED  BY <1>6, <1>7, <1>8 DEF StoreInv

LEMMA StoreGives == StoreInv => O!TypeOK /\ O!StoreSound
<1> SUFFICES ASSUME StoreInv PROVE O!TypeOK /\ O!StoreSound
  OBVIOUS
<1>1. O!TypeOK
  BY DEF StoreInv, StoreTyped, StoreDrafts, O!TypeOK
<1> QED  BY <1>1 DEF StoreInv, StoreFile, StoreOpener, O!StoreSound, O!OpenedWhole, O!VersionTrue,
                     O!RefusedRecovers

-----------------------------------------------------------------------------
(* The shelf of shared memos: s1 is the folders, s2 the memos, s3 the      *)
(* limit, s4 the member's cache, s5 the connection, s6 the wire, s7 the    *)
(* memos still to fetch, s8 the synchronisation, s9 whether all is quiet,  *)
(* s10 the counts.                                                         *)

ShelfFoldersAre == [Folders -> Names \cup {"none"}]
ShelfMsgs == [k : {"folders"}, folder : ShelfFoldersAre] \cup [k : {"memo"}, m : Memos, row : B!Rows]

ShelfTyped ==
    /\ s1 \in ShelfFoldersAre /\ s2 \in [Memos -> B!Rows] /\ s3 \in 1 .. B!Cardinality(Memos)
    /\ s4 \in [folder : ShelfFoldersAre, memo : [Memos -> B!Rows]]
    /\ s5 \in BOOLEAN /\ s9 \in BOOLEAN /\ s7 \subseteq Memos /\ s8 \in {"off", "ask", "done"}
    /\ s6 \in Seq(ShelfMsgs) /\ Len(s6) <= s10.change
    /\ s10 \in [change : 0 .. MaxShelf, connect : 0 .. MaxConnect]

\* The rows of the store: a memo that is not there shows nothing, and the time of
\* the update tells the memos apart.
ShelfRow(m) == /\ s2[m].rev = 0 => ~s2[m].live /\ ~s2[m].seen
               /\ s2[m].rev > 0 => s2[m].stamp > 0
               /\ s2[m].rev <= s10.change /\ s2[m].stamp <= s10.change
               /\ s2[m].dir # "none" => s1[s2[m].dir] # "none"
ShelfApart == \A m, o \in Memos : s2[m].rev > 0 /\ s2[o].rev > 0 /\ s2[m].stamp = s2[o].stamp => m = o

\* What is known of a memo elsewhere is what it was at that revision.
SameRow(r, s) == r.rev = s.rev /\ r.title = s.title /\ r.stamp = s.stamp /\ r.size = s.size
KnownRow(m, r) ==
    r.rev > 0 => /\ r.live /\ r.seen /\ s2[m].stamp > 0
                 /\ s2[m].rev > 0 => r.rev <= s2[m].rev
                 /\ s2[m].rev = r.rev => SameRow(r, s2[m])
AboutMemo(i, m) == s6[i].k = "memo" /\ s6[i].m = m
ShelfKnown == \A m \in Memos : /\ KnownRow(m, s4.memo[m])
                               /\ \A i \in 1 .. Len(s6) : AboutMemo(i, m) => KnownRow(m, s6[i].row)

\* Once the list has been read, the last event of a memo on the wire, or the cache
\* if there is none, shows the memo as it is, unless it is still to be fetched.
ShelfListed == s5 /\ (s8 = "done" \/ s7 # {})
SeenByMember(m) == s2[m].live /\ s2[m].seen
TrueRow(m, r) == r.rev > 0 => SeenByMember(m) /\ SameRow(r, s2[m])
TrueOrAwaited(m, r) == r.rev > 0 => SeenByMember(m) /\ (m \in s7 \/ SameRow(r, s2[m]))
ShelfRight ==
    \A m \in Memos :
      /\ \A i \in 1 .. Len(s6) :
           AboutMemo(i, m) /\ (\A j \in 1 .. Len(s6) : j > i => ~AboutMemo(j, m)) => TrueRow(m, s6[i].row)
      /\ (\A i \in 1 .. Len(s6) : ~AboutMemo(i, m)) => TrueOrAwaited(m, s4.memo[m])
AboutFolders(i) == s6[i].k = "folders"
ShelfFiled ==
    /\ \A i \in 1 .. Len(s6) :
         AboutFolders(i) /\ (\A j \in 1 .. Len(s6) : j > i => ~AboutFolders(j)) => s6[i].folder = s1
    /\ (\A i \in 1 .. Len(s6) : ~AboutFolders(i)) => s4.folder = s1

ShelfInv == /\ ShelfTyped /\ (\A m \in Memos : ShelfRow(m)) /\ ShelfApart /\ ShelfKnown
            /\ s8 = "done" => s7 = {}
            /\ ShelfListed => ShelfRight /\ ShelfFiled

LEMMA ShelfNat == /\ MaxShelf \in Nat /\ MaxSize \in Nat /\ MaxConnect \in Nat /\ "none" \notin Names
BY SharedAssumption DEF L!LocalAssumption, L!NoFolder

LEMMA ShelfFields ==
    ASSUME NEW r \in B!Rows
    PROVE  /\ r.rev \in 0 .. MaxShelf /\ r.dir \in Folders \cup {"none"} /\ r.title \in FileTitles \cup {"none"}
           /\ r.stamp \in 0 .. MaxShelf /\ r.size \in 0 .. MaxSize /\ r.live \in BOOLEAN /\ r.seen \in BOOLEAN
           /\ r.rev \in Nat /\ r.stamp \in Nat
<1>1. /\ r.rev \in 0 .. MaxShelf /\ r.dir \in Folders \cup {"none"} /\ r.title \in FileTitles \cup {"none"}
      /\ r.stamp \in 0 .. MaxShelf /\ r.size \in 0 .. MaxSize /\ r.live \in BOOLEAN /\ r.seen \in BOOLEAN
  BY DEF B!Rows, B!None
<1> QED  BY <1>1, ShelfNat

LEMMA ShelfNoRow == /\ B!NoRow \in B!Rows /\ B!NoRow.rev = 0 /\ ~B!NoRow.live /\ ~B!NoRow.seen
                    /\ B!NoRow.stamp = 0 /\ B!NoRow.dir = "none"
BY ShelfNat DEF B!NoRow, B!Rows, B!None

\* What the cache drops it drops whole.
LEMMA ShelfEnforced ==
    ASSUME NEW t \in [Memos -> B!Rows]
    PROVE  /\ B!Enforced(t) \in [Memos -> B!Rows]
           /\ \A m \in Memos : B!Enforced(t)[m] = t[m] \/ B!Enforced(t)[m] = B!NoRow
<1>1. PICK n : B!Enforced(t) = [m \in Memos |-> IF m \in B!Newest(t, n) THEN t[m] ELSE B!NoRow]
  BY Zenon DEF B!Enforced
<1>2. \A m \in Memos : t[m] \in B!Rows
  OBVIOUS
<1> QED  BY <1>1, <1>2, ShelfNoRow

LEMMA ShelfSame ==
    ASSUME NEW r \in B!Rows, NEW s \in B!Rows, SameRow(r, s), r.live = s.live, r.seen = s.seen
    PROVE  B!Content(r) = B!Content(s)
<1>1. /\ r = [rev |-> r.rev, dir |-> r.dir, title |-> r.title, stamp |-> r.stamp, size |-> r.size,
              live |-> r.live, seen |-> r.seen]
      /\ s = [rev |-> s.rev, dir |-> s.dir, title |-> s.title, stamp |-> s.stamp, size |-> s.size,
              live |-> s.live, seen |-> s.seen]
  BY DEF B!Rows
<1>2. \A a, b, c, d, e, f, g :
        [[rev |-> a, dir |-> b, title |-> c, stamp |-> d, size |-> e, live |-> f, seen |-> g]
           EXCEPT !.dir = "none"]
          = [rev |-> a, dir |-> "none", title |-> c, stamp |-> d, size |-> e, live |-> f, seen |-> g]
  OBVIOUS
<1> QED  BY <1>1, <1>2 DEF SameRow, B!Content, B!None

LEMMA ShelfMsgIs ==
    ASSUME NEW e \in ShelfMsgs
    PROVE  /\ e.k = "folders" => e.folder \in ShelfFoldersAre
           /\ e.k = "memo" => e.m \in Memos /\ e.row \in B!Rows
           /\ e.k \in {"folders", "memo"}
BY DEF ShelfMsgs

-----------------------------------------------------------------------------
(* The host.                                                               *)

LEMMA ShelfChange ==
    ASSUME ShelfTyped, B!Change
    PROVE  /\ s10' \in [change : 0 .. MaxShelf, connect : 0 .. MaxConnect]
           /\ s10'.change = s10.change + 1 /\ s10.change \in Nat /\ s9' = FALSE
           /\ s10.change + 1 \in 1 .. MaxShelf
           /\ UNCHANGED <<s4, s5, s7, s8>>
<1>1. /\ s10 \in [change : 0 .. MaxShelf, connect : 0 .. MaxConnect] /\ s10.change < MaxShelf
      /\ s10' = [s10 EXCEPT !.change = s10.change + 1] /\ s9' = FALSE /\ UNCHANGED <<s4, s5, s7, s8>>
  BY DEF ShelfTyped, B!Change
<1> QED  BY <1>1, ShelfNat

LEMMA ShelfSend ==
    ASSUME ShelfTyped, B!Change, NEW e \in ShelfMsgs, s6' = IF s5 THEN Append(s6, e) ELSE s6
    PROVE  /\ s6' \in Seq(ShelfMsgs) /\ Len(s6') <= s10'.change /\ Len(s6) \in Nat
           /\ s5 => /\ Len(s6') = Len(s6) + 1 /\ s6'[Len(s6) + 1] = e
                    /\ \A i \in 1 .. Len(s6) : s6'[i] = s6[i]
           /\ ~s5 => s6' = s6
<1>0. s10'.change = s10.change + 1 /\ s10.change \in Nat
  BY ShelfChange
<1>1. /\ s6 \in Seq(ShelfMsgs) /\ Len(s6) \in Nat /\ Len(s6) <= s10.change
      /\ s10'.change = s10.change + 1 /\ s10.change \in Nat
  BY <1>0, LenProperties DEF ShelfTyped
<1>2. CASE s5
  <2>1. /\ Append(s6, e) \in Seq(ShelfMsgs) /\ Len(Append(s6, e)) = Len(s6) + 1
        /\ Append(s6, e)[Len(s6) + 1] = e
        /\ \A i \in 1 .. Len(s6) : Append(s6, e)[i] = s6[i]
    BY <1>1, AppendProperties
  <2>2. s6' = Append(s6, e)
    BY <1>2
  <2> QED  BY <1>1, <1>2, <2>1, <2>2
<1>3. CASE ~s5
  BY <1>1, <1>3
<1> QED  BY <1>2, <1>3

\* One memo changes, and its event goes to the member.
LEMMA ShelfMemoStep ==
    ASSUME ShelfInv, B!Change, NEW m \in Memos, NEW r \in B!Rows, s2' = [s2 EXCEPT ![m] = r],
           B!Send(B!ChangedEvent(m)), UNCHANGED <<s1, s3>>,
           r.rev = 0 => ~r.live /\ ~r.seen, r.rev <= s10.change + 1,
           r.stamp \in {s2[m].stamp, s10.change + 1}, r.stamp > 0,
           r.dir # "none" => s1[r.dir] # "none",
           s2[m].rev > 0 \/ s2[m].stamp = 0,
           s2[m].rev > 0 /\ r.rev > 0 => r.rev > s2[m].rev \/ SameRow(r, s2[m])
    PROVE  ShelfInv'
<1>q. PICK q : q = IF r.live /\ r.seen THEN r ELSE B!NoRow
  OBVIOUS
<1>e. PICK e : e = [k |-> "memo", m |-> m, row |-> q]
  OBVIOUS
<1>n. PICK n : n = Len(s6)
  OBVIOUS
<1>1. ShelfTyped /\ \A o \in Memos : s2[o] \in B!Rows
  BY DEF ShelfInv, ShelfTyped
<1>2. /\ s2' \in [Memos -> B!Rows] /\ s2'[m] = r /\ \A o \in Memos : o # m => s2'[o] = s2[o]
  BY <1>1 DEF ShelfTyped
<1>3. s6' = IF s5 THEN Append(s6, e) ELSE s6
  <2>1. B!ChangedEvent(m) = e
    BY <1>2, <1>e, <1>q, Zenon DEF B!ChangedEvent
  <2> QED  BY <2>1 DEF B!Send
<1>4. q \in B!Rows /\ (q.rev > 0 => q = r /\ r.live /\ r.seen)
  BY <1>q, ShelfNoRow
<1>5. e \in ShelfMsgs /\ e.k = "memo" /\ e.m = m /\ e.row = q
  BY <1>4, <1>e DEF ShelfMsgs
<1>6. /\ s6' \in Seq(ShelfMsgs) /\ Len(s6') <= s10'.change /\ Len(s6) \in Nat
      /\ s5 => /\ Len(s6') = Len(s6) + 1 /\ s6'[Len(s6) + 1] = e
               /\ \A i \in 1 .. Len(s6) : s6'[i] = s6[i]
      /\ ~s5 => s6' = s6
  BY <1>1, <1>3, <1>5, ShelfSend
<1>7. /\ s10' \in [change : 0 .. MaxShelf, connect : 0 .. MaxConnect]
      /\ s10'.change = s10.change + 1 /\ s10.change \in Nat /\ s9' = FALSE
      /\ UNCHANGED <<s4, s5, s7, s8>>
  BY <1>1, ShelfChange
<1>8. ShelfTyped'
  BY <1>1, <1>2, <1>6, <1>7 DEF ShelfTyped
<1>9. ASSUME NEW o \in Memos PROVE ShelfRow(o)'
  <2>1. ShelfRow(o) /\ ShelfRow(m)
    BY DEF ShelfInv
  <2>2. /\ s2[o].rev \in Nat /\ s2[o].stamp \in Nat /\ r.rev \in Nat /\ r.stamp \in Nat
        /\ s2[m].stamp \in Nat
    BY <1>1, ShelfFields
  <2>3. CASE o # m
    BY <1>2, <1>7, <2>1, <2>2, <2>3 DEF ShelfRow
  <2>4. CASE o = m
    BY <1>2, <1>7, <2>1, <2>2, <2>4 DEF ShelfRow
  <2> QED  BY <2>3, <2>4
<1>10. ShelfApart'
  <2> SUFFICES ASSUME NEW o \in Memos, NEW p \in Memos, s2'[o].rev > 0, s2'[p].rev > 0,
                      s2'[o].stamp = s2'[p].stamp
               PROVE  o = p
    BY DEF ShelfApart
  <2>1. \A x \in Memos : x # m /\ s2'[x].rev > 0 => s2[x].stamp # r.stamp
    <3> SUFFICES ASSUME NEW x \in Memos, x # m, s2[x].rev > 0, s2[x].stamp = r.stamp PROVE FALSE
      BY <1>2
    <3>1. s2[x].stamp \in Nat /\ s2[x].stamp <= s10.change
      BY <1>1, ShelfFields DEF ShelfInv, ShelfRow
    <3>2. r.stamp = s2[m].stamp
      BY <1>7, <3>1
    <3>3. s2[m].rev > 0
      BY <3>2
    <3> QED  BY <3>2, <3>3 DEF ShelfInv, ShelfApart
  <2> QED  BY <1>2, <2>1 DEF ShelfInv, ShelfApart
<1>11. \A x \in B!Rows : KnownRow(m, x) => KnownRow(m, x)'
  <2> SUFFICES ASSUME NEW x \in B!Rows, KnownRow(m, x), x.rev > 0
               PROVE  /\ x.live /\ x.seen /\ r.stamp > 0
                      /\ r.rev > 0 => x.rev <= r.rev
                      /\ r.rev = x.rev => SameRow(x, r)
    BY <1>2 DEF KnownRow, SameRow
  <2>1. x.live /\ x.seen /\ s2[m].stamp > 0 /\ s2[m].stamp \in Nat /\ s2[m].rev \in Nat
    BY <1>1, ShelfFields DEF KnownRow
  <2>2. s2[m].rev > 0 /\ x.rev <= s2[m].rev /\ (s2[m].rev = x.rev => SameRow(x, s2[m]))
    BY <2>1 DEF KnownRow
  <2>3. x.rev \in Nat /\ r.rev \in Nat
    BY ShelfFields
  <2> QED  BY <2>1, <2>2, <2>3 DEF SameRow
<1>12. KnownRow(m, q)'
  BY <1>2, <1>4, ShelfFields DEF KnownRow, SameRow
<1>13. ShelfKnown'
  <2>1. ASSUME NEW o \in Memos PROVE KnownRow(o, s4.memo[o])'
    <3>1. KnownRow(o, s4.memo[o]) /\ s4.memo[o] \in B!Rows
      BY <1>1 DEF ShelfInv, ShelfKnown, ShelfTyped
    <3> QED  BY <1>2, <1>7, <1>11, <3>1 DEF KnownRow
  <2>2. ASSUME NEW o \in Memos, NEW i \in 1 .. Len(s6'), AboutMemo(i, o)'
        PROVE  KnownRow(o, s6[i].row)'
    <3>1. CASE i \in 1 .. Len(s6) /\ s6'[i] = s6[i]
      <4>1. AboutMemo(i, o) /\ KnownRow(o, s6[i].row)
        BY <2>2, <3>1 DEF ShelfInv, ShelfKnown, AboutMemo
      <4>2. s6[i] \in ShelfMsgs
        BY <1>1, <3>1 DEF ShelfTyped
      <4>3. s6[i].row \in B!Rows
        BY <4>1, <4>2, ShelfMsgIs DEF AboutMemo
      <4> QED  BY <1>2, <1>11, <3>1, <4>1, <4>3 DEF KnownRow
    <3>2. CASE s6'[i] = e
      BY <1>5, <1>12, <2>2, <3>2 DEF AboutMemo
    <3> QED  BY <1>6, <3>1, <3>2
  <2> QED  BY <1>7, <2>1, <2>2 DEF ShelfKnown
<1>14. ASSUME ShelfListed' PROVE ShelfRight' /\ ShelfFiled'
  <2>1. ShelfListed /\ s5 /\ ShelfRight /\ ShelfFiled
    BY <1>7, <1>14 DEF ShelfListed, ShelfInv
  <2>2. /\ Len(s6') = n + 1 /\ s6'[n + 1] = e /\ n \in Nat /\ Len(s6) = n
        /\ \A i \in 1 .. n : s6'[i] = s6[i]
    BY <1>6, <1>n, <2>1
  <2>3. ASSUME NEW i \in 1 .. Len(s6'), i \notin 1 .. n PROVE i = n + 1
    BY <2>2, <2>3
  <2>4. /\ n + 1 \in 1 .. Len(s6') /\ \A i \in 1 .. n : i \in 1 .. Len(s6') /\ n + 1 > i
    BY <2>2
  <2>5. \A o \in Memos : AboutMemo(n + 1, o)' <=> o = m
    BY <1>5, <2>2 DEF AboutMemo
  <2>6. \A o, i : i \in 1 .. n => (AboutMemo(i, o)' <=> AboutMemo(i, o))
    BY <2>2 DEF AboutMemo
  <2>7. ASSUME NEW o \in Memos, NEW i \in 1 .. Len(s6'), AboutMemo(i, o)',
               \A j \in 1 .. Len(s6') : j > i => ~AboutMemo(j, o)'
        PROVE  TrueRow(o, s6[i].row)'
    <3>1. CASE o = m
      <4>1. i = n + 1
        BY <2>3, <2>4, <2>5, <2>7, <3>1
      <4>2. s6'[i].row = q
        BY <1>5, <2>2, <4>1
      <4> QED  BY <1>2, <1>4, <3>1, <4>2 DEF TrueRow, SeenByMember, SameRow
    <3>2. CASE o # m
      <4>1. i \in 1 .. n /\ s6'[i] = s6[i]
        BY <2>2, <2>3, <2>5, <2>7, <3>2
      <4>2. AboutMemo(i, o) /\ \A j \in 1 .. n : j > i => ~AboutMemo(j, o)
        BY <2>4, <2>6, <2>7, <4>1
      <4>3. TrueRow(o, s6[i].row)
        BY <2>1, <2>2, <4>1, <4>2 DEF ShelfRight
      <4> QED  BY <1>2, <3>2, <4>1, <4>3 DEF TrueRow, SeenByMember
    <3> QED  BY <3>1, <3>2
  <2>8. ASSUME NEW o \in Memos, \A i \in 1 .. Len(s6') : ~AboutMemo(i, o)'
        PROVE  TrueOrAwaited(o, s4.memo[o])'
    <3>1. o # m /\ \A i \in 1 .. n : ~AboutMemo(i, o)
      BY <2>4, <2>5, <2>6, <2>8
    <3>2. TrueOrAwaited(o, s4.memo[o])
      BY <2>1, <2>2, <3>1 DEF ShelfRight
    <3> QED  BY <1>2, <1>7, <3>1, <3>2 DEF TrueOrAwaited, SeenByMember
  <2>9. \A i \in 1 .. Len(s6') : AboutFolders(i)' => i \in 1 .. n /\ AboutFolders(i) /\ s6'[i] = s6[i]
    BY <1>5, <2>2, <2>3 DEF AboutFolders
  <2>10. \A i \in 1 .. n : AboutFolders(i) => i \in 1 .. Len(s6') /\ AboutFolders(i)'
    BY <2>2, <2>4 DEF AboutFolders
  <2>11. ShelfFiled'
    <3>1. ASSUME NEW i \in 1 .. Len(s6'), AboutFolders(i)', \A j \in 1 .. Len(s6') : j > i => ~AboutFolders(j)'
          PROVE  s6'[i].folder = s1'
      <4>1. i \in 1 .. n /\ AboutFolders(i) /\ s6'[i] = s6[i]
        BY <2>9, <3>1
      <4>2. \A j \in 1 .. n : j > i => ~AboutFolders(j)
        BY <2>10, <3>1
      <4> QED  BY <2>1, <2>2, <4>1, <4>2 DEF ShelfFiled
    <3>2. (\A i \in 1 .. Len(s6') : ~AboutFolders(i)') => s4'.folder = s1'
      BY <1>7, <2>1, <2>2, <2>10 DEF ShelfFiled
    <3> QED  BY <3>1, <3>2 DEF ShelfFiled
  <2> QED  BY <2>7, <2>8, <2>11 DEF ShelfRight
<1>15. s8' = "done" => s7' = {}
  BY <1>7 DEF ShelfInv
<1> QED  BY <1>8, <1>9, <1>10, <1>13, <1>14, <1>15 DEF ShelfInv

\* The folders change, and memos lose theirs: the folders go to the member.
LEMMA ShelfFolderStep ==
    ASSUME ShelfInv, B!Change, s1' \in ShelfFoldersAre, s2' \in [Memos -> B!Rows],
           B!Send(B!FoldersEvent), UNCHANGED s3,
           \A m \in Memos : /\ SameRow(s2'[m], s2[m]) /\ s2'[m].live = s2[m].live /\ s2'[m].seen = s2[m].seen
                            /\ s2'[m].dir # "none" => s1'[s2'[m].dir] # "none"
    PROVE  ShelfInv'
<1>e. PICK e : e = [k |-> "folders", folder |-> s1']
  OBVIOUS
<1>n. PICK n : n = Len(s6)
  OBVIOUS
<1>1. ShelfTyped /\ \A o \in Memos : s2[o] \in B!Rows /\ s2'[o] \in B!Rows
  BY DEF ShelfInv, ShelfTyped
<1>2. \A o \in Memos : /\ s2'[o].rev = s2[o].rev /\ s2'[o].title = s2[o].title /\ s2'[o].stamp = s2[o].stamp
                       /\ s2'[o].size = s2[o].size /\ s2'[o].live = s2[o].live /\ s2'[o].seen = s2[o].seen
  BY DEF SameRow
<1>3. s6' = IF s5 THEN Append(s6, e) ELSE s6
  BY <1>e DEF B!Send, B!FoldersEvent
<1>4. e \in ShelfMsgs /\ e.k = "folders" /\ e.folder = s1'
  BY <1>e DEF ShelfMsgs
<1>5. /\ s6' \in Seq(ShelfMsgs) /\ Len(s6') <= s10'.change /\ Len(s6) \in Nat
      /\ s5 => /\ Len(s6') = Len(s6) + 1 /\ s6'[Len(s6) + 1] = e
               /\ \A i \in 1 .. Len(s6) : s6'[i] = s6[i]
      /\ ~s5 => s6' = s6
  BY <1>1, <1>3, <1>4, ShelfSend
<1>6. /\ s10' \in [change : 0 .. MaxShelf, connect : 0 .. MaxConnect]
      /\ s10'.change = s10.change + 1 /\ s10.change \in Nat /\ s9' = FALSE
      /\ UNCHANGED <<s4, s5, s7, s8>>
  BY <1>1, ShelfChange
<1>7. ShelfTyped'
  BY <1>1, <1>5, <1>6 DEF ShelfTyped
<1>8. ASSUME NEW o \in Memos PROVE ShelfRow(o)'
  <2>1. s2[o].rev \in Nat /\ s2[o].stamp \in Nat
    BY <1>1, ShelfFields
  <2> QED  BY <1>2, <1>6, <2>1 DEF ShelfInv, ShelfRow
<1>9. ShelfApart'
  BY <1>2 DEF ShelfInv, ShelfApart
<1>10. \A x : \A o \in Memos : KnownRow(o, x) => KnownRow(o, x)'
  BY <1>2 DEF KnownRow, SameRow
<1>11. ShelfKnown'
  <2>1. \A o \in Memos : KnownRow(o, s4.memo[o])'
    BY <1>6, <1>10 DEF ShelfInv, ShelfKnown, KnownRow
  <2>2. ASSUME NEW o \in Memos, NEW i \in 1 .. Len(s6'), AboutMemo(i, o)'
        PROVE  KnownRow(o, s6[i].row)'
    <3>1. s6'[i] # e
      BY <1>4, <2>2 DEF AboutMemo
    <3>2. i \in 1 .. Len(s6) /\ s6'[i] = s6[i]
      BY <1>5, <3>1
    <3>3. KnownRow(o, s6[i].row)
      BY <2>2, <3>2 DEF ShelfInv, ShelfKnown, AboutMemo
    <3> QED  BY <1>10, <3>2, <3>3 DEF KnownRow
  <2> QED  BY <2>1, <2>2 DEF ShelfKnown
<1>12. ASSUME ShelfListed' PROVE ShelfRight' /\ ShelfFiled'
  <2>1. ShelfListed /\ s5 /\ ShelfRight /\ ShelfFiled
    BY <1>6, <1>12 DEF ShelfListed, ShelfInv
  <2>2. /\ Len(s6') = n + 1 /\ s6'[n + 1] = e /\ n \in Nat /\ Len(s6) = n
        /\ \A i \in 1 .. n : s6'[i] = s6[i]
    BY <1>5, <1>n, <2>1
  <2>3. /\ n + 1 \in 1 .. Len(s6') /\ \A i \in 1 .. n : i \in 1 .. Len(s6') /\ n + 1 > i
        /\ \A i \in 1 .. Len(s6') : i \in 1 .. n \/ i = n + 1
    BY <2>2
  <2>4. \A o \in Memos : \A i \in 1 .. Len(s6') :
          AboutMemo(i, o)' => i \in 1 .. n /\ AboutMemo(i, o) /\ s6'[i] = s6[i]
    BY <1>4, <2>2, <2>3 DEF AboutMemo
  <2>5. \A o \in Memos : \A i \in 1 .. n : AboutMemo(i, o) => i \in 1 .. Len(s6') /\ AboutMemo(i, o)'
    BY <2>2, <2>3 DEF AboutMemo
  <2>6. ASSUME NEW o \in Memos, NEW i \in 1 .. Len(s6'), AboutMemo(i, o)',
               \A j \in 1 .. Len(s6') : j > i => ~AboutMemo(j, o)'
        PROVE  TrueRow(o, s6[i].row)'
    <3>1. i \in 1 .. n /\ AboutMemo(i, o) /\ s6'[i] = s6[i]
      BY <2>4, <2>6
    <3>2. \A j \in 1 .. n : j > i => ~AboutMemo(j, o)
      BY <2>5, <2>6
    <3>3. TrueRow(o, s6[i].row)
      BY <2>1, <2>2, <3>1, <3>2 DEF ShelfRight
    <3> QED  BY <1>2, <3>1, <3>3 DEF TrueRow, SeenByMember, SameRow
  <2>7. ASSUME NEW o \in Memos, \A i \in 1 .. Len(s6') : ~AboutMemo(i, o)'
        PROVE  TrueOrAwaited(o, s4.memo[o])'
    <3>1. TrueOrAwaited(o, s4.memo[o])
      BY <2>1, <2>2, <2>5, <2>7 DEF ShelfRight
    <3> QED  BY <1>2, <1>6, <3>1 DEF TrueOrAwaited, SeenByMember, SameRow
  <2>8. AboutFolders(n + 1)' /\ s6'[n + 1].folder = s1'
    BY <1>4, <2>2 DEF AboutFolders
  <2>9. ShelfFiled'
    BY <2>3, <2>8 DEF ShelfFiled
  <2> QED  BY <2>6, <2>7, <2>9 DEF ShelfRight
<1>13. s8' = "done" => s7' = {}
  BY <1>6 DEF ShelfInv
<1> QED  BY <1>7, <1>8, <1>9, <1>11, <1>12, <1>13 DEF ShelfInv

LEMMA ShelfKeepsFolder ==
    ASSUME ShelfInv, NEW f \in Folders,
           \/ B!FolderDelete(f) \/ \E n \in Names : B!FolderCreate(f, n) \/ B!FolderRename(f, n)
    PROVE  ShelfInv'
<1>1. /\ ShelfTyped /\ \A m \in Memos : s2[m] \in B!Rows /\ ShelfRow(m)
  BY DEF ShelfInv, ShelfTyped
<1>2. \A m \in Memos : SameRow(s2[m], s2[m])
  BY DEF SameRow
<1>3. ASSUME NEW n \in Names, B!FolderCreate(f, n) \/ B!FolderRename(f, n) PROVE ShelfInv'
  <2>1. /\ B!Change /\ s1' = [s1 EXCEPT ![f] = n] /\ B!Send(B!FoldersEvent) /\ UNCHANGED <<s2, s3>>
    BY <1>3, Zenon DEF B!FolderCreate, B!FolderRename
  <2>2. s1' \in ShelfFoldersAre /\ \A g \in Folders : s1[g] # "none" => s1'[g] # "none"
    BY <1>1, <2>1, ShelfNat DEF ShelfTyped, ShelfFoldersAre
  <2>3. \A m \in Memos : s2[m].dir # "none" => s1'[s2[m].dir] # "none"
    BY <1>1, <2>2, ShelfFields DEF ShelfRow
  <2> QED  BY <1>1, <1>2, <2>1, <2>2, <2>3, ShelfFolderStep DEF ShelfTyped
<1>4. CASE B!FolderDelete(f)
  <2>1. /\ B!Change /\ s1' = [s1 EXCEPT ![f] = "none"] /\ B!Send(B!FoldersEvent) /\ UNCHANGED s3
        /\ s2' = [m \in Memos |-> IF s2[m].dir = f THEN [s2[m] EXCEPT !.dir = "none"] ELSE s2[m]]
    BY <1>4, Zenon DEF B!FolderDelete, B!None
  <2>2. s1' \in ShelfFoldersAre /\ \A g \in Folders : g # f => s1'[g] = s1[g]
    BY <1>1, <2>1 DEF ShelfTyped, ShelfFoldersAre
  <2>3. \A r \in B!Rows : /\ [r EXCEPT !.dir = "none"] \in B!Rows /\ SameRow([r EXCEPT !.dir = "none"], r)
                          /\ [r EXCEPT !.dir = "none"].live = r.live /\ [r EXCEPT !.dir = "none"].seen = r.seen
                          /\ [r EXCEPT !.dir = "none"].dir = "none"
    BY DEF B!Rows, B!None, SameRow
  <2>4. ASSUME NEW m \in Memos
        PROVE  /\ s2'[m] \in B!Rows /\ SameRow(s2'[m], s2[m]) /\ s2'[m].live = s2[m].live
               /\ s2'[m].seen = s2[m].seen
               /\ s2'[m].dir # "none" => (s2'[m].dir # f /\ s2'[m].dir = s2[m].dir)
    <3>1. CASE s2[m].dir = f
      <4>1. s2'[m] = [s2[m] EXCEPT !.dir = "none"]
        BY <2>1, <3>1
      <4> QED  BY <1>1, <2>3, <4>1
    <3>2. CASE s2[m].dir # f
      BY <1>1, <1>2, <2>1, <3>2
    <3> QED  BY <3>1, <3>2
  <2>5. s2' \in [Memos -> B!Rows]
    BY <2>1, <2>4
  <2>6. \A m \in Memos : s2'[m].dir # "none" => s1'[s2'[m].dir] # "none"
    <3> SUFFICES ASSUME NEW m \in Memos, s2'[m].dir # "none" PROVE s1'[s2'[m].dir] # "none"
      OBVIOUS
    <3>1. s2'[m].dir # f /\ s2'[m].dir = s2[m].dir /\ s2[m].dir \in Folders
      BY <1>1, <2>4, ShelfFields
    <3> QED  BY <1>1, <2>2, <3>1 DEF ShelfRow
  <2> QED  BY <2>1, <2>2, <2>4, <2>5, <2>6, ShelfFolderStep
<1> QED  BY <1>3, <1>4

LEMMA ShelfKeepsCreate ==
    ASSUME ShelfInv, NEW m \in Memos, NEW t \in FileTitles, NEW d \in Folders \cup {"none"},
           NEW z \in 1 .. MaxSize, B!Create(m, t, d, z)
    PROVE  ShelfInv'
<1>1. ShelfTyped
  BY DEF ShelfInv
<1>2. PICK r : r = [rev |-> 1, dir |-> d, title |-> t, stamp |-> s10.change + 1, size |-> z,
                    live |-> TRUE, seen |-> TRUE]
  OBVIOUS
<1>3. /\ B!Change /\ s2[m] = B!NoRow /\ (d = "none" \/ s1[d] # "none") /\ s2' = [s2 EXCEPT ![m] = r]
      /\ B!Send(B!ChangedEvent(m)) /\ UNCHANGED <<s1, s3>>
  BY <1>2 DEF B!Create, B!Now, B!None
<1>4. s10.change + 1 \in 1 .. MaxShelf /\ s10.change \in Nat
  BY <1>1, <1>3, ShelfChange
<1>5. /\ r \in B!Rows /\ r.rev = 1 /\ r.stamp = s10.change + 1 /\ r.dir = d
  <2>1. 1 \in 0 .. MaxShelf /\ s10.change + 1 \in 0 .. MaxShelf /\ z \in 0 .. MaxSize
    BY <1>4, ShelfNat
  <2> QED  BY <1>2, <2>1 DEF B!Rows, B!None
<1>6. /\ r.rev = 0 => ~r.live /\ ~r.seen
      /\ r.rev <= s10.change + 1 /\ r.stamp \in {s2[m].stamp, s10.change + 1} /\ r.stamp > 0
      /\ s2[m].rev > 0 \/ s2[m].stamp = 0
      /\ s2[m].rev > 0 /\ r.rev > 0 => r.rev > s2[m].rev \/ SameRow(r, s2[m])
      /\ r.dir # "none" => s1[r.dir] # "none"
  BY <1>3, <1>4, <1>5, ShelfNoRow
<1>7. s2' = [s2 EXCEPT ![m] = r] /\ r \in B!Rows /\ B!Change /\ B!Send(B!ChangedEvent(m)) /\ UNCHANGED <<s1, s3>>
  BY <1>3, <1>5
<1> QED  BY <1>6, <1>7, ShelfMemoStep

LEMMA ShelfKeepsUpdate ==
    ASSUME ShelfInv, NEW m \in Memos, NEW t \in FileTitles, NEW z \in 1 .. MaxSize, B!Update(m, t, z)
    PROVE  ShelfInv'
<1>1. ShelfTyped /\ s2[m] \in B!Rows /\ ShelfRow(m)
  BY DEF ShelfInv, ShelfTyped
<1>2. PICK r : r = [[[[s2[m] EXCEPT !.rev = s2[m].rev + 1] EXCEPT !.title = t] EXCEPT !.size = z]
                      EXCEPT !.stamp = s10.change + 1]
  OBVIOUS
<1>3. /\ B!Change /\ s2[m].rev > 0 /\ B!Send(B!ChangedEvent(m)) /\ UNCHANGED <<s1, s3>>
      /\ s2' = [s2 EXCEPT ![m].rev = @ + 1, ![m].title = t, ![m].size = z, ![m].stamp = s10.change + 1]
  BY DEF B!Update, B!Now
<1>4. s2' = [s2 EXCEPT ![m] = r]
  BY <1>1, <1>2, <1>3 DEF ShelfTyped
<1>5. s10.change + 1 \in 1 .. MaxShelf /\ s10.change \in Nat
  BY <1>1, <1>3, ShelfChange
<1>6. s2[m].rev > 0 /\ s2[m].rev <= s10.change /\ s2[m].rev \in Nat
  BY <1>1, <1>3, ShelfFields DEF ShelfRow
<1>7. /\ s2[m].rev + 1 \in 0 .. MaxShelf /\ s10.change + 1 \in 0 .. MaxShelf /\ z \in 0 .. MaxSize
  BY <1>5, <1>6, ShelfNat
<1>8. /\ r \in B!Rows /\ r.rev = s2[m].rev + 1 /\ r.stamp = s10.change + 1 /\ r.dir = s2[m].dir
  BY <1>1, <1>2, <1>7 DEF B!Rows
<1>9. r.dir # "none" => s1[r.dir] # "none"
  BY <1>1, <1>8 DEF ShelfRow
<1>10. /\ r.rev = 0 => ~r.live /\ ~r.seen
       /\ r.rev <= s10.change + 1 /\ r.stamp \in {s2[m].stamp, s10.change + 1} /\ r.stamp > 0
       /\ s2[m].rev > 0 \/ s2[m].stamp = 0
       /\ s2[m].rev > 0 /\ r.rev > 0 => r.rev > s2[m].rev \/ SameRow(r, s2[m])
  BY <1>5, <1>6, <1>8
<1>11. B!Change /\ B!Send(B!ChangedEvent(m)) /\ UNCHANGED <<s1, s3>>
  BY <1>3
<1> QED  BY <1>4, <1>8, <1>9, <1>10, <1>11, ShelfMemoStep

LEMMA ShelfKeepsMove ==
    ASSUME ShelfInv, NEW m \in Memos, NEW b \in BOOLEAN, B!Move(m, b) \/ B!SetSeen(m, b)
    PROVE  ShelfInv'
<1>1. ShelfTyped /\ s2[m] \in B!Rows /\ ShelfRow(m)
  BY DEF ShelfInv, ShelfTyped
<1>2. PICK r : /\ r = [s2[m] EXCEPT !.live = b] \/ r = [s2[m] EXCEPT !.seen = b]
               /\ s2' = [s2 EXCEPT ![m] = r] /\ B!Change /\ s2[m].rev > 0
               /\ B!Send(B!ChangedEvent(m)) /\ UNCHANGED <<s1, s3>>
  <2>1. CASE B!Move(m, b)
    <3>1. /\ s2' = [s2 EXCEPT ![m].live = b] /\ B!Change /\ s2[m].rev > 0
          /\ B!Send(B!ChangedEvent(m)) /\ UNCHANGED <<s1, s3>>
      BY <2>1, Zenon DEF B!Move
    <3>2. s2' = [s2 EXCEPT ![m] = [s2[m] EXCEPT !.live = b]]
      BY <1>1, <3>1 DEF ShelfTyped
    <3> QED  BY <3>1, <3>2
  <2>2. CASE B!SetSeen(m, b)
    <3>1. /\ s2' = [s2 EXCEPT ![m].seen = b] /\ B!Change /\ s2[m].live
          /\ B!Send(B!ChangedEvent(m)) /\ UNCHANGED <<s1, s3>>
      BY <2>2, Zenon DEF B!SetSeen
    <3>2. s2' = [s2 EXCEPT ![m] = [s2[m] EXCEPT !.seen = b]]
      BY <1>1, <3>1 DEF ShelfTyped
    <3>3. s2[m].rev > 0
      BY <1>1, <3>1, ShelfFields DEF ShelfRow
    <3> QED  BY <3>1, <3>2, <3>3
  <2> QED  BY <2>1, <2>2
<1>3. r \in B!Rows /\ SameRow(r, s2[m]) /\ r.dir = s2[m].dir
  BY <1>1, <1>2 DEF B!Rows, SameRow
<1>4. r.rev = s2[m].rev /\ r.stamp = s2[m].stamp /\ s2[m].rev \in Nat /\ s2[m].stamp \in Nat
  BY <1>1, <1>3, ShelfFields DEF SameRow
<1>5. /\ r.rev # 0 /\ r.stamp > 0 /\ r.rev <= s10.change /\ s10.change \in Nat
      /\ r.dir # "none" => s1[r.dir] # "none"
  BY <1>1, <1>2, <1>3, <1>4, ShelfChange DEF ShelfRow
<1>6. r.rev <= s10.change + 1 /\ r.stamp \in {s2[m].stamp, s10.change + 1}
  BY <1>4, <1>5
<1>7. /\ r.rev = 0 => ~r.live /\ ~r.seen
      /\ r.rev <= s10.change + 1 /\ r.stamp \in {s2[m].stamp, s10.change + 1} /\ r.stamp > 0
      /\ s2[m].rev > 0 \/ s2[m].stamp = 0
      /\ s2[m].rev > 0 /\ r.rev > 0 => r.rev > s2[m].rev \/ SameRow(r, s2[m])
      /\ r.dir # "none" => s1[r.dir] # "none"
  BY <1>2, <1>3, <1>5, <1>6
<1>8. s2' = [s2 EXCEPT ![m] = r] /\ r \in B!Rows /\ B!Change /\ B!Send(B!ChangedEvent(m)) /\ UNCHANGED <<s1, s3>>
  BY <1>2, <1>3
<1> QED  BY <1>7, <1>8, ShelfMemoStep

LEMMA ShelfKeepsPurge ==
    ASSUME ShelfInv, NEW m \in Memos, B!Purge(m)
    PROVE  ShelfInv'
<1>1. ShelfTyped
  BY DEF ShelfInv
<1>2. PICK r : r = [B!NoRow EXCEPT !.stamp = s10.change + 1]
  OBVIOUS
<1>3. /\ B!Change /\ s2[m].rev > 0 /\ s2' = [s2 EXCEPT ![m] = r]
      /\ B!Send(B!ChangedEvent(m)) /\ UNCHANGED <<s1, s3>>
  BY <1>2 DEF B!Purge, B!Now
<1>4. s10.change + 1 \in 1 .. MaxShelf /\ s10.change \in Nat
  BY <1>1, <1>3, ShelfChange
<1>5. s10.change + 1 \in 0 .. MaxShelf
  BY <1>4
<1>6. /\ r \in B!Rows /\ r.rev = 0 /\ ~r.live /\ ~r.seen /\ r.stamp = s10.change + 1 /\ r.dir = "none"
  <2>1. \A x \in B!Rows : /\ [x EXCEPT !.stamp = s10.change + 1] \in B!Rows
                          /\ [x EXCEPT !.stamp = s10.change + 1].rev = x.rev
                          /\ [x EXCEPT !.stamp = s10.change + 1].dir = x.dir
                          /\ [x EXCEPT !.stamp = s10.change + 1].live = x.live
                          /\ [x EXCEPT !.stamp = s10.change + 1].seen = x.seen
                          /\ [x EXCEPT !.stamp = s10.change + 1].stamp = s10.change + 1
    BY <1>5 DEF B!Rows
  <2> QED  BY <1>2, <2>1, ShelfNoRow
<1>7. /\ r.rev = 0 => ~r.live /\ ~r.seen
      /\ r.rev <= s10.change + 1 /\ r.stamp \in {s2[m].stamp, s10.change + 1} /\ r.stamp > 0
      /\ s2[m].rev > 0 \/ s2[m].stamp = 0
      /\ s2[m].rev > 0 /\ r.rev > 0 => r.rev > s2[m].rev \/ SameRow(r, s2[m])
      /\ r.dir # "none" => s1[r.dir] # "none"
  BY <1>3, <1>4, <1>6
<1>8. s2' = [s2 EXCEPT ![m] = r] /\ r \in B!Rows /\ B!Change /\ B!Send(B!ChangedEvent(m)) /\ UNCHANGED <<s1, s3>>
  BY <1>3, <1>6
<1> QED  BY <1>7, <1>8, ShelfMemoStep

LEMMA ShelfKeepsLimits ==
    ASSUME ShelfInv, NEW z \in 1 .. B!Cardinality(Memos), B!SetLimits(z)
    PROVE  ShelfInv'
<1>1. ShelfTyped
  BY DEF ShelfInv
<1>2. B!Change /\ s3' = z /\ UNCHANGED <<s1, s2, s6>>
  BY DEF B!SetLimits
<1>3. /\ s10' \in [change : 0 .. MaxShelf, connect : 0 .. MaxConnect]
      /\ s10'.change = s10.change + 1 /\ s10.change \in Nat /\ s9' = FALSE
      /\ UNCHANGED <<s4, s5, s7, s8>>
  BY <1>1, <1>2, ShelfChange
<1>4. ShelfTyped'
  <2>1. Len(s6) \in Nat /\ Len(s6) <= s10.change
    BY <1>1, LenProperties DEF ShelfTyped
  <2>2. Len(s6) <= s10.change + 1
    BY <1>3, <2>1
  <2> QED  BY <1>1, <1>2, <1>3, <2>2 DEF ShelfTyped
<1>5. \A m \in Memos : ShelfRow(m)'
  <2> SUFFICES ASSUME NEW m \in Memos PROVE ShelfRow(m)'
    OBVIOUS
  <2>1. s2[m].rev \in Nat /\ s2[m].stamp \in Nat
    BY <1>1, ShelfFields DEF ShelfTyped
  <2> QED  BY <1>2, <1>3, <2>1 DEF ShelfInv, ShelfRow
<1>6. ShelfApart' /\ ShelfKnown' /\ (ShelfListed' => ShelfRight' /\ ShelfFiled')
  BY <1>2, <1>3 DEF ShelfInv, ShelfApart, ShelfKnown, KnownRow, AboutMemo, SameRow, ShelfListed, ShelfRight, ShelfFiled,
                    TrueRow, TrueOrAwaited, SeenByMember, AboutFolders
<1> QED  BY <1>3, <1>4, <1>5, <1>6 DEF ShelfInv

-----------------------------------------------------------------------------
(* The member's cache.                                                     *)

LEMMA ShelfKeepsConnect ==
    ASSUME ShelfInv, B!Connect \/ B!Lose
    PROVE  ShelfInv'
<1>1. /\ s6' = << >> /\ s7' = {} /\ s8' # "done" /\ s8' \in {"off", "ask"} /\ UNCHANGED <<s1, s2, s3, s4>>
      /\ s5' \in BOOLEAN /\ s9' \in BOOLEAN
      /\ s10' = s10 \/ (s10.connect < MaxConnect /\ s10' = [s10 EXCEPT !.connect = s10.connect + 1])
  BY DEF B!Connect, B!Lose
<1>2. ShelfTyped
  BY DEF ShelfInv
<1>3. /\ s10' \in [change : 0 .. MaxShelf, connect : 0 .. MaxConnect] /\ s10'.change = s10.change
  BY <1>1, <1>2, ShelfNat DEF ShelfTyped
<1>4. s10.change \in 0 .. MaxShelf
  BY <1>2 DEF ShelfTyped
<1>5. s6' \in Seq(ShelfMsgs) /\ Len(s6') = 0 /\ 0 <= s10'.change
  BY <1>1, <1>3, <1>4, ShelfNat
<1>6. ShelfTyped'
  BY <1>1, <1>2, <1>3, <1>5 DEF ShelfTyped
<1>7. \A m \in Memos : ShelfRow(m)'
  BY <1>1, <1>3 DEF ShelfInv, ShelfRow
<1>8. ShelfApart'
  BY <1>1 DEF ShelfInv, ShelfApart
<1>9. ShelfKnown'
  BY <1>1, <1>5 DEF ShelfInv, ShelfKnown, KnownRow, SameRow
<1>10. ~ShelfListed'
  BY <1>1 DEF ShelfListed
<1> QED  BY <1>1, <1>6, <1>7, <1>8, <1>9, <1>10 DEF ShelfInv

\* What stays as it is where only the cache, the wire and the fetching move.
LEMMA ShelfHostStays ==
    ASSUME ShelfInv, UNCHANGED <<s1, s2, s3, s5, s9, s10>>, s6' \in Seq(ShelfMsgs), Len(s6') <= Len(s6),
           s4' \in [folder : ShelfFoldersAre, memo : [Memos -> B!Rows]],
           s7' \subseteq Memos, s8' \in {"off", "ask", "done"}
    PROVE  ShelfTyped' /\ (\A m \in Memos : ShelfRow(m)') /\ ShelfApart'
<1>1. ShelfTyped /\ Len(s6) \in Nat /\ Len(s6') \in Nat /\ s10.change \in 0 .. MaxShelf
  BY LenProperties DEF ShelfInv, ShelfTyped
<1>2. Len(s6') <= s10'.change
  BY <1>1, ShelfNat DEF ShelfTyped
<1>3. ShelfTyped'
  BY <1>1, <1>2 DEF ShelfTyped
<1>4. \A m \in Memos : ShelfRow(m)'
  BY DEF ShelfInv, ShelfRow
<1>5. ShelfApart'
  BY DEF ShelfInv, ShelfApart
<1> QED  BY <1>3, <1>4, <1>5

\* A row put into the cache: it or nothing is found there, and of the others what
\* was there or nothing.
LEMMA ShelfUpsert ==
    ASSUME ShelfTyped, NEW m \in Memos, NEW r \in B!Rows
    PROVE  /\ B!Upsert(m, r) \in [Memos -> B!Rows]
           /\ B!Upsert(m, r)[m] \in {r, B!NoRow}
           /\ \A o \in Memos : o # m => B!Upsert(m, r)[o] \in {s4.memo[o], B!NoRow}
           /\ B!Remove(m) \in [Memos -> B!Rows] /\ B!Remove(m)[m] = B!NoRow
           /\ \A o \in Memos : o # m => B!Remove(m)[o] = s4.memo[o]
<1>1. s4.memo \in [Memos -> B!Rows]
  BY DEF ShelfTyped
<1>2. PICK t : t = [s4.memo EXCEPT ![m] = r]
  OBVIOUS
<1>3. t \in [Memos -> B!Rows] /\ t[m] = r /\ \A o \in Memos : o # m => t[o] = s4.memo[o]
  BY <1>1, <1>2
<1>4. B!Upsert(m, r) = B!Enforced(t)
  BY <1>2 DEF B!Upsert
<1>5. /\ B!Enforced(t) \in [Memos -> B!Rows]
      /\ \A o \in Memos : B!Enforced(t)[o] = t[o] \/ B!Enforced(t)[o] = B!NoRow
  BY <1>3, ShelfEnforced
<1>6. /\ B!Remove(m) \in [Memos -> B!Rows] /\ B!Remove(m)[m] = B!NoRow
      /\ \A o \in Memos : o # m => B!Remove(m)[o] = s4.memo[o]
  BY <1>1, ShelfNoRow DEF B!Remove
<1> QED  BY <1>3, <1>4, <1>5, <1>6

LEMMA ShelfKeepsApply ==
    ASSUME ShelfInv, B!Apply
    PROVE  ShelfInv'
<1>e. PICK e : e = s6[1]
  OBVIOUS
<1>n. PICK n : n = Len(s6)
  OBVIOUS
<1>1. ShelfTyped /\ s6 \in Seq(ShelfMsgs) /\ s6 # << >>
  BY DEF B!Apply, ShelfInv, ShelfTyped
<1>2. /\ s6' = Tail(s6) /\ UNCHANGED <<s1, s2, s3, s5, s7, s8, s9, s10>> /\ Head(s6) = e
      /\ s4' = IF e.k = "folders" THEN [s4 EXCEPT !.folder = e.folder]
               ELSE [s4 EXCEPT !.memo = IF e.row.rev = 0 THEN B!Remove(e.m) ELSE B!Upsert(e.m, e.row)]
  <2>1. Head(s6) = e
    BY <1>1, <1>e
  <2> QED  BY <2>1, Zenon DEF B!Apply
<1>3. /\ n \in Nat /\ n > 0 /\ s6' \in Seq(ShelfMsgs) /\ Len(s6') = n - 1 /\ Len(s6) = n
      /\ \A i \in 1 .. n - 1 : s6'[i] = s6[i + 1]
  BY <1>1, <1>2, <1>n, HeadTailProperties
<1>4. e \in ShelfMsgs /\ 1 \in 1 .. n /\ \A i \in 1 .. n : s6[i] \in ShelfMsgs
  BY <1>1, <1>e, <1>3
<1>5. /\ s4' \in [folder : ShelfFoldersAre, memo : [Memos -> B!Rows]]
      /\ e.k = "folders" => s4'.folder = e.folder /\ s4'.memo = s4.memo
      /\ e.k = "memo" => /\ s4'.folder = s4.folder /\ s4'.memo[e.m] \in {e.row, B!NoRow}
                         /\ \A o \in Memos : o # e.m => s4'.memo[o] \in {s4.memo[o], B!NoRow}
  <2>1. CASE e.k = "folders"
    BY <1>1, <1>2, <1>4, <2>1, ShelfMsgIs DEF ShelfTyped
  <2>2. CASE e.k = "memo"
    <3>1. e.m \in Memos /\ e.row \in B!Rows
      BY <1>4, <2>2, ShelfMsgIs
    <3>2. PICK t : t = IF e.row.rev = 0 THEN B!Remove(e.m) ELSE B!Upsert(e.m, e.row)
      OBVIOUS
    <3>3. /\ t \in [Memos -> B!Rows] /\ t[e.m] \in {e.row, B!NoRow}
          /\ \A o \in Memos : o # e.m => t[o] \in {s4.memo[o], B!NoRow}
      BY <1>1, <3>1, <3>2, ShelfUpsert
    <3>4. s4' = [s4 EXCEPT !.memo = t]
      BY <1>2, <2>2, <3>2
    <3>5. s4' \in [folder : ShelfFoldersAre, memo : [Memos -> B!Rows]] /\ s4'.memo = t /\ s4'.folder = s4.folder
      BY <1>1, <3>3, <3>4 DEF ShelfTyped
    <3> QED  BY <2>2, <3>3, <3>5
  <2> QED  BY <1>4, <2>1, <2>2, ShelfMsgIs
<1>6. ShelfTyped' /\ (\A m \in Memos : ShelfRow(m)') /\ ShelfApart'
  <2>1. Len(s6') <= Len(s6) /\ s7' \subseteq Memos /\ s8' \in {"off", "ask", "done"}
    BY <1>1, <1>2, <1>3 DEF ShelfTyped
  <2>2. UNCHANGED <<s1, s2, s3, s5, s9, s10>>
    BY <1>2
  <2> QED  BY <1>3, <1>5, <2>1, <2>2, ShelfHostStays
<1>7. \A o \in Memos : \A i \in 1 .. n - 1 : (AboutMemo(i, o)' <=> AboutMemo(i + 1, o)) /\ i + 1 \in 1 .. n
  BY <1>3 DEF AboutMemo
<1>8. \A o, r : KnownRow(o, r)' <=> KnownRow(o, r)
  BY <1>2 DEF KnownRow, SameRow
<1>9. \A o \in Memos : AboutMemo(1, o) <=> e.k = "memo" /\ e.m = o
  BY <1>e DEF AboutMemo
<1>10. ASSUME NEW o \in Memos
       PROVE  \/ s4'.memo[o] = B!NoRow
              \/ s4'.memo[o] = s4.memo[o] /\ ~AboutMemo(1, o)
              \/ s4'.memo[o] = e.row /\ AboutMemo(1, o)
  BY <1>4, <1>5, <1>9, ShelfMsgIs
<1>11. ShelfKnown'
  <2>1. ASSUME NEW o \in Memos PROVE KnownRow(o, s4.memo[o])'
    <3>1. KnownRow(o, B!NoRow) /\ KnownRow(o, s4.memo[o]) /\ (AboutMemo(1, o) => KnownRow(o, e.row))
      BY <1>1, <1>e, <1>3, <1>4, ShelfNoRow DEF ShelfInv, ShelfKnown, KnownRow
    <3>2. KnownRow(o, s4'.memo[o])
      BY <1>10, <3>1
    <3> QED  BY <1>2, <3>2 DEF KnownRow, SameRow
  <2>2. ASSUME NEW o \in Memos, NEW i \in 1 .. Len(s6'), AboutMemo(i, o)'
        PROVE  KnownRow(o, s6[i].row)'
    <3>1. i \in 1 .. n - 1 /\ AboutMemo(i + 1, o) /\ i + 1 \in 1 .. n /\ s6'[i] = s6[i + 1]
      BY <1>3, <1>7, <2>2
    <3>2. KnownRow(o, s6[i + 1].row)
      BY <1>3, <3>1 DEF ShelfInv, ShelfKnown
    <3> QED  BY <1>2, <3>1, <3>2 DEF KnownRow, SameRow
  <2> QED  BY <2>1, <2>2 DEF ShelfKnown
<1>12. ASSUME ShelfListed' PROVE ShelfRight' /\ ShelfFiled'
  <2>1. ShelfRight /\ ShelfFiled
    BY <1>2, <1>12 DEF ShelfListed, ShelfInv
  <2>2. ASSUME NEW o \in Memos, NEW i \in 1 .. Len(s6'), AboutMemo(i, o)',
               \A j \in 1 .. Len(s6') : j > i => ~AboutMemo(j, o)'
        PROVE  TrueRow(o, s6[i].row)'
    <3>1. i \in 1 .. n - 1 /\ AboutMemo(i + 1, o) /\ i + 1 \in 1 .. n /\ s6'[i] = s6[i + 1]
      BY <1>3, <1>7, <2>2
    <3>2. ASSUME NEW j \in 1 .. n, j > i + 1 PROVE ~AboutMemo(j, o)
      <4>1. j - 1 \in 1 .. n - 1 /\ j - 1 > i /\ (j - 1) + 1 = j
        BY <1>3, <3>1, <3>2
      <4>2. AboutMemo(j - 1, o)' <=> AboutMemo(j, o)
        BY <1>7, <4>1
      <4> QED  BY <1>3, <2>2, <4>1, <4>2
    <3>3. TrueRow(o, s6[i + 1].row)
      BY <1>3, <2>1, <3>1, <3>2 DEF ShelfRight
    <3> QED  BY <1>2, <3>1, <3>3 DEF TrueRow, SeenByMember
  <2>3. ASSUME NEW o \in Memos, \A i \in 1 .. Len(s6') : ~AboutMemo(i, o)'
        PROVE  TrueOrAwaited(o, s4.memo[o])'
    <3>1. ASSUME NEW j \in 1 .. n, j > 1 PROVE ~AboutMemo(j, o)
      <4>1. j - 1 \in 1 .. n - 1 /\ (j - 1) + 1 = j
        BY <1>3, <3>1
      <4>2. AboutMemo(j - 1, o)' <=> AboutMemo(j, o)
        BY <1>7, <4>1
      <4> QED  BY <1>3, <2>3, <4>1, <4>2
    <3>2. CASE AboutMemo(1, o)
      <4>1. TrueRow(o, e.row)
        BY <1>3, <1>4, <1>e, <2>1, <3>1, <3>2 DEF ShelfRight
      <4>2. s4'.memo[o] = B!NoRow \/ s4'.memo[o] = e.row
        BY <1>10, <3>2
      <4> QED  BY <1>2, <4>1, <4>2, ShelfNoRow DEF TrueRow, TrueOrAwaited, SeenByMember
    <3>3. CASE ~AboutMemo(1, o)
      <4>1. \A j \in 1 .. n : ~AboutMemo(j, o)
        <5> SUFFICES ASSUME NEW j \in 1 .. n PROVE ~AboutMemo(j, o)
          OBVIOUS
        <5>1. j = 1 \/ j > 1
          BY <1>3
        <5> QED  BY <3>1, <3>3, <5>1
      <4>2. TrueOrAwaited(o, s4.memo[o])
        BY <1>3, <2>1, <4>1 DEF ShelfRight
      <4>3. s4'.memo[o] = B!NoRow \/ s4'.memo[o] = s4.memo[o]
        BY <1>10, <3>3
      <4> QED  BY <1>2, <4>2, <4>3, ShelfNoRow DEF TrueOrAwaited, SeenByMember
    <3> QED  BY <3>2, <3>3
  <2>4. \A i \in 1 .. n - 1 : (AboutFolders(i)' <=> AboutFolders(i + 1)) /\ i + 1 \in 1 .. n
    BY <1>3 DEF AboutFolders
  <2>5. ShelfFiled'
    <3>1. ASSUME NEW i \in 1 .. Len(s6'), AboutFolders(i)', \A j \in 1 .. Len(s6') : j > i => ~AboutFolders(j)'
          PROVE  s6'[i].folder = s1'
      <4>1. i \in 1 .. n - 1 /\ AboutFolders(i + 1) /\ i + 1 \in 1 .. n /\ s6'[i] = s6[i + 1]
        BY <1>3, <2>4, <3>1
      <4>2. ASSUME NEW j \in 1 .. n, j > i + 1 PROVE ~AboutFolders(j)
        <5>1. j - 1 \in 1 .. n - 1 /\ j - 1 > i /\ (j - 1) + 1 = j
          BY <1>3, <4>1, <4>2
        <5>2. AboutFolders(j - 1)' <=> AboutFolders(j)
          BY <2>4, <5>1
        <5> QED  BY <1>3, <3>1, <5>1, <5>2
      <4> QED  BY <1>2, <1>3, <2>1, <4>1, <4>2 DEF ShelfFiled
    <3>2. ASSUME \A i \in 1 .. Len(s6') : ~AboutFolders(i)' PROVE s4'.folder = s1'
      <4>1. ASSUME NEW j \in 1 .. n, j > 1 PROVE ~AboutFolders(j)
        <5>1. j - 1 \in 1 .. n - 1 /\ (j - 1) + 1 = j
          BY <1>3, <4>1
        <5>2. AboutFolders(j - 1)' <=> AboutFolders(j)
          BY <2>4, <5>1
        <5> QED  BY <1>3, <3>2, <5>1, <5>2
      <4>2. CASE AboutFolders(1)
        <5>1. s6[1].folder = s1
          BY <1>3, <1>4, <2>1, <4>1, <4>2 DEF ShelfFiled
        <5> QED  BY <1>2, <1>5, <1>e, <4>2, <5>1 DEF AboutFolders
      <4>3. CASE ~AboutFolders(1)
        <5>1. \A j \in 1 .. n : ~AboutFolders(j)
          <6> SUFFICES ASSUME NEW j \in 1 .. n PROVE ~AboutFolders(j)
            OBVIOUS
          <6>1. j = 1 \/ j > 1
            BY <1>3
          <6> QED  BY <4>1, <4>3, <6>1
        <5>2. s4.folder = s1
          BY <1>3, <2>1, <5>1 DEF ShelfFiled
        <5>3. e.k = "memo"
          BY <1>4, <1>e, <4>3, ShelfMsgIs DEF AboutFolders
        <5> QED  BY <1>2, <1>5, <5>2, <5>3
      <4> QED  BY <4>2, <4>3
    <3> QED  BY <3>1, <3>2 DEF ShelfFiled
  <2> QED  BY <2>2, <2>3, <2>5 DEF ShelfRight
<1>13. s8' = "done" => s7' = {}
  BY <1>2 DEF ShelfInv
<1> QED  BY <1>6, <1>11, <1>12, <1>13 DEF ShelfInv

LEMMA ShelfKeepsSyncList ==
    ASSUME ShelfInv, B!SyncList
    PROVE  ShelfInv'
<1>1. ShelfTyped /\ s6 \in Seq(ShelfMsgs) /\ \A m \in Memos : s2[m] \in B!Rows /\ s4.memo[m] \in B!Rows
  BY DEF ShelfInv, ShelfTyped
<1>2. PICK t, u : /\ t = [m \in Memos |-> IF m \in B!Visible THEN s4.memo[m] ELSE B!NoRow]
                  /\ u = B!Enforced(t)
  OBVIOUS
<1>3. B!Retained = u
  BY <1>2, Zenon DEF B!Retained
<1>4. /\ s6 = << >> /\ s4' = [folder |-> s1, memo |-> u]
      /\ s7' = {m \in B!Visible : u[m].rev # s2[m].rev}
      /\ s8' = (IF s7' = {} THEN "done" ELSE "ask")
      /\ UNCHANGED <<s1, s2, s3, s5, s6, s9, s10>>
  BY <1>3, Zenon DEF B!SyncList
<1>5. \A m : m \in B!Visible <=> m \in Memos /\ SeenByMember(m)
  BY DEF B!Visible, SeenByMember
<1>6. t \in [Memos -> B!Rows]
  BY <1>1, <1>2, ShelfNoRow
<1>7. /\ u \in [Memos -> B!Rows]
      /\ \A m \in Memos : u[m] = B!NoRow \/ (u[m] = s4.memo[m] /\ SeenByMember(m))
  <2>1. u \in [Memos -> B!Rows] /\ \A m \in Memos : u[m] = t[m] \/ u[m] = B!NoRow
    BY <1>2, <1>6, ShelfEnforced
  <2> QED  BY <1>2, <1>5, <2>1
<1>8. /\ s4' \in [folder : ShelfFoldersAre, memo : [Memos -> B!Rows]] /\ s4'.memo = u /\ s4'.folder = s1
      /\ s7' \subseteq Memos /\ s8' \in {"off", "ask", "done"} /\ s6' \in Seq(ShelfMsgs)
      /\ s6' = << >> /\ Len(s6) = 0 /\ Len(s6') = 0
  BY <1>1, <1>4, <1>5, <1>7 DEF ShelfTyped
<1>9. ShelfTyped' /\ (\A m \in Memos : ShelfRow(m)') /\ ShelfApart'
  <2>1. UNCHANGED <<s1, s2, s3, s5, s9, s10>> /\ Len(s6') <= Len(s6)
    BY <1>4, <1>8
  <2> QED  BY <1>8, <2>1, ShelfHostStays
<1>10. \A m \in Memos : KnownRow(m, s4'.memo[m])
  <2> SUFFICES ASSUME NEW m \in Memos PROVE KnownRow(m, u[m])
    BY <1>8
  <2>1. KnownRow(m, s4.memo[m])
    BY DEF ShelfInv, ShelfKnown
  <2> QED  BY <1>7, <2>1, ShelfNoRow DEF KnownRow
<1>11. ShelfKnown'
  BY <1>4, <1>8, <1>10 DEF ShelfKnown, KnownRow, SameRow
<1>12. ShelfFiled'
  BY <1>4, <1>8 DEF ShelfFiled
<1>13. ShelfRight'
  <2> SUFFICES ASSUME NEW m \in Memos PROVE TrueOrAwaited(m, s4.memo[m])'
    BY <1>8 DEF ShelfRight
  <2> SUFFICES ASSUME u[m].rev > 0 PROVE SeenByMember(m) /\ (m \in s7' \/ SameRow(u[m], s2[m]))
    BY <1>4, <1>8 DEF TrueOrAwaited, SeenByMember, SameRow
  <2>1. SeenByMember(m)
    BY <1>7, ShelfNoRow
  <2>2. KnownRow(m, u[m])
    BY <1>8, <1>10
  <2> QED  BY <1>4, <1>5, <2>1, <2>2 DEF KnownRow
<1>14. s8' = "done" => s7' = {}
  BY <1>4
<1> QED  BY <1>9, <1>11, <1>12, <1>13, <1>14 DEF ShelfInv

LEMMA ShelfKeepsSyncGet ==
    ASSUME ShelfInv, B!SyncGet
    PROVE  ShelfInv'
<1>1. ShelfTyped /\ s6 \in Seq(ShelfMsgs) /\ \A m \in Memos : s2[m] \in B!Rows /\ s4.memo[m] \in B!Rows
  BY DEF ShelfInv, ShelfTyped
<1>2. PICK m : m = B!Latest(s2, s7)
  OBVIOUS
<1>3. /\ s5 /\ s6 = << >> /\ s7 # {} /\ s7' = s7 \ {m}
      /\ s4' = (IF m \in B!Visible THEN [s4 EXCEPT !.memo = B!Upsert(m, s2[m])] ELSE s4)
      /\ s8' = (IF s7' = {} THEN "done" ELSE "ask")
      /\ UNCHANGED <<s1, s2, s3, s5, s6, s9, s10>>
  BY <1>2, Zenon DEF B!SyncGet
<1>4. \A o : o \in B!Visible <=> o \in Memos /\ SeenByMember(o)
  BY DEF B!Visible, SeenByMember
<1>5. /\ s4' \in [folder : ShelfFoldersAre, memo : [Memos -> B!Rows]] /\ s4'.folder = s4.folder
      /\ \A o \in Memos : \/ s4'.memo[o] = B!NoRow
                          \/ s4'.memo[o] = s4.memo[o] /\ (o = m => ~SeenByMember(m))
                          \/ s4'.memo[o] = s2[o] /\ o = m /\ SeenByMember(m)
  <2>1. CASE m \in B!Visible
    <3>1. m \in Memos /\ SeenByMember(m)
      BY <1>4, <2>1
    <3>2. PICK t : t = B!Upsert(m, s2[m])
      OBVIOUS
    <3>3. /\ t \in [Memos -> B!Rows] /\ t[m] \in {s2[m], B!NoRow}
          /\ \A o \in Memos : o # m => t[o] \in {s4.memo[o], B!NoRow}
      BY <1>1, <3>1, <3>2, ShelfUpsert
    <3>4. s4' = [s4 EXCEPT !.memo = t]
      BY <1>3, <2>1, <3>2
    <3>5. s4' \in [folder : ShelfFoldersAre, memo : [Memos -> B!Rows]] /\ s4'.memo = t /\ s4'.folder = s4.folder
      BY <1>1, <3>3, <3>4 DEF ShelfTyped
    <3> QED  BY <3>1, <3>3, <3>5
  <2>2. CASE m \notin B!Visible
    BY <1>1, <1>3, <1>4, <2>2 DEF ShelfTyped
  <2> QED  BY <2>1, <2>2
<1>6. /\ s7' \subseteq Memos /\ s8' \in {"off", "ask", "done"} /\ s6' \in Seq(ShelfMsgs)
      /\ s6' = << >> /\ Len(s6) = 0 /\ Len(s6') = 0
  BY <1>1, <1>3 DEF ShelfTyped
<1>7. ShelfTyped' /\ (\A o \in Memos : ShelfRow(o)') /\ ShelfApart'
  <2>1. UNCHANGED <<s1, s2, s3, s5, s9, s10>> /\ Len(s6') <= Len(s6)
    BY <1>3, <1>6
  <2> QED  BY <1>5, <1>6, <2>1, ShelfHostStays
<1>8. ShelfListed /\ ShelfRight /\ ShelfFiled
  BY <1>3 DEF ShelfInv, ShelfListed
<1>9. \A o \in Memos : KnownRow(o, s4'.memo[o])
  <2> SUFFICES ASSUME NEW o \in Memos PROVE KnownRow(o, s4'.memo[o])
    OBVIOUS
  <2>1. KnownRow(o, s4.memo[o])
    BY DEF ShelfInv, ShelfKnown
  <2>2. KnownRow(o, B!NoRow)
    BY ShelfNoRow DEF KnownRow
  <2>3. CASE s4'.memo[o] = s2[o] /\ SeenByMember(o)
    <3>1. s2[o].rev > 0 => s2[o].stamp > 0
      BY DEF ShelfInv, ShelfRow
    <3>2. s2[o].rev \in Nat
      BY <1>1, ShelfFields
    <3> QED  BY <2>3, <3>1, <3>2 DEF KnownRow, SameRow, SeenByMember
  <2> QED  BY <1>5, <2>1, <2>2, <2>3
<1>10. ShelfKnown'
  BY <1>3, <1>6, <1>9 DEF ShelfKnown, KnownRow, SameRow
<1>11. ShelfFiled'
  BY <1>3, <1>5, <1>6, <1>8 DEF ShelfFiled
<1>12. ShelfRight'
  <2> SUFFICES ASSUME NEW o \in Memos PROVE TrueOrAwaited(o, s4.memo[o])'
    BY <1>6 DEF ShelfRight
  <2> SUFFICES ASSUME s4'.memo[o].rev > 0 PROVE SeenByMember(o) /\ (o \in s7' \/ SameRow(s4'.memo[o], s2[o]))
    BY <1>3 DEF TrueOrAwaited, SeenByMember, SameRow
  <2>1. TrueOrAwaited(o, s4.memo[o])
    BY <1>6, <1>8 DEF ShelfRight
  <2>2. CASE s4'.memo[o] = s4.memo[o] /\ (o = m => ~SeenByMember(m))
    BY <1>3, <2>1, <2>2 DEF TrueOrAwaited
  <2>3. CASE s4'.memo[o] = s2[o] /\ o = m /\ SeenByMember(m)
    BY <2>3 DEF SameRow
  <2> QED  BY <1>5, <2>2, <2>3, ShelfNoRow
<1>13. s8' = "done" => s7' = {}
  BY <1>3
<1> QED  BY <1>7, <1>10, <1>11, <1>12, <1>13 DEF ShelfInv

LEMMA ShelfKeeps ==
    ASSUME ShelfInv, B!Next
    PROVE  ShelfInv'
<1>1. ASSUME NEW f \in Folders,
             \/ B!FolderDelete(f)
             \/ \E n \in Names : B!FolderCreate(f, n) \/ B!FolderRename(f, n)
      PROVE  ShelfInv'
  BY <1>1, ShelfKeepsFolder
<1>2. ASSUME NEW m \in Memos,
             \/ B!Purge(m)
             \/ \E b \in BOOLEAN : B!Move(m, b) \/ B!SetSeen(m, b)
             \/ \E t \in FileTitles, z \in 1 .. MaxSize :
                   \/ B!Update(m, t, z)
                   \/ \E d \in Folders \cup {"none"} : B!Create(m, t, d, z)
      PROVE  ShelfInv'
  BY <1>2, ShelfKeepsPurge, ShelfKeepsMove, ShelfKeepsUpdate, ShelfKeepsCreate
<1>3. ASSUME NEW z \in 1 .. B!Cardinality(Memos), B!SetLimits(z) PROVE ShelfInv'
  BY <1>3, ShelfKeepsLimits
<1> QED  BY <1>1, <1>2, <1>3, ShelfKeepsConnect, ShelfKeepsApply, ShelfKeepsSyncList, ShelfKeepsSyncGet
         DEF B!Next, B!None

\* There is at least one memo to make.
LEMMA ShelfMemosCount == B!Cardinality(Memos) = Cardinality(Memos) /\ Cardinality(Memos) \in Nat \ {0}
<1>1. B!Cardinality(Memos) = Cardinality(Memos)
  BY Zenon DEF B!Cardinality, Cardinality
<1>2. IsFiniteSet(Memos) /\ Memos # {}
  BY SharedAssumption
<1>3. Cardinality(Memos) \in Nat
  BY <1>2, FS_CardinalityType
<1>4. Cardinality(Memos) # 0
  BY <1>2, FS_EmptySet
<1> QED  BY <1>1, <1>3, <1>4

LEMMA ShelfStarts == ASSUME B!Init PROVE ShelfInv
<1>1. /\ s1 = [f \in Folders |-> "none"] /\ s2 = [m \in Memos |-> B!NoRow] /\ s3 = B!Cardinality(Memos)
      /\ s4 = [folder |-> s1, memo |-> s2] /\ s5 = FALSE /\ s6 = << >> /\ s7 = {} /\ s8 = "off"
      /\ s9 = FALSE /\ s10 = [change |-> 0, connect |-> 0]
  BY DEF B!Init, B!NoFolders, B!NoMemos, B!None
<1>2. /\ s1 \in ShelfFoldersAre /\ s2 \in [Memos -> B!Rows] /\ \A m \in Memos : s2[m] = B!NoRow
      /\ s4.folder = s1 /\ s4.memo = s2
  BY <1>1, ShelfNoRow DEF ShelfFoldersAre
<1>3. s3 \in 1 .. B!Cardinality(Memos)
  BY <1>1, ShelfMemosCount
<1>4. s6 \in Seq(ShelfMsgs) /\ Len(s6) = 0
  BY <1>1
<1>5. s10 \in [change : 0 .. MaxShelf, connect : 0 .. MaxConnect] /\ s10.change = 0
  BY <1>1, ShelfNat
<1>6. ShelfTyped
  <2>1. s4 \in [folder : ShelfFoldersAre, memo : [Memos -> B!Rows]]
    BY <1>1, <1>2
  <2>2. s5 \in BOOLEAN /\ s9 \in BOOLEAN /\ s7 \subseteq Memos /\ s8 \in {"off", "ask", "done"}
    BY <1>1
  <2>3. Len(s6) <= s10.change
    BY <1>4, <1>5
  <2> QED  BY <1>2, <1>3, <1>4, <1>5, <2>1, <2>2, <2>3 DEF ShelfTyped
<1>7. \A m \in Memos : ShelfRow(m)
  BY <1>2, <1>5, ShelfNoRow DEF ShelfRow
<1>8. ShelfApart /\ ShelfKnown /\ ~ShelfListed
  BY <1>1, <1>2, <1>4, ShelfNoRow DEF ShelfApart, ShelfKnown, KnownRow, ShelfListed
<1> QED  BY <1>1, <1>6, <1>7, <1>8 DEF ShelfInv

\* Of memos updated at different times one is the last.
LEMMA ShelfLatest ==
    ASSUME ShelfTyped, ShelfApart, NEW t \in [Memos -> B!Rows], NEW Z \in SUBSET Memos, Z # {}
    PROVE  B!Latest(t, Z) \in Z /\ \A o \in Z : t[o].stamp <= t[B!Latest(t, Z)].stamp
<1>1. \A o \in Memos : t[o].stamp \in 0 .. MaxShelf /\ MaxShelf - t[o].stamp \in Nat
  <2> SUFFICES ASSUME NEW o \in Memos PROVE t[o].stamp \in 0 .. MaxShelf /\ MaxShelf - t[o].stamp \in Nat
    OBVIOUS
  <2>1. t[o].stamp \in 0 .. MaxShelf
    BY ShelfFields
  <2> QED  BY <2>1, ShelfNat
<1>2. PICK W \in SUBSET Nat : W = {MaxShelf - t[o].stamp : o \in Z}
  BY <1>1
<1>3. PICK x \in W : \A y \in W : x <= y
  <2>1. W # {}
    BY <1>2
  <2> QED  BY <2>1, LeastNatural
<1>4. PICK m \in Z : MaxShelf - t[m].stamp = x
  BY <1>2
<1>5. \A o \in Z : t[o].stamp <= t[m].stamp
  <2> SUFFICES ASSUME NEW o \in Z PROVE t[o].stamp <= t[m].stamp
    OBVIOUS
  <2>1. MaxShelf - t[m].stamp <= MaxShelf - t[o].stamp
    BY <1>2, <1>3, <1>4
  <2> QED  BY <1>1, <2>1, ShelfNat
<1>6. \E p \in Z : \A o \in Z : t[o].stamp <= t[p].stamp
  BY <1>5
<1> QED  BY <1>6 DEF B!Latest

LEMMA ShelfGives ==
    ASSUME ShelfInv
    PROVE  B!TypeOK /\ B!ShownTrue /\ B!LinksAgree /\ B!FiledRight
<1>1. ShelfTyped /\ \A m \in Memos : s2[m] \in B!Rows /\ s4.memo[m] \in B!Rows
  BY DEF ShelfInv, ShelfTyped
<1>2. B!TypeOK
  <2>1. Len(s6) \in Nat /\ s10.change \in 0 .. MaxShelf /\ Len(s6) <= s10.change
    BY <1>1, LenProperties DEF ShelfTyped
  <2>2. Len(s6) <= MaxShelf
    BY <2>1, ShelfNat
  <2> QED  BY <1>1, <2>2 DEF ShelfTyped, ShelfFoldersAre, B!TypeOK, B!None
<1>3. \A m : m \in B!Visible <=> m \in Memos /\ SeenByMember(m)
  BY DEF B!Visible, SeenByMember
<1>4. ASSUME B!Synced
      PROVE  /\ s4.folder = s1
             /\ \A m \in B!Rowed(s4.memo) : m \in B!Visible /\ SameRow(s4.memo[m], s2[m])
  <2>1. ShelfListed /\ s7 = {} /\ s6 = << >> /\ Len(s6) = 0
    BY <1>4 DEF B!Synced, ShelfListed, ShelfInv
  <2>2. \A m \in Memos : TrueOrAwaited(m, s4.memo[m])
    BY <2>1 DEF ShelfInv, ShelfRight
  <2>3. s4.folder = s1
    BY <2>1 DEF ShelfInv, ShelfFiled
  <2>4. \A m \in B!Rowed(s4.memo) : m \in Memos /\ s4.memo[m].rev > 0
    BY <1>1 DEF B!Rowed, ShelfTyped
  <2> QED  BY <1>3, <2>1, <2>2, <2>3, <2>4 DEF TrueOrAwaited
<1>5. B!ShownTrue
  <2> SUFFICES ASSUME B!Synced
               PROVE  /\ s4.folder = s1
                      /\ \A m \in B!Rowed(s4.memo) :
                           m \in B!Visible /\ B!Content(s4.memo[m]) = B!Content(s2[m])
    BY DEF B!ShownTrue
  <2>1. ASSUME NEW m \in B!Rowed(s4.memo) PROVE B!Content(s4.memo[m]) = B!Content(s2[m])
    <3>1. m \in Memos /\ s4.memo[m].rev > 0 /\ SeenByMember(m) /\ SameRow(s4.memo[m], s2[m])
      BY <1>1, <1>3, <1>4 DEF B!Rowed, ShelfTyped
    <3>2. KnownRow(m, s4.memo[m])
      BY <3>1 DEF ShelfInv, ShelfKnown
    <3>3. /\ s4.memo[m].live \in BOOLEAN /\ s4.memo[m].seen \in BOOLEAN
          /\ s2[m].live \in BOOLEAN /\ s2[m].seen \in BOOLEAN
      BY <1>1, <3>1, ShelfFields
    <3>4. s4.memo[m].live = s2[m].live /\ s4.memo[m].seen = s2[m].seen
      BY <3>1, <3>2, <3>3 DEF KnownRow, SeenByMember
    <3> QED  BY <1>1, <3>1, <3>4, ShelfSame
  <2> QED  BY <1>4, <2>1
<1>6. B!LinksAgree
  <2> SUFFICES ASSUME B!Synced, B!Visible = B!Rowed(s4.memo), NEW t \in FileTitles
               PROVE  B!HostAnswer(t) \subseteq B!CacheAnswer(t)
    BY DEF B!LinksAgree
  <2>1. PICK Z : Z = {m \in Memos : s2[m].live /\ s2[m].title = t}
    OBVIOUS
  <2>2. PICK W : W = {m \in B!Rowed(s4.memo) : s4.memo[m].title = t}
    OBVIOUS
  <2>3. B!HostAnswer(t) = IF Z # {} /\ B!Latest(s2, Z) \in B!Visible THEN {B!Latest(s2, Z)} ELSE {}
    BY <2>1, Zenon DEF B!HostAnswer
  <2>4. B!CacheAnswer(t) = IF W = {} THEN {} ELSE {B!Latest(s4.memo, W)}
    BY <2>2, Zenon DEF B!CacheAnswer
  <2> SUFFICES ASSUME Z # {}, B!Latest(s2, Z) \in B!Visible
               PROVE  W # {} /\ B!Latest(s4.memo, W) = B!Latest(s2, Z)
    BY <2>3, <2>4
  <2>5. PICK m, o : m = B!Latest(s2, Z) /\ o = B!Latest(s4.memo, W)
    OBVIOUS
  <2>6. \A p \in B!Rowed(s4.memo) : p \in Memos /\ SeenByMember(p) /\ SameRow(s4.memo[p], s2[p])
    BY <1>3, <1>4
  <2>7. W \subseteq Z /\ Z \in SUBSET Memos /\ W \in SUBSET Memos
    BY <2>1, <2>2, <2>6 DEF SeenByMember, SameRow
  <2>8. m \in Z /\ \A p \in Z : s2[p].stamp <= s2[m].stamp
    BY <1>1, <2>5, <2>7, ShelfLatest DEF ShelfInv, ShelfTyped
  <2>9. m \in W
    BY <2>1, <2>2, <2>5, <2>6, <2>8 DEF SameRow
  <2>10. o \in W /\ \A p \in W : s4.memo[p].stamp <= s4.memo[o].stamp
    <3>1. s4.memo \in [Memos -> B!Rows] /\ W # {}
      BY <1>1, <2>9 DEF ShelfTyped
    <3> QED  BY <1>1, <2>5, <2>7, <3>1, ShelfLatest DEF ShelfInv
  <2>11. s4.memo[m].stamp = s2[m].stamp /\ s4.memo[o].stamp = s2[o].stamp
    BY <2>2, <2>6, <2>9, <2>10 DEF SameRow
  <2>12. /\ s2[m].stamp \in Nat /\ s2[o].stamp \in Nat /\ s2[m].rev \in Nat /\ s2[o].rev \in Nat
         /\ m \in Memos /\ o \in Memos
    BY <1>1, <2>7, <2>9, <2>10, ShelfFields
  <2>13. s2[m].stamp = s2[o].stamp
    BY <2>7, <2>8, <2>9, <2>10, <2>11, <2>12
  <2>14. s2[m].rev > 0 /\ s2[o].rev > 0
    BY <2>1, <2>7, <2>9, <2>10, <2>12 DEF ShelfInv, ShelfRow
  <2>15. m = o
    BY <2>12, <2>13, <2>14 DEF ShelfInv, ShelfApart
  <2> QED  BY <2>5, <2>9, <2>15
<1>7. B!FiledRight
  BY DEF B!FiledRight, B!None, ShelfInv, ShelfRow
<1> QED  BY <1>2, <1>5, <1>6, <1>7
=============================================================================
