---------------------------- MODULE ControlSession ----------------------------
(***************************************************************************)
(* The control channel between the host and one member's address: the      *)
(* supervisor's tick that loads host.toml and publishes a distribution     *)
(* some awaits later, the tasks of each accepted connection, the registry  *)
(* of connections, and the member's reconnecting client.                   *)
(*                                                                         *)
(* A distribution is abstracted to what it says of this member and a       *)
(* revision of the rest of the file; the ages of the endpoints change it   *)
(* from minute to minute although nobody edits anything.                   *)
(***************************************************************************)
EXTENDS Naturals, Sequences, FiniteSets

CONSTANTS MaxConns,   \* connections the member opens
          MaxRev,     \* edits of host.toml that do not concern this member
          MaxWire     \* ledgers under way on one connection

SessionAssumption == MaxConns \in Nat /\ MaxRev \in Nat \ {0} /\ MaxWire \in Nat \ {0}

Conns == 1 .. MaxConns
Statuses == {"pending", "awaiting", "joined", "gone"}
NoLedger == [rev |-> 0, st |-> "gone"]

VARIABLES
    file,     \* [st, rev]: host.toml
    needs,    \* the invite of this member asks for approval
    tick,     \* what the tick under way loaded, or <<>>
    dist,     \* [st, rev]: the distribution published last
    noticed,  \* the removal of the member was noticed by a tick
    cut,      \* the member's peer is off the device
    conn,     \* conn[n]: the host's side of connection n
    reg,      \* the connection in the registry, 0 for none
    rtt,      \* the round-trip table calls the member connected
    down,     \* down[n]: what the host wrote and the member did not read
    link,     \* the connection the member is in, 0 for none
    opened,   \* how many connections the member opened
    ledger,   \* the ledger the member holds
    ended     \* why the member no longer reconnects, or "no"

sessVars == <<file, needs, tick, dist, noticed, cut, conn, reg, rtt, down, link, opened,
          ledger, ended>>
hostFile == <<file, needs, tick, dist, noticed, cut>>
member == <<link, opened, ledger, ended>>

NoConn == [at |-> "none", iso |-> FALSE, fresh |-> FALSE, out |-> FALSE, close |-> FALSE]

Init == /\ file = [st |-> "pending", rev |-> 1] /\ needs \in BOOLEAN
        /\ tick = << >> /\ dist = NoLedger
        /\ noticed = FALSE /\ cut = FALSE
        /\ conn = [n \in Conns |-> NoConn] /\ reg = 0 /\ rtt = FALSE
        /\ down = [n \in Conns |-> << >>]
        /\ link = 0 /\ opened = 0 /\ ledger = NoLedger /\ ended = "no"

(* The file: approval, removal and the edits of everything else.           *)
Approve == /\ file.st = "awaiting" /\ file' = [file EXCEPT !.st = "joined"]
           /\ UNCHANGED <<needs, tick, dist, noticed, cut, conn, reg, rtt, down, member>>
Remove == /\ file.st # "gone" /\ file' = [file EXCEPT !.st = "gone"]
          /\ UNCHANGED <<needs, tick, dist, noticed, cut, conn, reg, rtt, down, member>>
EditOther == /\ file.rev < MaxRev /\ file' = [file EXCEPT !.rev = @ + 1]
             /\ UNCHANGED <<needs, tick, dist, noticed, cut, conn, reg, rtt, down, member>>

\* The tick loads the file; sync_peers tells the connected member of its removal in
\* one tick and takes the peer off the device in a later one.
Load == /\ tick = << >> /\ tick' = <<file>>
        /\ noticed' = (file.st = "gone")
        /\ cut' = (cut \/ (noticed /\ file.st = "gone"))
        /\ conn' = [n \in Conns |->
              IF ~noticed /\ file.st = "gone" /\ reg = n
              THEN [conn[n] EXCEPT !.out = TRUE] ELSE conn[n]]
        /\ UNCHANGED <<file, needs, dist, reg, rtt, down, member>>

\* Names are resolved between the two steps; send_if_modified wakes the writers.
\* (A receiver that has not begun yet will see whatever is published then.)
Publish(aged) ==
    /\ tick # << >> /\ tick' = << >> /\ dist' = tick[1]
    /\ conn' = [n \in Conns |->
          IF (aged \/ dist' # dist) /\ conn[n].at = "run"
          THEN [conn[n] EXCEPT !.fresh = TRUE] ELSE conn[n]]
    /\ UNCHANGED <<file, needs, noticed, cut, reg, rtt, down, member>>

(* The member's client: connect, say Hello, and read until the end.        *)
Connect == /\ link = 0 /\ ended = "no" /\ ~cut /\ opened < MaxConns
           /\ opened' = opened + 1 /\ link' = opened + 1
           /\ conn' = [conn EXCEPT ![opened + 1].at = "hello"]
           /\ UNCHANGED <<hostFile, reg, rtt, down, ledger, ended>>

\* The member's side breaks off: a restart, another network, a suspended machine.
MemberDrop == /\ link # 0 /\ link' = 0
              /\ down' = [down EXCEPT ![link] = << >>]
              /\ UNCHANGED <<hostFile, conn, reg, rtt, opened, ledger, ended>>

MemberRead ==
    /\ link # 0 /\ down[link] # << >>
    /\ down' = [down EXCEPT ![link] = Tail(@)]
    /\ LET m == Head(down[link]) IN
         \/ /\ m.k = "ledger" /\ ledger' = [rev |-> m.rev, st |-> m.st]
            /\ UNCHANGED <<link, ended>>
         \/ /\ m.k \in {"removed", "rejected"} /\ ledger' = NoLedger
            /\ ended' = m.k /\ link' = 0
    /\ UNCHANGED <<hostFile, conn, reg, rtt, opened>>

\* The host closed its end and everything it wrote was read.
MemberEof == /\ link # 0 /\ down[link] = << >>
             /\ conn[link].at \in {"drain", "done", "rtt", "end"}
             /\ link' = 0
             /\ UNCHANGED <<hostFile, conn, reg, rtt, down, opened, ledger, ended>>

(* One connection on the host.                                             *)
Isolated == needs /\ file.st \in {"pending", "awaiting"}
Step(n, from, to) == conn[n].at = from /\ conn' = [conn EXCEPT ![n] = [NoConn EXCEPT !.at = to]]
Send(n, m) == down' = [down EXCEPT ![n] = IF link = n THEN Append(@, m) ELSE @]
LedgerOf(d) == [k |-> "ledger", rev |-> d.rev, st |-> d.st]
Word(k) == [k |-> k, rev |-> 0, st |-> "gone"]

\* Hello is answered by the file: the invite is used up, or the member turned away.
AcceptInvite(n) ==
    /\ conn[n].at = "hello"
    /\ IF file.st = "gone"
       THEN /\ conn' = [conn EXCEPT ![n].at = "end"]
            /\ Send(n, Word("rejected")) /\ UNCHANGED file
       ELSE /\ conn' = [conn EXCEPT ![n].at = "accepted", ![n].iso = Isolated]
            /\ file' = [file EXCEPT !.st = IF @ # "pending" THEN @
                                           ELSE IF needs THEN "awaiting" ELSE "joined"]
            /\ UNCHANGED down
    /\ UNCHANGED <<needs, tick, dist, noticed, cut, reg, rtt, member>>

Register(n) ==
    /\ conn[n].at = "accepted" /\ reg' = n
    /\ conn' = [m \in Conns |-> IF m = n THEN [conn[n] EXCEPT !.at = "registered"]
                                ELSE IF m = reg THEN [conn[m] EXCEPT !.close = TRUE]
                                ELSE conn[m]]
    /\ UNCHANGED <<hostFile, rtt, down, member>>

\* The distribution of this moment counts as seen and, unless isolated, is sent.
Begin(n) ==
    /\ conn[n].at = "registered" /\ rtt' = TRUE
    /\ conn' = [conn EXCEPT ![n].at = "run", ![n].fresh = FALSE]
    /\ IF conn[n].iso THEN UNCHANGED down ELSE Send(n, LedgerOf(dist))
    /\ UNCHANGED <<hostFile, reg, member>>

\* Mutants: the writer only ever ends, or only ever begins, an isolation.
WriterLedger_OnlyClears(n) ==
    /\ conn[n].at = "run" /\ conn[n].fresh /\ Len(down[n]) < MaxWire
    /\ LET iso == conn[n].iso /\ dist.st = "awaiting" IN
         /\ conn' = [conn EXCEPT ![n].fresh = FALSE, ![n].iso = iso]
         /\ IF iso THEN UNCHANGED down ELSE Send(n, LedgerOf(dist))
    /\ UNCHANGED <<hostFile, reg, rtt, member>>

WriterLedger_OnlySets(n) ==
    /\ conn[n].at = "run" /\ conn[n].fresh /\ Len(down[n]) < MaxWire
    /\ LET iso == conn[n].iso \/ dist.st = "awaiting" IN
         /\ conn' = [conn EXCEPT ![n].fresh = FALSE, ![n].iso = iso]
         /\ IF iso THEN UNCHANGED down ELSE Send(n, LedgerOf(dist))
    /\ UNCHANGED <<hostFile, reg, rtt, member>>

\* A change wakes the writer: the new distribution decides whether it is isolated.
WriterLedger(n) ==
    /\ conn[n].at = "run" /\ conn[n].fresh /\ Len(down[n]) < MaxWire
    /\ LET iso == dist.st = "awaiting" IN
         /\ conn' = [conn EXCEPT ![n].fresh = FALSE, ![n].iso = iso]
         /\ IF iso THEN UNCHANGED down ELSE Send(n, LedgerOf(dist))
    /\ UNCHANGED <<hostFile, reg, rtt, member>>

\* The removal notice is the last thing written; the reader drains for a moment.
WriterRemoved(n) ==
    /\ conn[n].at = "run" /\ conn[n].out
    /\ conn' = [conn EXCEPT ![n] = [NoConn EXCEPT !.at = "drain"]]
    /\ Send(n, Word("removed"))
    /\ UNCHANGED <<hostFile, reg, rtt, member>>

\* Every ten seconds a ping; the table counts it, and takes the member as connected.
Ping(n) == /\ conn[n].at = "run" /\ ~rtt /\ rtt' = TRUE
           /\ UNCHANGED <<hostFile, conn, reg, down, member>>

Close(n) == /\ conn[n].close /\ Step(n, "run", "done")
            /\ UNCHANGED <<hostFile, reg, rtt, down, member>>
DrainEnd(n) == /\ Step(n, "drain", "done")
               /\ UNCHANGED <<hostFile, reg, rtt, down, member>>
\* End of file, a reset, or a write that fails.
TaskEnd(n) == /\ link # n /\ \/ Step(n, "run", "done")
                             \/ Step(n, "hello", "end")
              /\ UNCHANGED <<hostFile, reg, rtt, down, member>>

Unregister_Any(n) ==
    /\ Step(n, "done", "rtt") /\ reg' = 0
    /\ UNCHANGED <<hostFile, rtt, down, member>>

\* Only the connection that still is the registered one tidies up after itself ...
Unregister(n) ==
    /\ IF reg = n THEN Step(n, "done", "rtt") /\ reg' = 0
                  ELSE Step(n, "done", "end") /\ UNCHANGED reg
    /\ UNCHANGED <<hostFile, rtt, down, member>>

\* ... and says so to the round-trip table and the memo locks outside the registry.
Disconnected(n) ==
    /\ Step(n, "rtt", "end") /\ rtt' = FALSE
    /\ UNCHANGED <<hostFile, reg, down, member>>

HostConn(n) == \/ AcceptInvite(n) \/ Register(n) \/ Begin(n) \/ WriterLedger(n)
               \/ WriterRemoved(n) \/ Ping(n) \/ Close(n) \/ DrainEnd(n) \/ TaskEnd(n)
               \/ Unregister(n) \/ Disconnected(n)

Next == \/ Approve \/ Remove \/ EditOther \/ Load
        \/ \E aged \in BOOLEAN : Publish(aged)
        \/ Connect \/ MemberDrop \/ MemberRead \/ MemberEof
        \/ \E n \in Conns : HostConn(n)

Spec == Init /\ [][Next]_sessVars

(* The tick is an interval timer and its distribution changes as ages do;  *)
(* tasks run; the client reconnects.  No edit and no failure is obliged.   *)
Fairness == /\ WF_sessVars(Load) /\ SF_sessVars(Publish(TRUE))
            /\ WF_sessVars(Connect) /\ WF_sessVars(MemberRead) /\ WF_sessVars(MemberEof)
            /\ \A n \in Conns : /\ SF_sessVars(WriterLedger(n))
                                /\ WF_sessVars(HostConn(n))

FairSpec == Spec /\ Fairness

TypeOK ==
    /\ file \in [st : Statuses, rev : 1 .. MaxRev] /\ needs \in BOOLEAN
    /\ tick = << >> \/ tick[1] \in [st : Statuses, rev : 1 .. MaxRev]
    /\ dist \in [st : Statuses, rev : 0 .. MaxRev]
    /\ noticed \in BOOLEAN /\ cut \in BOOLEAN /\ rtt \in BOOLEAN
    /\ conn \in [Conns -> [at : {"none", "hello", "accepted", "registered", "run",
                                 "drain", "done", "rtt", "end"},
                           iso : BOOLEAN, fresh : BOOLEAN, out : BOOLEAN,
                           close : BOOLEAN]]
    /\ reg \in 0 .. MaxConns /\ link \in 0 .. MaxConns /\ opened \in 0 .. MaxConns
    /\ \A n \in Conns : Len(down[n]) <= MaxWire + 1
    /\ ledger \in [rev : 0 .. MaxRev, st : Statuses]
    /\ ended \in {"no", "removed", "rejected"}

(* A connection that is served and was not told to close is the one the    *)
(* registry has, however late an older connection of the same member ends: *)
(* notices and memo events are sent through the registry.                  *)
RegistryTrue ==
    \A n \in Conns : conn[n].at = "run" /\ ~conn[n].close => reg = n

(* A session opened too early by a distribution that was loaded before the *)
(* member's Hello is isolated again by the next one: whoever waits for     *)
(* approval is isolated once the published distribution says so and the    *)
(* session's writer has seen it.                                           *)
WindowCloses ==
    \A n \in Conns :
        /\ conn[n].at = "run" /\ ~conn[n].fresh
        /\ dist.st = "awaiting" /\ file.st = "awaiting"
        => conn[n].iso

(* "The control plane is isolated: no ledger is sent to a member that      *)
(* waits for approval" (the decision record on invites).                   *)
NoLedgerBeforeApproval ==
    needs /\ file.st \in {"pending", "awaiting"} =>
        /\ ledger = NoLedger
        /\ \A n \in Conns : \A i \in DOMAIN down[n] : down[n][i].k # "ledger"

(* A member that stays connected gets the revision of the file, also when  *)
(* it was approved between the check of its Hello and the first look at    *)
(* the distribution: a distribution that changes only in age repairs it.   *)
LedgerArrives ==
    \A r \in 1 .. MaxRev :
        (file.st = "joined" /\ file.rev = r /\ link # 0) ~>
            (ledger.rev >= r \/ file.st = "gone" \/ link = 0)
===============================================================================
