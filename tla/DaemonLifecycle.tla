--------------------------- MODULE DaemonLifecycle ---------------------------
(***************************************************************************)
(* The tunnels of one daemon: the table of active tunnels and its lock,    *)
(* starting (which holds the lock over the whole bring_up), the task that  *)
(* supervises a tunnel and restarts it in place, stopping (which takes the *)
(* tunnel out of the table and lets its task tear it down), the recovery   *)
(* of an autostart entry, and the end of the daemon.  An entry is written  *)
(* with the insertion; that two such writes can meet is left out.          *)
(*                                                                         *)
(* A device is a network interface of the kernel: made by name, which      *)
(* fails if the name exists, and removed by name, whoever made it (Linux). *)
(* An interface outlives the process; Left is one an earlier process made. *)
(***************************************************************************)
EXTENDS Naturals, FiniteSets, FiniteSetsExt

CONSTANTS Nets,       \* configurations: networks of this device
          Clash,      \* pairs of networks whose subnets overlap
          Fixed,      \* networks with an interface name of their own, FixedName
          FixedName,
          IfNames,    \* 1 .. the number of interface names
          MaxTunnels, \* tunnels ever brought up
          MaxFaults,  \* failures, restarts in place and timeouts together
          MaxEnds     \* ends of the daemon

Tunnels == 1 .. MaxTunnels
None == 0
Left == MaxTunnels + 1
Starters == {"ui", "auto"}
Attempts == 3

LifecycleAssumption == /\ IfNames \subseteq Nat \ {None} /\ FixedName \in IfNames
                       /\ MaxTunnels \in Nat /\ MaxFaults \in Nat /\ MaxEnds \in Nat

VARIABLES
    serving,  \* "serve", "closing", "drained", "ended"
    active,   \* active[n]: the tunnel listed for network n, or None
    lock,     \* who holds the table over a bring_up, or "free"
    job,      \* job[p]: what starter p is at
    tun,      \* tun[i]: network, interface name, state and stop flag of a tunnel's task
    next,     \* the next tunnel
    dev,      \* dev[x]: the tunnel that made interface x, None or Left
    router,   \* tunnels with a port open on the router
    book,     \* autostart.json: networks that were connected
    raced,    \* history: a tunnel was brought up beside one of the same interface
    rough,    \* history: the daemon ended beside a start or a stop, by a timeout or a crash
    count     \* [fault, ends]

dlVars == <<serving, active, lock, job, tun, next, dev, router, book,
            raced, rough, count>>

NoJob == [at |-> "idle", net |-> None, name |-> None, made |-> None, tries |-> 0]
NoTunnel == [net |-> None, name |-> None, at |-> "none", stop |-> "no"]
Finished == [NoTunnel EXCEPT !.at = "end"]
Alive == {i \in Tunnels : tun[i].at \notin {"none", "end"}}
Listed == {n \in Nets : active[n] # None}

\* The recovery of one of the entries the daemon finds when it begins to serve.
Recovery(b) == IF b = {} THEN {NoJob}
               ELSE {[NoJob EXCEPT !.at = "check", !.net = n] : n \in b}

Init ==
    /\ serving = "serve" /\ active = [n \in Nets |-> None] /\ lock = "free"
    /\ book \in {{}} \cup {{n} : n \in Nets}
    /\ \E r \in Recovery(book) : job = [p \in Starters |-> IF p = "auto" THEN r ELSE NoJob]
    /\ tun = [i \in Tunnels |-> NoTunnel] /\ next = 1
    /\ dev = [x \in IfNames |-> None] /\ router = {}
    /\ raced = FALSE /\ rough = FALSE
    /\ count = [fault |-> 0, ends |-> 0]

Fault == count.fault < MaxFaults /\ count' = [count EXCEPT !.fault = @ + 1]
At(p, at) == job' = [job EXCEPT ![p].at = at]

\* A start that fails: the recovery tries three times, the interface once.
Failed(p) ==
    LET j == job[p] IN
    job' = [job EXCEPT ![p] =
              IF p = "auto" /\ j.tries + 1 < Attempts
              THEN [j EXCEPT !.at = "check", !.name = None, !.tries = j.tries + 1]
              ELSE NoJob]

\* A request of the interface to connect.
Ask(n) ==
    /\ serving = "serve" /\ job["ui"].at = "idle"
    /\ job' = [job EXCEPT !["ui"] = [NoJob EXCEPT !.at = "wait", !.net = n]]
    /\ UNCHANGED <<serving, active, lock, tun, next, dev, router, book, raced, rough,
                   count>>

\* recover_one_autostart: nothing to do if somebody connected first.
Check ==
    /\ job["auto"].at = "check" /\ lock = "free"
    /\ IF active[job["auto"].net] # None THEN job' = [job EXCEPT !["auto"] = NoJob]
                                         ELSE At("auto", "wait")
    /\ UNCHANGED <<serving, active, lock, tun, next, dev, router, book, raced, rough,
                   count>>

\* plan_interface: no overlap with a listed network, a name no listed tunnel has.
Used == {tun[active[n]].name : n \in Listed}
Overlaps(n) == \E m \in Listed : {n, m} \in Clash
NameFor(n) == IF n \in Fixed THEN FixedName ELSE Min(IfNames \ Used)
Planned(n) == /\ active[n] = None /\ ~Overlaps(n)
              /\ n \in Fixed => FixedName \notin Used
              /\ IfNames \ Used # {}

Enter_Unlocked(p) ==
    /\ job[p].at = "wait" /\ lock = "free" /\ UNCHANGED lock
    /\ IF Planned(job[p].net)
       THEN job' = [job EXCEPT ![p].at = "up", ![p].name = NameFor(job[p].net)]
       ELSE Failed(p)
    /\ UNCHANGED <<serving, active, tun, next, dev, router, book, raced, rough, count>>

\* start: the lock is held from the checks to the insertion.
Enter(p) ==
    /\ job[p].at = "wait" /\ lock = "free"
    /\ IF Planned(job[p].net)
       THEN /\ lock' = p
            /\ job' = [job EXCEPT ![p].at = "up", ![p].name = NameFor(job[p].net)]
       ELSE Failed(p) /\ UNCHANGED lock
    /\ UNCHANGED <<serving, active, tun, next, dev, router, book, raced, rough, count>>

\* bring_up: the port of the router first, then the interface.
BringUp(p) ==
    LET x == job[p].name IN
    /\ job[p].at = "up" /\ dev[x] = None /\ next <= MaxTunnels
    /\ dev' = [dev EXCEPT ![x] = next] /\ next' = next + 1
    /\ router' = router \cup {next}
    /\ tun' = [tun EXCEPT ![next] = [net |-> job[p].net, name |-> x, at |-> "run",
                                     stop |-> "no"]]
    /\ job' = [job EXCEPT ![p].at = "insert", ![p].made = next]
    /\ raced' = (raced \/ \E i \in Alive : tun[i].name = x)
    /\ UNCHANGED <<serving, active, lock, book, rough, count>>

\* The interface exists or cannot be set up, or the isolation fails: nothing is left
\* of it, but the port of the router stays open.
BringUpFails(p) ==
    /\ job[p].at = "up" /\ next <= MaxTunnels
    /\ IF dev[job[p].name] # None THEN UNCHANGED count ELSE Fault
    /\ router' = router \cup {next} /\ next' = next + 1
    /\ tun' = [tun EXCEPT ![next] = Finished]
    /\ Failed(p) /\ lock' = "free"
    /\ UNCHANGED <<serving, active, dev, book, raced, rough>>

Insert(p) ==
    /\ job[p].at = "insert"
    /\ active' = [active EXCEPT ![job[p].net] = job[p].made]
    /\ lock' = "free" /\ job' = [job EXCEPT ![p] = NoJob]
    /\ book' = book \cup {job[p].net}
    /\ UNCHANGED <<serving, tun, next, dev, router, raced, rough, count>>

\* stop: out of the table at once; the rest is the task's.
Stop(n) ==
    /\ serving = "serve" /\ lock = "free" /\ active[n] # None
    /\ tun' = [tun EXCEPT ![active[n]].stop = "asked"]
    /\ active' = [active EXCEPT ![n] = None]
    /\ UNCHANGED <<serving, lock, job, next, dev, router, book, raced, rough, count>>

\* The task of a tunnel: it sees the stop, fails, or is asked to restart in place.
Task(i, at) == tun' = [tun EXCEPT ![i].at = at]

StopSeen(i) ==
    /\ tun[i].at = "run" /\ tun[i].stop # "no" /\ Task(i, "tear")
    /\ UNCHANGED <<serving, active, lock, job, next, dev, router, book, raced, rough,
                   count>>

SuperviseFails_NoCleanup(i) ==
    /\ tun[i].at = "run" /\ Fault /\ Task(i, "end")
    /\ UNCHANGED <<serving, active, lock, job, next, dev, router, book, raced, rough>>

SuperviseFails(i) ==
    /\ tun[i].at = "run" /\ Fault /\ Task(i, "tear")
    /\ UNCHANGED <<serving, active, lock, job, next, dev, router, book, raced, rough>>

RestartDown(i) ==
    /\ tun[i].at = "run" /\ Fault /\ Task(i, "down")
    /\ dev' = [dev EXCEPT ![tun[i].name] = None]
    /\ UNCHANGED <<serving, active, lock, job, next, router, book, raced, rough>>

RestartUp_Ignored(i) ==
    LET x == tun[i].name IN
    /\ tun[i].at = "down"
    /\ \/ /\ dev[x] = None /\ dev' = [dev EXCEPT ![x] = i] /\ UNCHANGED count
       \/ /\ IF dev[x] # None THEN UNCHANGED count ELSE Fault
          /\ UNCHANGED dev
    /\ Task(i, IF tun[i].stop # "no" THEN "tear" ELSE "run")
    /\ UNCHANGED <<serving, active, lock, job, next, router, book, raced, rough>>

\* restart_in_place, second half; a stop that came meanwhile is looked at.
RestartUp(i) ==
    LET x == tun[i].name IN
    /\ tun[i].at = "down"
    /\ \/ /\ dev[x] = None /\ dev' = [dev EXCEPT ![x] = i] /\ UNCHANGED count
          /\ Task(i, IF tun[i].stop # "no" THEN "tear" ELSE "run")
       \/ /\ IF dev[x] # None THEN UNCHANGED count ELSE Fault
          /\ UNCHANGED dev /\ Task(i, "tear")
    /\ UNCHANGED <<serving, active, lock, job, next, router, book, raced, rough>>

TearDown(i) ==
    /\ tun[i].at = "tear" /\ tun' = [tun EXCEPT ![i].at = "end", ![i].stop = "no"]
    /\ dev' = [dev EXCEPT ![tun[i].name] = None] /\ router' = router \ {i}
    /\ UNCHANGED <<serving, active, lock, job, next, book, raced, rough, count>>

\* serve: no more connections are accepted; starts and stops under way go on, and
\* nobody waits for them.
Close ==
    /\ serving = "serve" /\ count.ends < MaxEnds /\ serving' = "closing"
    /\ count' = [count EXCEPT !.ends = @ + 1]
    /\ rough' = \/ rough \/ \E p \in Starters : job[p].at # "idle"
                \/ Alive # {active[n] : n \in Listed}
    /\ UNCHANGED <<active, lock, job, tun, next, dev, router, book, raced>>

StopAll ==
    /\ serving = "closing" /\ lock = "free" /\ serving' = "drained"
    /\ tun' = [i \in Tunnels |-> IF \E n \in Listed : active[n] = i
                                 THEN [tun[i] EXCEPT !.stop = "awaited"] ELSE tun[i]]
    /\ active' = [n \in Nets |-> None]
    /\ UNCHANGED <<lock, job, next, dev, router, book, raced, rough, count>>

\* What the process had in memory is gone; interfaces and open ports are not.
ProcessGone ==
    /\ serving' = "ended" /\ active' = [n \in Nets |-> None] /\ lock' = "free"
    /\ job' = [p \in Starters |-> NoJob]
    /\ tun' = [i \in Tunnels |-> IF i \in Alive THEN Finished ELSE tun[i]]
    /\ dev' = [x \in IfNames |-> IF dev[x] = None THEN None ELSE Left]

End_NoWait ==
    /\ serving = "drained" /\ ProcessGone
    /\ UNCHANGED <<next, router, book, raced, rough, count>>

\* stop_all has seen every tunnel it stopped torn down.
End ==
    /\ serving = "drained" /\ \A i \in Alive : tun[i].stop # "awaited"
    /\ ProcessGone
    /\ UNCHANGED <<next, router, book, raced, rough, count>>

\* The time limits of the end pass, or the process dies.
EndRoughly ==
    /\ serving # "ended" /\ Fault /\ ProcessGone /\ rough' = TRUE
    /\ UNCHANGED <<next, router, book, raced>>

\* The daemon is started again and recovers an entry.
Serve ==
    /\ serving = "ended" /\ serving' = "serve"
    /\ \E r \in Recovery(book) : job' = [job EXCEPT !["auto"] = r]
    /\ UNCHANGED <<active, lock, tun, next, dev, router, book, raced, rough, count>>

Next ==
    \/ \E n \in Nets : Ask(n) \/ Stop(n)
    \/ Check
    \/ \E p \in Starters : Enter(p) \/ BringUp(p) \/ BringUpFails(p) \/ Insert(p)
    \/ \E i \in Tunnels : StopSeen(i) \/ SuperviseFails(i) \/ RestartDown(i) \/ RestartUp(i)
                          \/ TearDown(i)
    \/ Close \/ StopAll \/ End \/ EndRoughly \/ Serve

Spec == Init /\ [][Next]_dlVars

TypeOK ==
    /\ serving \in {"serve", "closing", "drained", "ended"}
    /\ active \in [Nets -> Tunnels \cup {None}] /\ lock \in Starters \cup {"free"}
    /\ job \in [Starters -> [at : {"idle", "check", "wait", "up", "insert"},
                             net : Nets \cup {None}, name : IfNames \cup {None},
                             made : Tunnels \cup {None}, tries : 0 .. Attempts]]
    /\ tun \in [Tunnels -> [net : Nets \cup {None}, name : IfNames \cup {None},
                            at : {"none", "run", "down", "tear", "end"}, stop : {"no", "asked", "awaited"}]]
    /\ dev \in [IfNames -> 0 .. Left] /\ router \subseteq Tunnels
    /\ book \subseteq Nets
    /\ count \in [fault : 0 .. MaxFaults, ends : 0 .. MaxEnds]

(* plan_interface: two tunnels that are listed at one time never have      *)
(* overlapping subnets or one interface name, although they are checked    *)
(* against a table read before a bring_up of several seconds.              *)
TunnelsApart ==
    \A n, m \in Listed : n # m => /\ {n, m} \notin Clash
                                  /\ tun[active[n]].name # tun[active[m]].name

(* The cleanup always runs: whatever ends a supervisor, an interface this  *)
(* daemon made belongs to a task that will still remove it.                *)
DeviceOwned == \A x \in IfNames : dev[x] \in Tunnels => dev[x] \in Alive

(* A tunnel that is supervised has the interface it made, unless it was    *)
(* brought up while another task of that interface was still at work.      *)
DeviceKept == raced \/ \A i \in Tunnels : tun[i].at = "run" => dev[tun[i].name] = i

(* serve: a daemon that ended in its own time, with no start and no stop   *)
(* under way, leaves no interface behind.                                  *)
NothingLeft == (serving = "ended" /\ ~rough) =>
                   \A x \in IfNames : dev[x] = None

(* Claims of the code that do not hold.  stop and start: the interface of  *)
(* a running tunnel is there.                                              *)
AlwaysDevice == \A i \in Tunnels : tun[i].at = "run" => dev[tun[i].name] = i

(* serve: what tunnels are left when the daemon ends are always cleaned up.*)
AlwaysClean == serving = "ended" => (count.fault = 0 => \A x \in IfNames : dev[x] = None)

(* A port that was opened is closed when its tunnel is gone.               *)
PortsClosed == router \subseteq Alive

(* What an earlier process left is cleaned up at the next start.           *)
LeftoverCleaned == \A n \in Listed, x \in IfNames : dev[x] # Left
===============================================================================
