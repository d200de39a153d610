--------------------------- MODULE ServiceHealth ---------------------------
(***************************************************************************)
(* The host's checks of the services behind DNS records (cli/health.rs).   *)
(* Each supervisor cycle may start a batch; its workers take the jobs one  *)
(* by one, and the results of the whole batch replace the last ones.  A    *)
(* stop aborts the batch's task, not the workers it has spawned.           *)
(*                                                                         *)
(* Kind: a record of a member's address, of a device behind a member, of a *)
(* fixed address, or one that is not to be checked.  One member is behind  *)
(* the first two.                                                          *)
(***************************************************************************)
EXTENDS Naturals, FiniteSets

CONSTANTS Records, Kind, MaxConcurrent,
          MaxBatches, MaxChanges      \* bounds

VARIABLES listed,      \* the records in the configuration
          answers,     \* the records whose service answers
          online,      \* the member, in the host's ledger
          due,         \* CHECK_INTERVAL has passed since the last batch
          monitor,     \* HealthMonitor: results, running, force, seen online, batch
          batch,       \* of each batch: its task, queue, checks under way, results
          tunnel,      \* the supervisor: "up", "told" to stop, "down"
          calm,        \* nothing has changed since the batch began
          asked,       \* the check that was asked for is not done: batches then
          changes

healthState == <<listed, answers, online, due, monitor, batch, tunnel, calm, asked, changes>>

Batches == 1..MaxBatches
Begun == {b \in Batches : batch[b].task # "none"}
Latest == Cardinality(Begun)
OfMember == {r \in Records : Kind[r] \in {"member", "device"}}
NoBatch == [task |-> "none", queue |-> {}, doing |-> {}, done |-> [r \in Records |-> "unknown"]]

HealthInit ==
  /\ listed = Records /\ answers = Records /\ online = TRUE /\ due = TRUE
  /\ monitor = [results |-> NoBatch.done, running |-> FALSE, force |-> FALSE, seen |-> TRUE,
                of |-> 0, batch |-> 0]
  /\ batch = [b \in Batches |-> NoBatch] /\ tunnel = "up"
  /\ calm = [b \in Batches |-> TRUE] /\ asked = 0 /\ changes = 0

(* ---- The world and the configuration -------------------------------------------- *)

Change == changes < MaxChanges /\ changes' = changes + 1 /\ calm' = [b \in Batches |-> b > Latest]
World == <<listed, answers, online>>

ServiceFlips(r) == /\ Change /\ answers' = (answers \cup {r}) \ (answers \cap {r})
                   /\ UNCHANGED <<listed, online, due, monitor, batch, tunnel, asked>>
MemberFlips == /\ Change /\ online' = ~online
               /\ UNCHANGED <<listed, answers, due, monitor, batch, tunnel, asked>>
RecordFlips(r) == /\ Change /\ listed' = (listed \cup {r}) \ (listed \cap {r})
                  /\ UNCHANGED <<answers, online, due, monitor, batch, tunnel, asked>>
TimePasses == /\ ~due /\ due' = TRUE
              /\ UNCHANGED <<World, monitor, batch, tunnel, calm, asked, changes>>
(* request_now: the flag stays until a batch starts.  One request at a time*)
(* is followed here.                                                       *)
RequestNow ==
  /\ asked = 0 /\ Latest < MaxBatches /\ asked' = Latest + 1 /\ monitor' = [monitor EXCEPT !.force = TRUE]
  /\ UNCHANGED <<World, due, batch, tunnel, calm, changes>>

(* ---- Batches ------------------------------------------------------------------------ *)

(* build_jobs: what is not to be checked, or is behind an absent member,   *)
(* has its result at once.                                                 *)
Immediate(r) == IF Kind[r] = "closed" THEN "disabled"
                ELSE IF r \in OfMember /\ ~online THEN "offline" ELSE "unknown"
Jobs == {r \in listed : Immediate(r) = "unknown"}

(* A mutant: the next batch does not wait for the last one.                *)
FreeAlways == TRUE
NotRunning == ~monitor.running
(* schedule, once per cycle of the supervisor.                             *)
Schedule ==
  /\ tunnel # "down" /\ Latest < MaxBatches
  /\ IF NotRunning /\ (monitor.force \/ due)
     THEN LET b == Latest + 1 IN
          /\ batch' = [batch EXCEPT ![b] = [task |-> "run", queue |-> Jobs, doing |-> {},
                         done |-> [r \in Records |-> IF r \in listed THEN Immediate(r) ELSE "unknown"]]]
          /\ monitor' = [monitor EXCEPT !.force = FALSE, !.running = TRUE, !.seen = online, !.batch = b]
          /\ due' = FALSE
     ELSE monitor' = [monitor EXCEPT !.seen = online] /\ UNCHANGED <<batch, due>>
  /\ UNCHANGED <<World, tunnel, calm, asked, changes>>

(* A worker takes the next job; whether the service answers is seen now.   *)
TakeJob(b, r) ==
  /\ r \in batch[b].queue /\ Cardinality(batch[b].doing) < MaxConcurrent
  /\ batch' = [batch EXCEPT ![b].queue = @ \ {r}, ![b].doing = @ \cup {<<r, r \in answers>>}]
  /\ UNCHANGED <<World, due, monitor, tunnel, calm, asked, changes>>
(* A failure counts as offline when the address of the target is not one   *)
(* of a member seen online, and a device's never is.                       *)
Gated(r) == r \in OfMember /\ ~(Kind[r] = "member" /\ monitor.seen)
FinishJob(b, j) ==
  /\ j \in batch[b].doing
  /\ batch' = [batch EXCEPT ![b].doing = @ \ {j},
                 ![b].done[j[1]] = IF j[2] THEN "healthy"
                                   ELSE IF Gated(j[1]) THEN "offline" ELSE "unhealthy"]
  /\ UNCHANGED <<World, due, monitor, tunnel, calm, asked, changes>>
(* The task has waited for its workers.                                    *)
Complete(b) ==
  /\ batch[b].task = "run" /\ batch[b].queue = {} /\ batch[b].doing = {}
  /\ batch' = [batch EXCEPT ![b].task = "done"]
  /\ monitor' = [monitor EXCEPT !.results = batch[b].done, !.running = FALSE, !.of = b, !.batch = 0]
  /\ asked' = IF asked # 0 /\ b >= asked THEN 0 ELSE asked
  /\ UNCHANGED <<World, due, tunnel, calm, changes>>

(* ---- The end -------------------------------------------------------------------------- *)

(* The daemon stops the monitor and only then tells the supervisor.        *)
Stop ==
  /\ tunnel = "up" /\ tunnel' = "told"
  /\ batch' = [b \in Batches |-> IF b = monitor.batch /\ batch[b].task = "run"
                                 THEN [batch[b] EXCEPT !.task = "aborted"] ELSE batch[b]]
  /\ monitor' = [monitor EXCEPT !.running = FALSE, !.batch = 0]
  /\ UNCHANGED <<World, due, calm, asked, changes>>
SupervisorEnds ==
  /\ tunnel = "told" /\ tunnel' = "down"
  /\ UNCHANGED <<World, due, monitor, batch, calm, asked, changes>>

HealthNext ==
  \/ \E r \in Records : ServiceFlips(r) \/ RecordFlips(r)
  \/ MemberFlips \/ TimePasses \/ RequestNow \/ Schedule \/ Stop \/ SupervisorEnds
  \/ \E b \in Begun : \/ \E r \in Records : TakeJob(b, r)
                      \/ \E j \in batch[b].doing : FinishJob(b, j)
                      \/ Complete(b)

HealthSpec == HealthInit /\ [][HealthNext]_healthState

(* ---- Properties ---------------------------------------------------------------------------- *)

Results == {"unknown", "healthy", "unhealthy", "offline", "disabled"}
HealthTypeOK ==
  /\ listed \subseteq Records /\ answers \subseteq Records /\ online \in BOOLEAN /\ due \in BOOLEAN
  /\ monitor \in [results : [Records -> Results], running : BOOLEAN, force : BOOLEAN,
                  seen : BOOLEAN, of : 0..MaxBatches, batch : 0..MaxBatches]
  /\ \A b \in Batches : /\ batch[b].task \in {"none", "run", "aborted", "done"}
                        /\ batch[b].queue \subseteq Records
                        /\ batch[b].doing \subseteq (Records \X BOOLEAN)
                        /\ batch[b].done \in [Records -> Results]
  /\ tunnel \in {"up", "told", "down"} /\ calm \in [Batches -> BOOLEAN]
  /\ asked \in 0..MaxBatches /\ changes \in 0..MaxChanges

(* What the results say of a record while nothing changes.                 *)
Seen(r) == IF Immediate(r) # "unknown" THEN Immediate(r)
           ELSE IF r \in answers THEN "healthy"
           ELSE IF Kind[r] = "device" THEN "offline" ELSE "unhealthy"
(* While the tunnel is up no batch's results replace a later batch's, a    *)
(* check that was asked for is still wanted or under way, and the results  *)
(* of a batch during and after which nothing changed are true (schedule,   *)
(* request_now).                                                           *)
HealthSound ==
  tunnel = "up" =>
    /\ \A b \in Begun : batch[b].task = "done" => b <= monitor.of
    /\ asked # 0 => monitor.force \/ \E b \in Begun : b >= asked /\ batch[b].task = "run"
    /\ monitor.of # 0 /\ calm[monitor.of] =>
         \A r \in Records : monitor.results[r] = IF r \in listed THEN Seen(r) ELSE "unknown"

(* "停止時に実行中の監視バッチを打ち切り、外部への接続を残さない"              *)
(* (HealthMonitor::stop): refuted, the workers of an aborted batch go on   *)
(* with its queue, and a cycle under way starts another batch.             *)
NoneAfterStop == [][\A b \in Batches, r \in Records : tunnel = "down" => ~TakeJob(b, r)]_healthState
(* A device whose service is down while the member before it is online is  *)
(* shown as down (ADR-0033 3 reserves offline for an absent member):       *)
(* refuted, its address is looked for among the members'.                  *)
DeviceDown ==
  monitor.of # 0 /\ calm[monitor.of] /\ online =>
    \A r \in listed \ answers : Kind[r] = "device" => monitor.results[r] = "unhealthy"
=============================================================================
