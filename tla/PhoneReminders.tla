--------------------------- MODULE PhoneReminders ---------------------------
(***************************************************************************)
(* The reminders of the Android application.  A reminder is a row of the   *)
(* application's memo database and an alarm of the system; the two are     *)
(* written one after the other, by coroutines of the screens and by the    *)
(* receivers of two broadcasts, and the application's process may end      *)
(* between any two writes.  Alarms survive the process, not a restart of   *)
(* the device: the receiver of BOOT_COMPLETED registers them again.  An    *)
(* alarm is inexact: it fires at its time or later, and whatever fires     *)
(* makes a receiver take every reminder that is due.  A call into the      *)
(* memo database may fail: the receivers log that and are done, and the    *)
(* screens' coroutines are cancelled with the screen.                      *)
(***************************************************************************)
EXTENDS Naturals, FiniteSets

CONSTANTS Targets,        \* memos and events: a scope, a network and an id
          MaxTime,        \* times a reminder may be set for are 1..MaxTime
          MaxSets,        \* reminders set in a behaviour
          MaxClears,      \* reminders cleared
          MaxFaults       \* deaths, device restarts, failed calls, screens left

VARIABLES now,
          row,            \* the database: "none", "set" or "fired" for a target and a time
          alarms,         \* AlarmManager: [key, time] of each registered intent
          job,            \* what each coroutine or receiver is doing
          booted,         \* BOOT_COMPLETED is still to be delivered
          gone,           \* targets whose title cannot be found any more
          shown,          \* how often each reminder has been shown since it was set
          cut,            \* reminders set in the database whose alarm a fault or a
                          \* cancellation that crossed them took away
          lost,           \* reminders taken by a receiver that did not show them
          sets, clears, faults

reminderState == <<now, row, alarms, job, booted, gone, shown, cut, lost, sets, clears, faults>>

Times == 1..MaxTime
Reminders == Targets \X Times

Screens == {"screen1", "screen2"}
Receivers == {"alarm", "boot"}

(* A request code without the time, as before the release that     *)
(* allowed several reminders of one target.                                *)
AlarmKeyOfTarget(r) == r[1]

(* The identity of an alarm's intent: its request code is a hash of the    *)
(* target and the time (taken here to be free of collisions).              *)
AlarmKey(r) == r

Idle == [does |-> "nothing", rest |-> {}]

Unfired == {r \in Reminders : row[r] = "set"}
Due == {r \in Unfired : r[2] <= now}

ReminderTypeOK ==
  /\ now \in 0..MaxTime /\ row \in [Reminders -> {"none", "set", "fired"}]
  /\ alarms \subseteq [key : Reminders \cup Targets, time : Times]
  /\ job \in [Screens \cup Receivers ->
       [does : {"nothing", "arm", "disarm", "show", "rearm"}, rest : SUBSET Reminders]]
  /\ booted \in BOOLEAN /\ gone \subseteq Targets /\ shown \in [Reminders -> 0..2]
  /\ cut \subseteq Reminders /\ lost \subseteq Reminders
  /\ sets \in 0..MaxSets /\ clears \in 0..MaxClears /\ faults \in 0..MaxFaults

ReminderInit ==
  /\ now = 0 /\ row = [r \in Reminders |-> "none"] /\ alarms = {}
  /\ job = [j \in Screens \cup Receivers |-> Idle] /\ booted = FALSE /\ gone = {}
  /\ shown = [r \in Reminders |-> 0] /\ cut = {} /\ lost = {}
  /\ sets = 0 /\ clears = 0 /\ faults = 0

(* setAndAllowWhileIdle: an alarm of the same intent is replaced.          *)
Registered(r) == {a \in alarms : a.key # AlarmKey(r)} \cup {[key |-> AlarmKey(r), time |-> r[2]]}
Unregistered(r) == {a \in alarms : a.key # AlarmKey(r)}

Does(j, what, rest) == job' = [job EXCEPT ![j] = [does |-> what, rest |-> rest]]
Ends(j) == job' = [job EXCEPT ![j] = Idle]

(***************************************************************************)
(* The screens: applyReminder and clearReminder.  Only times to come can   *)
(* be set; a row that is there is overwritten and is unfired again.  The   *)
(* screens clear one reminder at a time; LocalMemos has the limit of ten.  *)
(***************************************************************************)
SetReminder(j, r) ==
  /\ job[j] = Idle /\ sets < MaxSets /\ sets' = sets + 1
  /\ r[2] > now /\ r[1] \notin gone
  /\ row' = [row EXCEPT ![r] = "set"] /\ shown' = [shown EXCEPT ![r] = 0]
  /\ lost' = lost \ {r} /\ Does(j, "arm", {r})
  /\ UNCHANGED <<now, alarms, booted, gone, cut, clears, faults>>

ArmAlarm(j) ==
  /\ job[j].does = "arm"
  /\ \E r \in job[j].rest : alarms' = Registered(r) /\ cut' = cut \ {r}
  /\ Ends(j)
  /\ UNCHANGED <<now, row, booted, gone, shown, lost, sets, clears, faults>>

ClearOne(j, r) ==
  /\ job[j] = Idle /\ clears < MaxClears /\ clears' = clears + 1
  /\ row[r] # "none" /\ row' = [row EXCEPT ![r] = "none"] /\ Does(j, "disarm", {r})
  /\ UNCHANGED <<now, alarms, booted, gone, shown, cut, lost, sets, faults>>

DisarmAlarm(j) ==
  /\ job[j].does = "disarm"
  /\ \E r \in job[j].rest :
       /\ alarms' = Unregistered(r)
       /\ cut' = IF row[r] = "set" THEN cut \cup {r} ELSE cut
       /\ IF job[j].rest = {r} THEN Ends(j) ELSE Does(j, "disarm", job[j].rest \ {r})
  /\ UNCHANGED <<now, row, booted, gone, shown, lost, sets, clears, faults>>

(* The screen is left while its coroutine waits for the database: the row  *)
(* was written, the alarm is not touched.                                  *)
ScreenLeft(j) ==
  /\ job[j].does \in {"arm", "disarm"} /\ faults < MaxFaults /\ faults' = faults + 1
  /\ Ends(j)
  /\ cut' = IF job[j].does = "disarm" THEN cut
            ELSE cut \cup {r \in job[j].rest \cap Unfired : \A a \in alarms : a.key # AlarmKey(r)}
  /\ UNCHANGED <<now, row, alarms, booted, gone, shown, lost, sets, clears>>

(***************************************************************************)
(* ReminderReceiver: the due rows become fired in one transaction, then    *)
(* each is shown whose title can be found.  If the transaction fails, the  *)
(* alarm is used up and nothing is set again; a title that cannot be read, *)
(* for whatever reason, counts as that of a memo that is gone.             *)
(***************************************************************************)
TakenRows == [r \in Reminders |-> IF r \in Due THEN "fired" ELSE row[r]]

AlarmFires ==
  /\ job["alarm"] = Idle
  /\ \E a \in alarms : a.time <= now /\ alarms' = alarms \ {a}
  /\ row' = TakenRows
  /\ IF Due = {} THEN UNCHANGED job ELSE Does("alarm", "show", Due)
  /\ cut' = cut \ Due
  /\ UNCHANGED <<now, booted, gone, shown, lost, sets, clears, faults>>

AlarmFails ==
  /\ job["alarm"] = Idle /\ faults < MaxFaults /\ faults' = faults + 1
  /\ \E a \in alarms :
       /\ a.time <= now /\ alarms' = alarms \ {a}
       /\ cut' = cut \cup {r \in Unfired : AlarmKey(r) = a.key}
  /\ UNCHANGED <<now, row, job, booted, gone, shown, lost, sets, clears>>

ShowReminder ==
  /\ job["alarm"].does = "show"
  /\ \E r \in job["alarm"].rest :
       /\ shown' = IF r[1] \in gone THEN shown ELSE [shown EXCEPT ![r] = @ + 1]
       /\ IF job["alarm"].rest = {r} THEN Ends("alarm")
                                     ELSE Does("alarm", "show", job["alarm"].rest \ {r})
  /\ UNCHANGED <<now, row, alarms, booted, gone, cut, lost, sets, clears, faults>>

TitleFails ==
  /\ job["alarm"].does = "show" /\ faults < MaxFaults /\ faults' = faults + 1
  /\ \E r \in job["alarm"].rest :
       /\ lost' = lost \cup {r}
       /\ IF job["alarm"].rest = {r} THEN Ends("alarm")
                                     ELSE Does("alarm", "show", job["alarm"].rest \ {r})
  /\ UNCHANGED <<now, row, alarms, booted, gone, shown, cut, sets, clears>>

(***************************************************************************)
(* ReminderBootReceiver: every unfired row is listed, then each is         *)
(* registered; an alarm whose time has passed fires at once.  When the     *)
(* list fails there are no alarms until the device restarts again.         *)
(***************************************************************************)
BootList ==
  /\ booted /\ booted' = FALSE
  /\ IF Unfired = {} THEN UNCHANGED job ELSE Does("boot", "rearm", Unfired)
  /\ UNCHANGED <<now, row, alarms, gone, shown, cut, lost, sets, clears, faults>>

BootListFails ==
  /\ booted /\ booted' = FALSE /\ faults < MaxFaults /\ faults' = faults + 1
  /\ cut' = cut \cup {r \in Unfired : \A a \in alarms : a.key # AlarmKey(r)}
  /\ UNCHANGED <<now, row, alarms, job, gone, shown, lost, sets, clears>>

BootArms ==
  /\ job["boot"].does = "rearm"
  /\ \E r \in job["boot"].rest :
       /\ alarms' = Registered(r) /\ cut' = cut \ {r}
       /\ IF job["boot"].rest = {r} THEN Ends("boot")
                                    ELSE Does("boot", "rearm", job["boot"].rest \ {r})
  /\ UNCHANGED <<now, row, booted, gone, shown, lost, sets, clears, faults>>

(***************************************************************************)
(* The world: time, memos and events that go away, the system that ends    *)
(* the process, and the device that restarts.                              *)
(***************************************************************************)
Tick == /\ now < MaxTime /\ now' = now + 1
        /\ UNCHANGED <<row, alarms, job, booted, gone, shown, cut, lost, sets, clears, faults>>

TargetGoes(x) == /\ x \notin gone /\ gone' = gone \cup {x}
                 /\ UNCHANGED <<now, row, alarms, job, booted, shown, cut, lost, sets, clears, faults>>

(* What the jobs of a process that ends leave behind.                      *)
Unshown == job["alarm"].rest
Unarmed == UNION {job[j].rest : j \in {i \in DOMAIN job : job[i].does \in {"arm", "rearm"}}}

ProcessEnds ==
  /\ faults < MaxFaults /\ faults' = faults + 1 /\ \E j \in DOMAIN job : job[j] # Idle
  /\ job' = [j \in DOMAIN job |-> Idle]
  /\ cut' = cut \cup {r \in Unarmed \cap Unfired : \A a \in alarms : a.key # AlarmKey(r)}
  /\ lost' = lost \cup Unshown
  /\ UNCHANGED <<now, row, alarms, booted, gone, shown, sets, clears>>

DeviceRestarts ==
  /\ faults < MaxFaults /\ faults' = faults + 1
  /\ alarms' = {} /\ job' = [j \in DOMAIN job |-> Idle] /\ booted' = TRUE
  /\ cut' = {} /\ lost' = lost \cup Unshown
  /\ UNCHANGED <<now, row, gone, shown, sets, clears>>

ReminderNext ==
  \/ \E j \in Screens :
       \/ \E r \in Reminders : SetReminder(j, r) \/ ClearOne(j, r)
       \/ ArmAlarm(j) \/ DisarmAlarm(j) \/ ScreenLeft(j)
  \/ AlarmFires \/ AlarmFails \/ ShowReminder \/ TitleFails \/ BootList \/ BootListFails \/ BootArms
  \/ Tick \/ (\E x \in Targets : TargetGoes(x)) \/ ProcessEnds \/ DeviceRestarts

ReminderSpec == ReminderInit /\ [][ReminderNext]_reminderState

-----------------------------------------------------------------------------
(* A reminder of the database that has not fired will be noticed: it has   *)
(* its alarm, or a job is about to register it, or BOOT_COMPLETED is to    *)
(* come; only a fault, a failed call, a screen that was left or a crossing *)
(* cancellation leaves it without (applyReminder, rescheduleAll).          *)
Armed == \A r \in Unfired :
  \/ [key |-> AlarmKey(r), time |-> r[2]] \in alarms \/ booted \/ r \in cut
  \/ r \in Unarmed

(* A reminder is shown once, never before its time, and, when its receiver *)
(* lives to the end and reads its title, it is shown unless its memo is    *)
(* gone (take_due marks what it returns in the same transaction).          *)
ShownOnce == \A r \in Reminders :
  /\ shown[r] <= 1
  /\ row[r] = "fired" /\ shown[r] = 0 => r \in lost \cup Unshown \/ r[1] \in gone

RemindersSound == Armed /\ ShownOnce

(* Refuted: a death between the row and the alarm, a screen left in that   *)
(* time, a failed memoReminderTakeDue, or a cancellation that crosses a    *)
(* new reminder of the same time.                                          *)
AlwaysArmed == \A r \in Unfired :
  [key |-> AlarmKey(r), time |-> r[2]] \in alarms \/ booted \/ r \in Unarmed

(* Refuted: the row is fired before the notice is shown, and a title that  *)
(* could not be read is not asked for again.                               *)
NeverLost == lost = {}
=============================================================================
