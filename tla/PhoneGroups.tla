---------------------------- MODULE PhoneGroups ----------------------------
(***************************************************************************)
(* Chat groups on the phone (session.rs, groups.rs).  A phone does not send*)
(* its copy again: an edit is first delivered, and taken into the phone's  *)
(* own copy only when at least one other device acknowledged it.           *)
(*                                                                         *)
(* Two of the phone's threads edit: the one of the user interface, and the *)
(* control thread, which takes those who left the network out of the group *)
(* (and does apply before it delivers).  A delivery takes seconds, during  *)
(* which updates of others arrive.  Desktop devices are external: they edit*)
(* and pass on their copy under the rules of GroupGossip.                  *)
(*                                                                         *)
(* One group is modelled; devices are numbered by their address.  Names are*)
(* numbers.                                                                *)
(***************************************************************************)
EXTENDS Naturals, FiniteSets

CONSTANTS Nodes, Host, Me,
          MaxRev,       \* revisions
          MaxDesktop,   \* edits on the other devices
          MaxFaults     \* acknowledgements lost and deaths of the phone's process

VARIABLES copy,         \* per device, its copy of the group
          task,         \* what the two threads of the phone are doing
          gone,         \* who left the network
          heard,        \* whom the phone's control thread knows to have left
          desktopEdits, groupFaults,
          unheard,      \* versions of the phone's that somebody has but the phone
                        \* took for undelivered or lost with its process
          told          \* the last version whose edit was reported as done

groupState == <<copy, task, gone, heard, desktopEdits, groupFaults, unheard, told>>
groupWorld == <<gone, heard, desktopEdits, groupFaults>>

None == [rev |-> 0, by |-> 0, members |-> {}, name |-> 0]
Free == [at |-> "free", group |-> None, to |-> {}, got |-> FALSE]
Tasks == {"ui", "control"}
Devices == Nodes \ {Me}

GroupInit ==
  /\ copy = [n \in Nodes |-> None] /\ task = [t \in Tasks |-> Free]
  /\ gone = {} /\ heard = {} /\ desktopEdits = 0 /\ groupFaults = 0
  /\ unheard = {} /\ told = None

Version(g) == <<g.rev, g.by>>
(* apply: the newest revision wins, the higher author among equals.        *)
Newer(g, h) == g.rev > h.rev \/ (g.rev = h.rev /\ g.by > h.by)
Taken(h, g) == IF Newer(g, h) THEN g ELSE h
(* accepts_update: a member of the copy at hand, or of a group unknown.    *)
Accepts(n, g, from) == from \in (IF copy[n] = None THEN g.members ELSE copy[n].members)

Changed(g, n, S, name) == [rev |-> g.rev + 1, by |-> n, members |-> S, name |-> name]

(* One edit: another name, a member more, a member less.                   *)
Edits(g, away) ==
  {Changed(g, Me, g.members, 3 - g.name)}
  \cup {Changed(g, Me, g.members \cup {n}, g.name) : n \in Nodes \ (g.members \cup away)}
  \cup {Changed(g, Me, g.members \ {n}, g.name) : n \in g.members \ {Me}}

(* ---- The user's edits ----------------------------------------------------- *)

Begin(g, to) ==
  /\ task["ui"] = Free /\ g.rev <= MaxRev
  /\ task' = [task EXCEPT !["ui"] = [at |-> "deliver", group |-> g,
                                     to |-> (to \cup {Host}) \ {Me}, got |-> FALSE]]
  /\ UNCHANGED <<copy, groupWorld, unheard, told>>

(* create_group *)
Create == \E S \in SUBSET (Devices \ heard) :
  /\ copy[Me] = None /\ \A n \in Devices : copy[n] = None
  /\ S # {} /\ Begin(Changed(None, Me, S \cup {Me}, 1), S)

(* update_group: a new name, members added or removed; who is removed is   *)
(* told as well.                                                           *)
Update ==
  /\ Me \in copy[Me].members
  /\ \E g \in Edits(copy[Me], heard) : Begin(g, g.members \cup copy[Me].members)

(* leave_group *)
Leave ==
  /\ Me \in copy[Me].members
  /\ Begin(Changed(copy[Me], Me, copy[Me].members \ {Me}, copy[Me].name),
           copy[Me].members)

(* deliver_group: to one after the other of those who are online.  The     *)
(* device takes the update, and acknowledges even one it has something     *)
(* newer for; from one who is no member it accepts nothing.                *)
Deliver(t, n) ==
  /\ task[t].at = "deliver" /\ n \in task[t].to \ gone
  /\ LET g == task[t].group
     IN /\ IF Accepts(n, g, Me)
             THEN /\ copy' = [copy EXCEPT ![n] = Taken(@, g)]
                  /\ \/ /\ task' = [task EXCEPT ![t].to = @ \ {n}, ![t].got = TRUE]
                        /\ UNCHANGED <<groupFaults, unheard>>
                     \/ /\ groupFaults < MaxFaults /\ groupFaults' = groupFaults + 1
                        /\ task' = [task EXCEPT ![t].to = @ \ {n}]
                        /\ unheard' = unheard \cup {Version(g)}
             ELSE /\ task' = [task EXCEPT ![t].to = @ \ {n}]
                  /\ UNCHANGED <<copy, groupFaults, unheard>>
  /\ UNCHANGED <<gone, heard, desktopEdits, told>>

(* One that is offline is left out.                                        *)
NotDelivered(t, n) ==
  /\ task[t].at = "deliver" /\ n \in task[t].to
  /\ task' = [task EXCEPT ![t].to = @ \ {n}]
  /\ UNCHANGED <<copy, groupWorld, unheard, told>>

CommitUnheard == task["ui"].to = {}

(* commit_group_change: nobody acknowledged it, and it did not happen;     *)
(* otherwise it is applied, which a newer copy that arrived meanwhile may  *)
(* refuse, and reported as done.                                           *)
CommitAllowed == task["ui"].got
Commit ==
  /\ task["ui"].at = "deliver" /\ task["ui"].to = {}
  /\ IF CommitAllowed
       THEN /\ copy' = [copy EXCEPT ![Me] = Taken(@, task["ui"].group)]
            /\ told' = task["ui"].group
       ELSE UNCHANGED <<copy, told>>
  /\ task' = [task EXCEPT !["ui"] = Free]
  /\ UNCHANGED <<groupWorld, unheard>>

(* ---- Those who left --------------------------------------------------------- *)

(* prune_departed: the update that takes them out.                         *)
Pruned(g) == Changed(g, Me, g.members \ gone, g.name)

(* A ledger without them reaches the phone: the update is made of the copy *)
(* as it is.                                                               *)
PruneBegins ==
  /\ task["control"] = Free /\ heard' = gone
  /\ Me \in copy[Me].members /\ copy[Me].members \cap gone # {} /\ copy[Me].rev < MaxRev
  /\ task' = [task EXCEPT !["control"] =
       [at |-> "apply", group |-> Pruned(copy[Me]),
        to |-> copy[Me].members \ (gone \cup {Me}), got |-> FALSE]]
  /\ UNCHANGED <<copy, gone, desktopEdits, groupFaults, unheard, told>>

(* prune_groups applies it and then delivers it, once.                     *)
PruneApplies ==
  /\ task["control"].at = "apply"
  /\ copy' = [copy EXCEPT ![Me] = Taken(@, task["control"].group)]
  /\ task' = [task EXCEPT !["control"].at = "deliver"]
  /\ UNCHANGED <<groupWorld, unheard, told>>
PruneEnds ==
  /\ task["control"].at = "deliver" /\ task["control"].to = {}
  /\ task' = [task EXCEPT !["control"] = Free]
  /\ UNCHANGED <<copy, groupWorld, unheard, told>>

(* ---- Updates of others ------------------------------------------------------ *)

(* handle_conn, GroupUpdate: asked of the ledger, whether the sender is in *)
(* the network; of the copy, whether it is a member.                       *)
Receive(n) ==
  /\ n \in Devices \ (gone \cup heard) /\ copy[n] # None
  /\ Accepts(Me, copy[n], n) /\ Newer(copy[n], copy[Me])
  /\ copy' = [copy EXCEPT ![Me] = copy[n]]
  /\ UNCHANGED <<task, groupWorld, unheard, told>>

(* ---- The other devices ------------------------------------------------------ *)

DesktopEdits(n) ==
  /\ desktopEdits < MaxDesktop /\ desktopEdits' = desktopEdits + 1
  /\ n \in Devices \ gone /\ n \in copy[n].members /\ copy[n].rev < MaxRev
  /\ \E g \in Edits(copy[n], gone) :
       n \in g.members /\ copy' = [copy EXCEPT ![n] = [g EXCEPT !.by = n]]
  /\ UNCHANGED <<task, gone, heard, groupFaults, unheard, told>>

DesktopsGossip(n, m) ==
  /\ n \in Devices \ gone /\ m \in Devices \ gone /\ n \in copy[n].members
  /\ m \in copy[n].members \cup {Host}
  /\ Accepts(m, copy[n], n) /\ Newer(copy[n], copy[m])
  /\ copy' = [copy EXCEPT ![m] = copy[n]]
  /\ UNCHANGED <<task, groupWorld, unheard, told>>

Departs(n) ==
  /\ n \in Devices \ (gone \cup {Host}) /\ gone' = gone \cup {n}
  /\ UNCHANGED <<copy, task, heard, desktopEdits, groupFaults, unheard, told>>

(* The app is ended.  What the user interface had delivered and not yet    *)
(* applied is lost to the phone.                                           *)
Dies ==
  /\ groupFaults < MaxFaults /\ groupFaults' = groupFaults + 1
  /\ task' = [t \in Tasks |-> Free] /\ heard' = {}
  /\ unheard' = unheard \cup {Version(task[t].group) : t \in Tasks}
  /\ UNCHANGED <<copy, gone, desktopEdits, told>>

GroupNext ==
  \/ Create \/ Update \/ Leave \/ Commit
  \/ PruneBegins \/ PruneApplies \/ PruneEnds \/ Dies
  \/ \E n \in Devices : Receive(n) \/ DesktopEdits(n) \/ Departs(n)
                        \/ \E t \in Tasks : Deliver(t, n) \/ NotDelivered(t, n)
                        \/ \E m \in Devices : DesktopsGossip(n, m)

GroupSpec == GroupInit /\ [][GroupNext]_groupState

-----------------------------------------------------------------------------
GroupTypeOK ==
  /\ \A n \in Nodes : copy[n].rev \in 0..MaxRev /\ copy[n].by \in Nodes \cup {0}
  /\ \A t \in Tasks : task[t].to \subseteq Devices
  /\ gone \subseteq Devices /\ heard \subseteq gone

(* No ghost group: one the phone created and stored is on another device   *)
(* too, at that revision or a later one (create_group).                    *)
NoGhostGroup == copy[Me] # None => \E n \in Devices : copy[n].rev >= 1

(* A version of the phone's own that another device has is in the phone's  *)
(* copy too, or has been replaced there by a newer one, unless its delivery*)
(* is under way, its acknowledgement was lost or the process died between  *)
(* the delivery and the copy (commit_group_change, prune_groups).          *)
AuthorNotBehind ==
  \A n \in Devices :
    copy[n].by = Me /\ Version(copy[n]) \notin unheard =>
      \/ ~Newer(copy[n], copy[Me])
      \/ \E t \in Tasks : Version(task[t].group) = Version(copy[n])

(* Whatever arrives between the delivery and the copy, an edit reported as *)
(* done is in the phone's copy or has been replaced by a newer revision.   *)
ToldIsStored == ~Newer(told, copy[Me])

GroupsSound == NoGhostGroup /\ AuthorNotBehind /\ ToldIsStored

(* groups.rs: the newest revision wins, equals by their author.  That      *)
(* supposes that one version is one group.                                 *)
OneGroupPerVersion ==
  \A n, m \in Nodes : Version(copy[n]) = Version(copy[m]) => copy[n] = copy[m]

(* The comment of commit_group_change: an edit happens only when it reached*)
(* somebody; when it did not happen, nobody has it.                        *)
FailedIsNowhere ==
  \A n \in Devices : copy[n].by = Me =>
    \/ ~Newer(copy[n], copy[Me])
    \/ \E t \in Tasks : Version(task[t].group) = Version(copy[n])

(* A user told to have left is out of the group in the phone's copy.       *)
LeftIsOut == told # None /\ Me \notin told.members /\ task["ui"] = Free
               => Me \notin copy[Me].members \/ copy[Me].rev > told.rev + 1
=============================================================================
