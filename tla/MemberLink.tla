------------------------------ MODULE MemberLink ------------------------------
(***************************************************************************)
(* How a member's requests to the host find their answers.  On the desktop *)
(* (MemberLink) a request puts its message into the outbox of the session  *)
(* and waits for a one-shot: one place per kind for DNS names, display     *)
(* names and invites, a table by number for administration and memos.  On  *)
(* Android the outbox outlives the sessions, the unnumbered answers lie in *)
(* a slot that the waiting thread polls, and memo requests are numbered.   *)
(* The host answers each connection in the order it reads.                 *)
(***************************************************************************)
EXTENDS Naturals, Sequences, FiniteSets, SequencesExt

CONSTANTS Requests,     \* requests of the user, in any order
          Numbered,     \* those with a number (administration, memos)
          MaxSessions   \* sessions of the control channel

LinkAssumption == Numbered \subseteq Requests /\ MaxSessions \in Nat

VARIABLES device,    \* "desktop" or "mobile"
          session,   \* number of the session, 0 when there is none
          sessions,  \* sessions so far
          req,       \* req[r]: "new", "waiting", "answered", "failed"
          born,      \* born[r]: the session the request was made in
          got,       \* got[r]: the request whose answer r was given
          place,     \* the unnumbered request that waits (desktop)
          slot,      \* the unnumbered answer that lies ready (mobile)
          pending,   \* the numbered requests in the table
          outbox,    \* messages not yet written to a connection
          toHost,    \* requests on the connection, in order
          toMember,  \* answers on the connection, in order
          applied    \* requests the host carried out, with the session

linkVars == <<device, session, sessions, req, born, got, place, slot, pending, outbox,
          toHost, toMember, applied>>

None == "none"

Init == /\ device \in {"desktop", "mobile"}
        /\ session = 0 /\ sessions = 0
        /\ req = [r \in Requests |-> "new"] /\ born = [r \in Requests |-> 0]
        /\ got = [r \in Requests |-> None]
        /\ place = None /\ slot = None /\ pending = {}
        /\ outbox = << >> /\ toHost = << >> /\ toMember = << >> /\ applied = {}

Waiting(S) == {r \in S : req[r] = "waiting"}
Fail(S) == req' = [r \in Requests |-> IF r \in S THEN "failed" ELSE req[r]]

\* attach: the one-shots of an earlier session end as errors.
Attach == /\ session = 0 /\ sessions < MaxSessions
          /\ sessions' = sessions + 1 /\ session' = sessions + 1
          /\ UNCHANGED <<device, req, born, got, place, slot, pending, outbox, toHost,
                         toMember, applied>>

\* detach: on the desktop outbox and one-shots go with the session; the phone's
\* threads wait on, and its outbox keeps what was not written.
Detach_Keep ==
    /\ session # 0 /\ session' = 0
    /\ toHost' = << >> /\ toMember' = << >>
    /\ UNCHANGED <<device, sessions, req, born, got, place, slot, pending, outbox, applied>>

Detach ==
    /\ session # 0 /\ session' = 0
    /\ toHost' = << >> /\ toMember' = << >>
    /\ IF device = "desktop"
       THEN /\ Fail(Waiting(Requests)) /\ place' = None /\ pending' = {} /\ outbox' = << >>
       ELSE UNCHANGED <<req, place, pending, outbox>>
    /\ UNCHANGED <<device, sessions, born, got, slot, applied>>

\* request_dns_name, request_display_name, request_create_invite; control_request.
\* A new one takes the place of the one before it, whose one-shot is dropped.
AskPlain(r) ==
    /\ r \notin Numbered /\ req[r] = "new" /\ session # 0
    /\ outbox' = Append(outbox, r)
    /\ born' = [born EXCEPT ![r] = session]
    /\ IF device = "desktop"
       THEN /\ place' = r /\ UNCHANGED slot
            /\ req' = [q \in Requests |->
                         IF q = r THEN "waiting" ELSE IF q = place THEN "failed" ELSE req[q]]
       ELSE /\ slot' = None /\ UNCHANGED place
            /\ req' = [req EXCEPT ![r] = "waiting"]
    /\ UNCHANGED <<device, session, sessions, got, pending, toHost, toMember, applied>>

\* request_dns_admin, request_admin_op, request_memo; memo_request.
AskNumbered(r) ==
    /\ r \in Numbered /\ req[r] = "new" /\ session # 0
    /\ outbox' = Append(outbox, r)
    /\ born' = [born EXCEPT ![r] = session]
    /\ pending' = pending \cup {r} /\ req' = [req EXCEPT ![r] = "waiting"]
    /\ UNCHANGED <<device, session, sessions, got, place, slot, toHost, toMember, applied>>

\* The writer's task, or the phone's loop, puts the outbox on the connection.
WriteOut == /\ session # 0 /\ outbox # << >>
            /\ outbox' = Tail(outbox) /\ toHost' = Append(toHost, Head(outbox))
            /\ UNCHANGED <<device, session, sessions, req, born, got, place, slot, pending,
                           toMember, applied>>

\* The caller gives up; a phone's numbered request also leaves the table.
Timeout(r) ==
    /\ req[r] = "waiting" /\ Fail({r})
    /\ pending' = IF device = "mobile" THEN pending \ {r} ELSE pending
    /\ UNCHANGED <<device, session, sessions, born, got, place, slot, outbox, toHost,
                   toMember, applied>>

\* The host reads a request: carried out and answered, or not answered at all (a
\* version that does not know it, a session that is isolated).
HostHandle ==
    /\ toHost # << >> /\ toHost' = Tail(toHost)
    /\ \/ /\ toMember' = Append(toMember, Head(toHost))
          /\ applied' = applied \cup {<<Head(toHost), session>>}
       \/ UNCHANGED <<toMember, applied>>
    /\ UNCHANGED <<device, session, sessions, req, born, got, place, slot, pending, outbox>>

Answer(r, a) == /\ req' = [req EXCEPT ![r] = "answered"] /\ got' = [got EXCEPT ![r] = a]

PutByPlace(a) ==
    IF device = "desktop"
    THEN /\ place' = None /\ UNCHANGED slot
         /\ IF place # None /\ req[place] = "waiting" THEN Answer(place, a)
                                                      ELSE UNCHANGED <<req, got>>
    ELSE slot' = a /\ UNCHANGED <<place, req, got>>

PutNumbered_Oldest(a) ==
    LET W == Waiting(pending) IN
    /\ IF W # {} THEN Answer(CHOOSE r \in W : TRUE, a) ELSE UNCHANGED <<req, got>>
    /\ pending' = pending \ {a} /\ UNCHANGED <<place, slot>>

PutNumbered(a) ==
    /\ IF a \in pending /\ req[a] = "waiting" THEN Answer(a, a) ELSE UNCHANGED <<req, got>>
    /\ pending' = pending \ {a} /\ UNCHANGED <<place, slot>>

\* member_reader, control_session: the next answer goes to whoever is found waiting.
ReadAnswer ==
    /\ toMember # << >> /\ toMember' = Tail(toMember)
    /\ LET a == Head(toMember) IN
         IF a \in Numbered THEN PutNumbered(a)
                           ELSE PutByPlace(a) /\ UNCHANGED pending
    /\ UNCHANGED <<device, session, sessions, born, outbox, toHost, applied>>

\* The phone's waiting thread finds something in the slot.
Poll(r) == /\ device = "mobile" /\ r \notin Numbered /\ req[r] = "waiting" /\ slot # None
           /\ Answer(r, slot) /\ slot' = None
           /\ UNCHANGED <<device, session, sessions, born, place, pending, outbox, toHost,
                          toMember, applied>>

Next == \/ Attach \/ Detach \/ WriteOut \/ HostHandle \/ ReadAnswer
        \/ \E r \in Requests : AskPlain(r) \/ AskNumbered(r) \/ Timeout(r) \/ Poll(r)

Spec == Init /\ [][Next]_linkVars

TypeOK ==
    /\ device \in {"desktop", "mobile"}
    /\ session \in 0 .. MaxSessions /\ sessions \in 0 .. MaxSessions
    /\ req \in [Requests -> {"new", "waiting", "answered", "failed"}]
    /\ born \in [Requests -> 0 .. MaxSessions]
    /\ got \in [Requests -> Requests \cup {None}]
    /\ place \in Requests \cup {None} /\ slot \in Requests \cup {None}
    /\ pending \subseteq Numbered
    /\ Range(outbox) \cup Range(toHost) \cup Range(toMember) \subseteq Requests
    /\ applied \subseteq Requests \X (1 .. MaxSessions)

(* A numbered request is only ever told its own result, whatever timed out *)
(* before it and whatever was answered late.                               *)
OwnAnswer == \A r \in Numbered : got[r] \in {None, r}

(* On the desktop the host carries a request out in the session it was     *)
(* made in or not at all: a request reported as failed at the loss of the  *)
(* session is not carried out by a later one.                              *)
NotInALaterSession ==
    device = "desktop" => \A x \in applied : born[x[1]] = x[2]
===============================================================================
