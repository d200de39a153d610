----------------------------- MODULE PhoneKeys -----------------------------
(***************************************************************************)
(* The phone's key and its VPN service (PeercoveVpnService.kt, lib.rs,     *)
(* keyfiles.rs).  The service's main thread starts and stops the tunnel,   *)
(* with the confirmed key or with the pending one; each start leaves a     *)
(* watchdog thread, retired by a generation counter, which confirms a      *)
(* pending key that works, asks for a key of the device's own once, and    *)
(* tries the other key when nothing answers.  The user may ask for a new   *)
(* key at the same time.  Requests and answers carry no number: all go     *)
(* through one slot of the session.                                        *)
(*                                                                         *)
(* Keys are numbers; 1 came with the invite.  The host accepts a key, or   *)
(* refuses it; its device follows its file a few seconds later.            *)
(***************************************************************************)
EXTENDS Naturals, Sequences, FiniteSets

CONSTANTS MaxKey, MaxGen, MaxRefusals, MaxDrops, MaxDeaths

VARIABLES keyFile, newFile,   \* member.key, member.key.new (0: none)
          own,                \* key_source is "self"
          hostKey, hostWg,    \* the key in the host's file, and on its device
          tunnel,             \* [up, key, live]: the engine and its last handshake
          link,               \* the control channel is connected
          outbox,             \* what the session's thread has still to send
          asks, answers,      \* on the wire, in order; "by" tells whose request it is,
                              \* which neither side can see
          slot,               \* rotate_result of the session
          session,            \* number of the session
          service,            \* currentSlug is set
          usingNew, watch,    \* usingPendingKey, watchGeneration
          main,               \* the call of connect under way, if any
          posts,              \* connects asked of the main thread
          dog,                \* the watchdog of each generation
          user,               \* the user's request
          lastKey, count,
          misled              \* two requests overlapped, an answer was taken for another
                              \* request's, a watchdog confirmed a key when it was retired
                              \* or the tunnel runs on another, or the host refused its key

keyState == <<keyFile, newFile, own, hostKey, hostWg, tunnel, link, outbox, asks, answers, slot,
              session, service, usingNew, watch, main, posts, dog, user, lastKey, count, misled>>
files == <<keyFile, newFile, own, lastKey>>
far == <<hostKey, hostWg>>
channel == <<link, outbox, asks, answers>>

Gens == 1..MaxGen      \* the watchdogs; each asks once
User == 0              \* who asks once, too
Idle == [at |-> "idle", new |-> FALSE, must |-> FALSE]
Gone == [at |-> "gone", saw |-> FALSE, tried |-> FALSE, key |-> 0, session |-> 0]
NoTunnel == [up |-> FALSE, key |-> 0, live |-> FALSE]

KeysInit ==
  /\ keyFile = 1 /\ newFile = 0 /\ own = FALSE /\ lastKey = 1
  /\ hostKey = 1 /\ hostWg = 1
  /\ tunnel = NoTunnel /\ link = FALSE /\ outbox = <<>> /\ asks = <<>> /\ answers = <<>> /\ slot = {}
  /\ session = 0 /\ service = FALSE /\ usingNew = FALSE /\ watch = 0
  /\ main = Idle /\ posts = <<[new |-> FALSE, must |-> FALSE]>>
  /\ dog = [g \in Gens |-> Gone] /\ user = Gone
  /\ count = [asked |-> 0, refusals |-> 0, drops |-> 0, deaths |-> 0]
  /\ misled = FALSE

(* ---- The main thread ------------------------------------------------------ *)

(* onStartCommand, or a posted connect, which is dropped when the service  *)
(* left the network meanwhile.                                             *)
Connects ==
  /\ main = Idle /\ posts # <<>> /\ posts' = Tail(posts)
  /\ main' = IF Head(posts).must /\ ~service THEN Idle
             ELSE [at |-> "teardown", new |-> Head(posts).new, must |-> FALSE]
  /\ UNCHANGED <<files, far, tunnel, channel, slot, session, service, usingNew, watch, dog,
                 user, count, misled>>

(* teardown: the watchdogs are retired, the tunnel and its session stop.   *)
TornDown == /\ tunnel' = NoTunnel /\ link' = FALSE /\ asks' = <<>> /\ answers' = <<>>
            /\ outbox' = <<>> /\ slot' = {} /\ service' = FALSE
Teardown ==
  /\ main.at = "teardown" /\ watch < MaxGen - 1 /\ watch' = watch + 1 /\ TornDown
  /\ main' = [main EXCEPT !.at = "start"]
  /\ UNCHANGED <<files, far, session, usingNew, posts, dog, user, count, misled>>

(* start_tunnel_impl: fails when the pending key is wanted and there is    *)
(* none; then the service stops itself.                                    *)
StartTunnel ==
  /\ main.at = "start"
  /\ IF main.new /\ newFile = 0
       THEN main' = Idle /\ UNCHANGED <<tunnel, session>>
       ELSE /\ tunnel' = [up |-> TRUE, key |-> IF main.new THEN newFile ELSE keyFile,
                          live |-> FALSE]
            /\ session' = session + 1 /\ main' = [main EXCEPT !.at = "started"]
  /\ UNCHANGED <<files, far, channel, slot, service, usingNew, watch, posts, dog, user,
                 count, misled>>

Started ==
  /\ main.at = "started" /\ main' = Idle
  /\ service' = TRUE /\ usingNew' = main.new /\ watch' = watch + 1
  /\ dog' = [dog EXCEPT ![watch'] = [Gone EXCEPT !.at = "asleep"]]
  /\ UNCHANGED <<files, far, tunnel, channel, slot, session, posts, user, count, misled>>

(* ACTION_DISCONNECT or onRevoke; the user may connect again.              *)
Disconnects ==
  /\ main = Idle /\ service /\ watch < MaxGen - 1 /\ watch' = watch + 1 /\ TornDown
  /\ UNCHANGED <<files, far, session, usingNew, main, posts, dog, user, count, misled>>
Reconnects ==
  /\ main = Idle /\ ~service /\ posts = <<>> /\ posts' = <<[new |-> FALSE, must |-> FALSE]>>
  /\ UNCHANGED <<files, far, tunnel, channel, slot, session, service, usingNew, watch, main,
                 dog, user, count, misled>>

Post(connect) == posts' = Append(posts, connect)

(* ---- The tunnel and the host ----------------------------------------------- *)

Works == tunnel.up /\ tunnel.key = hostWg
Handshake == /\ Works /\ ~tunnel.live /\ tunnel' = [tunnel EXCEPT !.live = TRUE]
             /\ UNCHANGED <<files, far, channel, slot, session, service, usingNew, watch, main,
                            posts, dog, user, count, misled>>
(* Long after the host knows the key no more, the session ends.            *)
Expires == /\ tunnel.up /\ ~Works /\ tunnel.live /\ tunnel' = [tunnel EXCEPT !.live = FALSE]
           /\ UNCHANGED <<files, far, channel, slot, session, service, usingNew, watch, main,
                          posts, dog, user, count, misled>>
LinkUp == /\ Works /\ tunnel.live /\ ~link /\ link' = TRUE
          /\ UNCHANGED <<files, far, tunnel, outbox, asks, answers, slot, session, service, usingNew,
                         watch, main, posts, dog, user, count, misled>>
LinkDrops ==
  /\ link /\ link' = FALSE /\ asks' = <<>> /\ answers' = <<>>
  /\ \/ ~Works /\ UNCHANGED count
     \/ count.drops < MaxDrops /\ count' = [count EXCEPT !.drops = @ + 1]
  /\ UNCHANGED <<files, far, tunnel, outbox, slot, session, service, usingNew, watch, main,
                 posts, dog, user, misled>>

(* The session's thread sends what the requesters left it; what it had no  *)
(* time to take goes to the next connection.                               *)
Drains ==
  /\ link /\ outbox # <<>> /\ asks' = asks \o outbox /\ outbox' = <<>>
  /\ UNCHANGED <<files, far, tunnel, link, answers, slot, session, service, usingNew, watch,
                 main, posts, dog, user, count, misled>>

(* apply_rotate_key: it has the key already, it takes it, or refuses it.   *)
HostAnswers ==
  /\ link /\ asks # <<>> /\ asks' = Tail(asks)
  /\ \/ /\ hostKey' = Head(asks).key /\ answers' = Append(answers, [ok |-> TRUE, by |-> Head(asks).by])
        /\ UNCHANGED <<count, misled>>
     \/ /\ count.refusals < MaxRefusals /\ count' = [count EXCEPT !.refusals = @ + 1]
        /\ answers' = Append(answers, [ok |-> FALSE, by |-> Head(asks).by])
        /\ misled' = (misled \/ Head(asks).key = hostKey) /\ UNCHANGED hostKey
  /\ UNCHANGED <<files, hostWg, tunnel, link, outbox, slot, session, service, usingNew, watch, main,
                 posts, dog, user>>

HostReloads == /\ hostWg # hostKey /\ hostWg' = hostKey
               /\ UNCHANGED <<files, hostKey, tunnel, channel, slot, session, service, usingNew,
                              watch, main, posts, dog, user, count, misled>>

(* A mutant: an answer does not replace one not yet taken.                 *)
AnswerArrivesBeside ==
  /\ link /\ answers # <<>> /\ slot' = slot \cup {Head(answers)} /\ answers' = Tail(answers)
  /\ UNCHANGED <<files, far, tunnel, link, outbox, asks, session, service, usingNew, watch,
                 main, posts, dog, user, count, misled>>
(* A later answer replaces one not yet taken.                              *)
AnswerArrives == /\ link /\ answers # <<>> /\ slot' = {Head(answers)} /\ answers' = Tail(answers)
                 /\ UNCHANGED <<files, far, tunnel, link, outbox, asks, session, service, usingNew,
                                watch, main, posts, dog, user, count, misled>>

(* ---- A request for a new key, by a watchdog or the user --------------------- *)

(* rotate_key: the pending key, made when there is none, is on disk before *)
(* it is sent.                                                             *)
EnsurePending ==
  IF newFile # 0 THEN UNCHANGED <<newFile, lastKey>>
  ELSE lastKey < MaxKey /\ lastKey' = lastKey + 1 /\ newFile' = lastKey'
Busy(requester) == requester.at \in {"send", "wait"}

(* control_request_raw: the slot is emptied, the request is left to send.  *)
Sends(k, who) == /\ link /\ slot' = {} /\ outbox' = Append(outbox, [key |-> k, by |-> who])

(* commit_pending reads the pending key again: it need not be the one that *)
(* was asked for.                                                          *)
Committed == /\ newFile # 0 /\ keyFile' = newFile /\ newFile' = 0 /\ own' = TRUE
CommitFails == newFile = 0 /\ UNCHANGED <<keyFile, newFile, own>>

(* A refusal throws the pending key away, whoever else carries it.         *)
Discarded == newFile' = 0 /\ UNCHANGED <<keyFile, own>>

UnansweredDiscards == Discarded
(* No answer keeps it.                                                     *)
Unanswered == UNCHANGED <<keyFile, newFile, own>>

UserAsks ==
  /\ user.at = "gone" /\ link /\ count.asked < 1
  /\ count' = [count EXCEPT !.asked = @ + 1]
  /\ EnsurePending /\ misled' = (misled \/ \E g \in Gens : Busy(dog[g]))
  /\ user' = [Gone EXCEPT !.at = "send", !.key = newFile', !.session = session]
  /\ UNCHANGED <<keyFile, own, far, tunnel, channel, slot, session, service, usingNew, watch,
                 main, posts, dog>>
UserSends ==
  /\ user.at = "send"
  /\ \/ /\ session = user.session /\ Sends(user.key, User) /\ user' = [user EXCEPT !.at = "wait"]
     \/ /\ session # user.session \/ ~link
        /\ user' = Gone /\ UNCHANGED <<slot, outbox>>
  /\ UNCHANGED <<files, far, tunnel, link, asks, answers, session, service, usingNew, watch, main,
                 posts, dog, count, misled>>
(* The screen then asks the service to connect again.                      *)
UserTakes ==
  /\ user.at = "wait" /\ user' = Gone
  /\ \/ /\ session = user.session /\ slot # {} /\ slot' = {}
        /\ \E a \in slot :
             /\ misled' = (misled \/ a.by # User)
             /\ \/ /\ a.ok /\ Committed /\ Post([new |-> FALSE, must |-> FALSE])
                \/ /\ a.ok /\ CommitFails /\ UNCHANGED posts
                \/ /\ ~a.ok /\ Discarded /\ UNCHANGED posts
     \/ Unanswered /\ UNCHANGED <<slot, posts, misled>>
  /\ UNCHANGED <<lastKey, far, tunnel, channel, session, service, usingNew, watch, main, dog,
                 count>>

(* ---- The watchdogs ----------------------------------------------------------- *)

Retired(g) == g # watch \/ ~service
DogChange(g, new) == dog' = [dog EXCEPT ![g] = new]

(* Every five seconds, while it is the one of this generation, it reads the*)
(* state of the tunnel there is.                                           *)
DogLooks(g) ==
  /\ dog[g].at = "asleep"
  /\ IF Retired(g) THEN DogChange(g, Gone)
     ELSE tunnel.up /\ DogChange(g, [dog[g] EXCEPT !.at = "looked", !.saw = tunnel.live])
  /\ UNCHANGED <<files, far, tunnel, channel, slot, session, service, usingNew, watch, main,
                 posts, user, count, misled>>

(* There was a handshake: a pending key in use is confirmed, whichever key *)
(* is pending by now.                                                      *)
DogConfirms(g) ==
  /\ dog[g].at = "looked" /\ dog[g].saw /\ usingNew
  /\ misled' = (misled \/ Retired(g) \/ newFile \notin {0, tunnel.key})
  /\ \/ Committed /\ usingNew' = FALSE
     \/ CommitFails /\ UNCHANGED usingNew
  /\ DogChange(g, [dog[g] EXCEPT !.at = "confirmed"])
  /\ UNCHANGED <<lastKey, far, tunnel, channel, slot, session, service, watch, main, posts,
                 user, count>>

(* Then, once per start and only while the key is the invite's, it asks for*)
(* one of the device's own.                                                *)
DogAsks(g) ==
  /\ dog[g].saw /\ \/ dog[g].at = "confirmed"
                   \/ dog[g].at = "looked" /\ ~usingNew
  /\ IF link /\ ~dog[g].tried /\ ~own
       THEN /\ EnsurePending
            /\ misled' = \/ misled \/ Busy(user)
                         \/ \E h \in Gens \ {g} : Busy(dog[h])
            /\ DogChange(g, [dog[g] EXCEPT !.at = "send", !.tried = TRUE, !.key = newFile',
                                           !.session = session])
       ELSE /\ DogChange(g, [dog[g] EXCEPT !.at = "asleep", !.tried = @ \/ link])
            /\ UNCHANGED <<newFile, lastKey, misled>>
  /\ UNCHANGED <<keyFile, own, far, tunnel, channel, slot, session, service, usingNew, watch,
                 main, posts, user, count>>
DogSends(g) ==
  /\ dog[g].at = "send"
  /\ \/ /\ session = dog[g].session /\ Sends(dog[g].key, g)
        /\ DogChange(g, [dog[g] EXCEPT !.at = "wait"])
     \/ /\ session # dog[g].session \/ ~link
        /\ DogChange(g, [dog[g] EXCEPT !.at = "asleep"]) /\ UNCHANGED <<slot, outbox>>
  /\ UNCHANGED <<files, far, tunnel, link, asks, answers, session, service, usingNew, watch, main,
                 posts, user, count, misled>>
DogTakes(g) ==
  /\ dog[g].at = "wait"
  /\ \/ /\ session = dog[g].session /\ slot # {} /\ slot' = {}
        /\ \E a \in slot :
             /\ misled' = (misled \/ a.by # g)
             /\ \/ /\ a.ok /\ Committed /\ Post([new |-> FALSE, must |-> TRUE])
                   /\ DogChange(g, Gone)
                \/ /\ a.ok /\ CommitFails /\ UNCHANGED posts
                   /\ DogChange(g, [dog[g] EXCEPT !.at = "asleep"])
                \/ /\ ~a.ok /\ Discarded /\ UNCHANGED posts
                   /\ DogChange(g, [dog[g] EXCEPT !.at = "asleep"])
     \/ /\ Unanswered /\ UNCHANGED <<slot, posts, misled>>
        /\ DogChange(g, [dog[g] EXCEPT !.at = "asleep"])
  /\ UNCHANGED <<lastKey, far, tunnel, channel, session, service, usingNew, watch, main, user,
                 count>>

(* No handshake for 45 seconds: while there is a pending key, the other key*)
(* is tried.                                                               *)
DogSwitches(g) ==
  /\ dog[g].at = "looked" /\ ~dog[g].saw
  /\ \/ newFile # 0 /\ Post([new |-> ~usingNew, must |-> TRUE]) /\ DogChange(g, Gone)
     \/ DogChange(g, [dog[g] EXCEPT !.at = "asleep"]) /\ UNCHANGED posts
  /\ UNCHANGED <<files, far, tunnel, channel, slot, session, service, usingNew, watch, main,
                 user, count, misled>>

(* ---- The process --------------------------------------------------------------- *)

(* It dies and the system starts the service again, with the last network  *)
(* and the confirmed key.                                                  *)
Dies ==
  /\ count.deaths < MaxDeaths /\ count' = [count EXCEPT !.deaths = @ + 1]
  /\ TornDown /\ main' = Idle /\ usingNew' = FALSE /\ watch < MaxGen - 1
  /\ posts' = <<[new |-> FALSE, must |-> FALSE]>>
  /\ dog' = [g \in Gens |-> Gone] /\ user' = Gone
  /\ UNCHANGED <<files, far, session, watch, misled>>

KeysNext ==
  \/ Connects \/ Teardown \/ StartTunnel \/ Started \/ Disconnects \/ Reconnects
  \/ Handshake \/ Expires \/ LinkUp \/ LinkDrops \/ Drains
  \/ HostAnswers \/ HostReloads \/ AnswerArrives
  \/ UserAsks \/ UserSends \/ UserTakes
  \/ \E g \in Gens : DogLooks(g) \/ DogConfirms(g) \/ DogAsks(g) \/ DogSends(g)
                     \/ DogTakes(g) \/ DogSwitches(g)
  \/ Dies

KeysSpec == KeysInit /\ [][KeysNext]_keyState

-----------------------------------------------------------------------------
KeysTypeOK ==
  /\ {keyFile, hostKey, hostWg} \subseteq 1..MaxKey /\ newFile \in 0..MaxKey
  /\ watch \in 0..MaxGen /\ Cardinality(slot) <= 1

(* Whatever answers are lost, whoever asks and whenever the process dies,  *)
(* the key the host has for the phone is in one of the phone's two files,  *)
(* unless two requests overlapped, an answer was taken for another         *)
(* request's, a watchdog that is retired, or whose tunnel runs on another  *)
(* key, confirmed one, or the host refused the key it has (rotate_key,     *)
(* commit_pending, startKeyWatchdog).                                      *)
KeysSound == ~misled => hostKey \in {keyFile, newFile}

(* The doc comment of keyfiles.rs: the pending key is not removed before   *)
(* the host is known to have it, so that the phone is never shut out.      *)
NeverShutOut == hostKey \in {keyFile, newFile}

(* A connect that switches to the pending key is asked for when there is   *)
(* one (pendingKeyExists), and finds it; else the service stops itself.    *)
SwitchFinds == main.at = "start" /\ main.new => newFile # 0
=============================================================================
