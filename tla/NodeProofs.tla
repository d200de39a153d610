----------------------------- MODULE NodeProofs -----------------------------
(***************************************************************************)
(* What the phone's engine and the relay keep, for every value of their    *)
(* constants.                                                              *)
(*                                                                         *)
(* Key renewal (KeysSound of PhoneKeys): the key the host has for a phone  *)
(* is in one of the phone's two files.  Requests and answers carry no      *)
(* number, so the proof follows what is under way for each requester: of   *)
(* one that waits nothing is behind its request, and the keys under way    *)
(* never go back behind the one the host has.                              *)
(*                                                                         *)
(* The chat queue (PhoneSound of PhoneChat): messages are in the queue, in *)
(* a thread's hands, in a copy to be written or in the file; the proof     *)
(* follows each of them wherever it is, by what it is and not by whether   *)
(* it is due.                                                              *)
(*                                                                         *)
(* The relay (RelaySound of PacketRelay): every entry of its two tables    *)
(* was paid for by a packet that passed.                                   *)
(***************************************************************************)
EXTENDS PhoneKeys, PhoneChat, PacketRelay, FiniteSetTheorems, SequenceTheorems,
        WellFoundedInduction, TLAPS

-----------------------------------------------------------------------------
(* Key renewal.                                                            *)

Keys == 1 .. MaxKey
Asked == [key : Keys, by : Nat]
Replied == [ok : BOOLEAN, by : Nat]
Posted == [new : BOOLEAN, must : BOOLEAN]
Called == [at : {"idle", "teardown", "start", "started"}, new : BOOLEAN, must : BOOLEAN]
Dogs == [at : {"gone", "asleep", "looked", "confirmed", "send", "wait"}, saw : BOOLEAN,
         tried : BOOLEAN, key : 0 .. MaxKey, session : Nat]

\* The requesters, and what each is doing.
Requesters == Gens \cup {User}
Doing(r) == IF r = User THEN user ELSE dog[r]

Bounds == MaxKey \in Nat \ {0} /\ MaxGen \in Nat
TypeFiles == /\ keyFile \in Keys /\ newFile \in 0 .. MaxKey /\ lastKey \in Keys
             /\ keyFile <= lastKey /\ newFile <= lastKey
             /\ newFile # 0 => keyFile < newFile
TypeHost == hostKey \in Keys /\ hostWg \in Keys
TypeTunnel == tunnel \in [up : BOOLEAN, key : 0 .. MaxKey, live : BOOLEAN]
TypeWay == /\ outbox \in Seq(Asked) /\ asks \in Seq(Asked) /\ answers \in Seq(Replied)
           /\ slot \subseteq Replied /\ \A a, b \in slot : a = b
TypeMain == /\ main \in Called /\ posts \in Seq(Posted) /\ session \in Nat
            /\ watch \in 0 .. MaxGen
            /\ main.at \in {"start", "started"} => watch < MaxGen
TypeFlags == usingNew \in BOOLEAN /\ service \in BOOLEAN
TypeDogs == /\ user \in Dogs /\ dog \in [Gens -> Dogs]
            /\ \A r \in Requesters : Busy(Doing(r)) => Doing(r).key # 0
TypeCount == count \in [asked : Nat, refusals : Nat, drops : Nat, deaths : Nat]
Typed == /\ Bounds /\ TypeFiles /\ TypeHost /\ TypeTunnel /\ TypeWay /\ TypeMain
         /\ TypeFlags /\ TypeDogs /\ TypeCount

\* A watchdog asks once: of a generation to come there is none, and none of
\* this one before the service has started.  The user asks once.
Once == /\ \A g \in Gens : g > watch => dog[g] = Gone
        /\ main.at \in {"start", "started"} => \A g \in Gens : g >= watch => dog[g] = Gone
        /\ \A g \in Gens : Busy(dog[g]) => dog[g].tried
        /\ user.at # "gone" => count.asked # 0
MayAsk(r) == IF r = User THEN count.asked = 0
             ELSE r > watch \/ (dog[r].at \in {"asleep", "looked", "confirmed"} /\ ~dog[r].tried)


-----------------------------------------------------------------------------
(* Type correctness, one lemma per group of variables.                     *)

\* Nobody but a requester changes the files.
FileChange == \/ UserAsks \/ UserTakes
              \/ \E g \in Gens : DogConfirms(g) \/ DogAsks(g) \/ DogTakes(g)

LEMMA FilesKept == [KeysNext]_keyState => FileChange \/ UNCHANGED files
BY Zenon DEF KeysNext, keyState, files, FileChange, Connects, Teardown, StartTunnel, Started,
   Disconnects, Reconnects, Handshake, Expires, LinkUp, LinkDrops, Drains, HostAnswers,
   HostReloads, AnswerArrives, UserSends, DogLooks, DogSends, DogSwitches, Dies

LEMMA FilesTyped == Typed /\ [KeysNext]_keyState => TypeFiles'
<1> SUFFICES ASSUME Typed, [KeysNext]_keyState PROVE TypeFiles'
  OBVIOUS
<1> USE DEF TypeFiles, Keys
<1>0. Bounds /\ TypeFiles
  BY DEF Typed
<1>1. ASSUME EnsurePending, UNCHANGED keyFile PROVE TypeFiles'
  BY <1>0, <1>1 DEF EnsurePending, Bounds
<1>2. ASSUME Committed \/ CommitFails \/ Discarded \/ Unanswered, UNCHANGED lastKey
      PROVE  TypeFiles'
  BY <1>0, <1>2 DEF Committed, CommitFails, Discarded, Unanswered, Bounds
<1>3. ASSUME UNCHANGED files PROVE TypeFiles'
  BY <1>0, <1>3 DEF files
<1>4. CASE UserAsks
  BY <1>4, <1>1, Zenon DEF UserAsks
<1>5. CASE UserTakes
  BY <1>5, <1>2, Zenon DEF UserTakes
<1>6. ASSUME NEW g \in Gens, DogConfirms(g) PROVE TypeFiles'
  BY <1>6, <1>2, Zenon DEF DogConfirms
<1>7. ASSUME NEW g \in Gens, DogAsks(g) PROVE TypeFiles'
  <2>1. \/ EnsurePending /\ UNCHANGED keyFile
        \/ UNCHANGED <<keyFile, newFile, own, lastKey>>
    BY <1>7, Zenon DEF DogAsks
  <2> QED  BY <2>1, <1>1, <1>3, Zenon DEF files
<1>8. ASSUME NEW g \in Gens, DogTakes(g) PROVE TypeFiles'
  BY <1>8, <1>2, Zenon DEF DogTakes
<1> QED  BY <1>3, <1>4, <1>5, <1>6, <1>7, <1>8, FilesKept, Zenon DEF FileChange

LEMMA HostTyped == Typed /\ [KeysNext]_keyState => TypeHost'
<1> SUFFICES ASSUME Typed, [KeysNext]_keyState PROVE TypeHost'
  OBVIOUS
<1> USE DEF TypeHost
<1>0. TypeHost /\ asks \in Seq(Asked)
  BY DEF Typed, TypeWay
<1>1. CASE HostAnswers
  <2>1. asks # <<>> /\ hostKey' \in {hostKey, Head(asks).key} /\ UNCHANGED hostWg
    BY <1>1, Zenon DEF HostAnswers
  <2>2. Head(asks) \in Asked
    BY <1>0, <2>1, HeadTailProperties
  <2> QED  BY <1>0, <2>1, <2>2 DEF Asked
<1>2. CASE HostReloads
  BY <1>0, <1>2, Zenon DEF HostReloads
<1>3. CASE UNCHANGED far
  BY <1>0, <1>3 DEF far
<1> QED  BY <1>1, <1>2, <1>3, Zenon DEF KeysNext, keyState, far, Connects, Teardown, StartTunnel,
     Started, Disconnects, Reconnects, Handshake, Expires, LinkUp, LinkDrops, Drains,
     AnswerArrives, UserAsks, UserSends, UserTakes, DogLooks, DogConfirms, DogAsks, DogSends,
     DogTakes, DogSwitches, Dies

LEMMA TunnelTyped == Typed /\ [KeysNext]_keyState => TypeTunnel'
<1> SUFFICES ASSUME Typed, [KeysNext]_keyState PROVE TypeTunnel'
  OBVIOUS
<1>0. TypeTunnel /\ TypeFiles /\ Bounds
  BY DEF Typed
<1> USE DEF TypeTunnel
<1>1. ASSUME TornDown PROVE TypeTunnel'
  BY <1>0, <1>1 DEF TornDown, NoTunnel, Bounds
<1>2. CASE StartTunnel
  <2>1. \/ UNCHANGED tunnel
        \/ tunnel' = [up |-> TRUE, key |-> newFile, live |-> FALSE]
        \/ tunnel' = [up |-> TRUE, key |-> keyFile, live |-> FALSE]
    BY <1>2, Zenon DEF StartTunnel
  <2>2. keyFile \in 0 .. MaxKey /\ newFile \in 0 .. MaxKey
    BY <1>0 DEF TypeFiles, Keys, Bounds
  <2>3. ASSUME NEW k \in 0 .. MaxKey
        PROVE  [up |-> TRUE, key |-> k, live |-> FALSE]
                  \in [up : BOOLEAN, key : 0 .. MaxKey, live : BOOLEAN]
    OBVIOUS
  <2> QED  BY <1>0, <2>1, <2>2, <2>3
<1>3. CASE Handshake \/ Expires
  <2>1. \/ tunnel' = [tunnel EXCEPT !.live = TRUE]
        \/ tunnel' = [tunnel EXCEPT !.live = FALSE]
    BY <1>3, Zenon DEF Handshake, Expires
  <2> QED  BY <1>0, <2>1
<1>4. CASE Teardown \/ Disconnects \/ Dies
  BY <1>1, <1>4, Zenon DEF Teardown, Disconnects, Dies
<1>5. CASE UNCHANGED tunnel
  BY <1>0, <1>5
<1> QED  BY <1>2, <1>3, <1>4, <1>5, Zenon DEF KeysNext, keyState, Connects, Started, Reconnects,
     LinkUp, LinkDrops, Drains, HostAnswers, HostReloads, AnswerArrives, UserAsks, UserSends,
     UserTakes, DogLooks, DogConfirms, DogAsks, DogSends, DogTakes, DogSwitches

LEMMA AsksBy ==
    ASSUME Typed, NEW r \in Requesters, Busy(Doing(r))
    PROVE  [key |-> Doing(r).key, by |-> r] \in Asked
<1>1. Doing(r) \in Dogs /\ Doing(r).key # 0 /\ MaxKey \in Nat /\ MaxGen \in Nat
  BY DEF Typed, TypeDogs, Bounds, Doing, Requesters, Gens, User
<1>2. Doing(r).key \in Keys
  BY <1>1 DEF Dogs, Keys
<1>3. r \in Nat
  BY <1>1 DEF Requesters, Gens, User
<1> QED  BY <1>2, <1>3 DEF Asked

LEMMA UserIs == Doing(User) = user /\ User \in Requesters
BY DEF Doing, Requesters

LEMMA DogIs ==
    ASSUME Bounds, NEW g \in Gens
    PROVE  Doing(g) = dog[g] /\ g \in Requesters /\ g # User
BY DEF Doing, Requesters, Gens, User, Bounds

LEMMA WayTyped == Typed /\ [KeysNext]_keyState => TypeWay'
<1> SUFFICES ASSUME Typed, [KeysNext]_keyState PROVE TypeWay'
  OBVIOUS
<1>0. TypeWay /\ Bounds
  BY DEF Typed
<1> USE DEF TypeWay
<1>1. CASE TornDown
  BY <1>0, <1>1 DEF TornDown
<1>2. CASE LinkDrops
  BY <1>0, <1>2 DEF LinkDrops
<1>3. CASE Drains
  <2>1. asks \o outbox \in Seq(Asked)
    BY <1>0, ConcatProperties
  <2> QED  BY <1>0, <1>3, <2>1 DEF Drains
<1>4. CASE HostAnswers
  <2>1. /\ asks # <<>> /\ asks' = Tail(asks) /\ UNCHANGED <<outbox, slot>>
        /\ \/ answers' = Append(answers, [ok |-> TRUE, by |-> Head(asks).by])
           \/ answers' = Append(answers, [ok |-> FALSE, by |-> Head(asks).by])
    BY <1>4, Zenon DEF HostAnswers
  <2>2. Head(asks) \in Asked /\ Tail(asks) \in Seq(Asked)
    BY <1>0, <2>1, HeadTailProperties
  <2>3. /\ [ok |-> TRUE, by |-> Head(asks).by] \in Replied
        /\ [ok |-> FALSE, by |-> Head(asks).by] \in Replied
    BY <2>2 DEF Asked, Replied
  <2>4. \A a \in Replied : Append(answers, a) \in Seq(Replied)
    BY <1>0, AppendProperties
  <2>5. answers' \in Seq(Replied)
    BY <2>1, <2>3, <2>4, Zenon
  <2> QED  BY <1>0, <2>1, <2>2, <2>5
<1>5. CASE AnswerArrives
  <2>1. /\ answers # <<>> /\ slot' = {Head(answers)} /\ answers' = Tail(answers)
        /\ UNCHANGED <<outbox, asks>>
    BY <1>5, Zenon DEF AnswerArrives
  <2>2. Head(answers) \in Replied /\ Tail(answers) \in Seq(Replied)
    BY <1>0, <2>1, HeadTailProperties
  <2> QED  BY <1>0, <2>1, <2>2
<1>6. ASSUME NEW r \in Requesters, Busy(Doing(r)), Sends(Doing(r).key, r), UNCHANGED <<asks, answers>>
      PROVE  TypeWay'
  <2>1. outbox' = Append(outbox, [key |-> Doing(r).key, by |-> r]) /\ slot' = {}
    BY <1>6, Zenon DEF Sends
  <2>2. outbox' \in Seq(Asked)
    BY <1>0, <1>6, <2>1, AsksBy, AppendProperties
  <2> QED  BY <1>0, <1>6, <2>1, <2>2
<1>7. CASE UNCHANGED <<outbox, asks, answers>> /\ slot' \in {slot, {}}
  BY <1>0, <1>7
<1>8. CASE UserSends
  <2>1. \/ Busy(user) /\ Sends(user.key, User) /\ UNCHANGED <<asks, answers>>
        \/ UNCHANGED <<outbox, asks, answers, slot>>
    BY <1>8 DEF UserSends, Busy
  <2> QED  BY <2>1, <1>6, <1>7, UserIs
<1>9. ASSUME NEW g \in Gens, DogSends(g) PROVE TypeWay'
  <2>1. \/ Busy(dog[g]) /\ Sends(dog[g].key, g) /\ UNCHANGED <<asks, answers>>
        \/ UNCHANGED <<outbox, asks, answers, slot>>
    BY <1>9 DEF DogSends, Busy
  <2> QED  BY <1>0, <2>1, <1>6, <1>7, DogIs
<1>10. CASE Teardown \/ Disconnects \/ Dies
  BY <1>1, <1>10, Zenon DEF Teardown, Disconnects, Dies
<1>11. CASE UserTakes
  BY <1>11, <1>7, Zenon DEF UserTakes, channel
<1>12. ASSUME NEW g \in Gens, DogTakes(g) PROVE TypeWay'
  BY <1>12, <1>7, Zenon DEF DogTakes, channel
<1>13. CASE UNCHANGED <<outbox, asks, answers, slot>>
  BY <1>0, <1>13
<1> QED  BY <1>2, <1>3, <1>4, <1>5, <1>8, <1>9, <1>10, <1>11, <1>12, <1>13, Zenon
     DEF KeysNext, keyState, channel, Connects, StartTunnel, Started, Reconnects, Handshake,
     Expires, LinkUp, HostReloads, UserAsks, DogLooks, DogConfirms, DogAsks, DogSwitches

LEMMA FlagsTyped == Typed /\ [KeysNext]_keyState => TypeFlags'
<1> SUFFICES ASSUME Typed, [KeysNext]_keyState PROVE TypeFlags'
  OBVIOUS
<1>0. TypeFlags /\ main.new \in BOOLEAN
  BY DEF Typed, TypeMain, Called
<1>1. CASE TornDown /\ usingNew' \in {usingNew, FALSE}
  BY <1>0, <1>1 DEF TornDown, TypeFlags
<1>2. CASE Started
  BY <1>0, <1>2 DEF Started, TypeFlags
<1>3. CASE UNCHANGED service /\ usingNew' \in {usingNew, FALSE}
  BY <1>0, <1>3, Zenon DEF TypeFlags
<1>4. CASE Teardown \/ Disconnects \/ Dies
  BY <1>4, <1>1 DEF Teardown, Disconnects, Dies
<1> QED  BY <1>2, <1>3, <1>4
     DEF KeysNext, keyState, Connects, StartTunnel, Reconnects, Handshake, Expires, LinkUp,
         LinkDrops, Drains, HostAnswers, HostReloads, AnswerArrives, UserAsks, UserSends,
         UserTakes, DogLooks, DogConfirms, DogAsks, DogSends, DogTakes, DogSwitches

LEMMA MainTyped == Typed /\ [KeysNext]_keyState => TypeMain'
<1> SUFFICES ASSUME Typed, [KeysNext]_keyState PROVE TypeMain'
  OBVIOUS
<1>0. TypeMain /\ MaxGen \in Nat
  BY DEF Typed, Bounds
<1> USE DEF TypeMain
<1>a. Idle \in Called /\ Idle.at = "idle"
  BY DEF Idle, Called
<1>b. /\ [main EXCEPT !.at = "start"] \in Called /\ [main EXCEPT !.at = "start"].at = "start"
      /\ [main EXCEPT !.at = "started"] \in Called
      /\ [main EXCEPT !.at = "started"].at = "started"
  BY <1>0 DEF Called
<1>c. ASSUME NEW b \in BOOLEAN
      PROVE  LET m == [at |-> "teardown", new |-> b, must |-> FALSE]
             IN  m \in Called /\ m.at = "teardown"
  BY DEF Called
<1>1. CASE Connects
  <2>1. /\ posts # <<>> /\ posts' = Tail(posts) /\ UNCHANGED <<session, watch>>
        /\ \/ main' = Idle
           \/ main' = [at |-> "teardown", new |-> Head(posts).new, must |-> FALSE]
    BY <1>1, Zenon DEF Connects
  <2>2. Head(posts) \in Posted /\ Tail(posts) \in Seq(Posted)
    BY <1>0, <2>1, HeadTailProperties
  <2>3. main' \in Called /\ main'.at \in {"idle", "teardown"}
    <3>1. Head(posts).new \in BOOLEAN
      BY <2>2 DEF Posted
    <3> QED  BY <2>1, <3>1, <1>a, <1>c
  <2> QED  BY <1>0, <2>1, <2>2, <2>3
<1>2. CASE Teardown
  <2>1. /\ watch < MaxGen - 1 /\ watch' = watch + 1 /\ main' = [main EXCEPT !.at = "start"]
        /\ UNCHANGED <<session, posts>>
    BY <1>2, Zenon DEF Teardown
  <2> QED  BY <1>0, <1>a, <1>b, <2>1
<1>3. CASE StartTunnel
  <2>1. /\ main.at = "start" /\ UNCHANGED <<watch, posts>>
        /\ \/ main' = Idle /\ UNCHANGED session
           \/ session' = session + 1 /\ main' = [main EXCEPT !.at = "started"]
    BY <1>3, Zenon DEF StartTunnel
  <2> QED  BY <1>0, <1>a, <1>b, <2>1
<1>4. CASE Started
  <2>1. /\ main.at = "started" /\ main' = Idle /\ watch' = watch + 1
        /\ UNCHANGED <<session, posts>>
    BY <1>4, Zenon DEF Started
  <2> QED  BY <1>0, <1>a, <1>b, <2>1
<1>5. CASE Disconnects
  <2>1. /\ main = Idle /\ watch < MaxGen - 1 /\ watch' = watch + 1
        /\ UNCHANGED <<session, main, posts>>
    BY <1>5, Zenon DEF Disconnects
  <2> QED  BY <1>0, <1>a, <1>b, <2>1
<1>6. CASE Reconnects \/ Dies
  <2>1. /\ posts' = <<[new |-> FALSE, must |-> FALSE]>> /\ UNCHANGED <<session, watch>>
        /\ main' = main \/ main' = Idle
    BY <1>6, Zenon DEF Reconnects, Dies
  <2>2. posts' \in Seq(Posted)
    BY <2>1 DEF Posted
  <2> QED  BY <1>0, <1>a, <2>1, <2>2
<1>7. ASSUME NEW c \in Posted, Post(c), UNCHANGED <<session, watch, main>>
      PROVE  TypeMain'
  <2>1. posts' \in Seq(Posted)
    BY <1>0, <1>7, AppendProperties DEF Post
  <2> QED  BY <1>0, <1>7, <2>1
<1>8. CASE UNCHANGED <<session, watch, main, posts>>
  BY <1>0, <1>8
<1>9. CASE UserTakes
  <2>1. [new |-> FALSE, must |-> FALSE] \in Posted
    BY DEF Posted
  <2> QED  BY <1>9, <2>1, <1>7, <1>8, Zenon DEF UserTakes
<1>10. ASSUME NEW g \in Gens, DogTakes(g) PROVE TypeMain'
  <2>1. [new |-> FALSE, must |-> TRUE] \in Posted
    BY DEF Posted
  <2> QED  BY <1>10, <2>1, <1>7, <1>8, Zenon DEF DogTakes
<1>11. ASSUME NEW g \in Gens, DogSwitches(g) PROVE TypeMain'
  <2>1. [new |-> ~usingNew, must |-> TRUE] \in Posted
    BY DEF Typed, TypeFlags, Posted
  <2> QED  BY <1>11, <2>1, <1>7, <1>8, Zenon DEF DogSwitches
<1> QED  BY <1>1, <1>2, <1>3, <1>4, <1>5, <1>6, <1>8, <1>9, <1>10, <1>11, Zenon
     DEF KeysNext, keyState, Handshake, Expires, LinkUp, LinkDrops, Drains, HostAnswers,
     HostReloads, AnswerArrives, UserAsks, UserSends, DogLooks, DogConfirms, DogAsks, DogSends

\* The records a requester may become.
LEMMA DogRecords ==
    ASSUME Bounds, NEW d \in Dogs, NEW k \in 0 .. MaxKey, NEW s \in Nat, NEW b \in BOOLEAN
    PROVE  /\ Gone \in Dogs
           /\ [Gone EXCEPT !.at = "asleep"] \in Dogs
           /\ [Gone EXCEPT !.at = "send", !.key = k, !.session = s] \in Dogs
           /\ [d EXCEPT !.at = "looked", !.saw = b] \in Dogs
           /\ [d EXCEPT !.at = "confirmed"] \in Dogs
           /\ [d EXCEPT !.at = "wait"] \in Dogs
           /\ [d EXCEPT !.at = "asleep"] \in Dogs
           /\ [d EXCEPT !.at = "send", !.tried = TRUE, !.key = k, !.session = s] \in Dogs
           /\ [d EXCEPT !.at = "asleep", !.tried = b] \in Dogs
<1>1. Gone \in Dogs
  BY DEF Gone, Dogs, Bounds
<1>2. ASSUME NEW e \in Dogs
      PROVE  /\ [e EXCEPT !.at = "asleep"] \in Dogs
             /\ [e EXCEPT !.at = "confirmed"] \in Dogs
             /\ [e EXCEPT !.at = "wait"] \in Dogs
             /\ [e EXCEPT !.at = "looked", !.saw = b] \in Dogs
             /\ [e EXCEPT !.at = "asleep", !.tried = b] \in Dogs
             /\ [e EXCEPT !.at = "send", !.key = k, !.session = s] \in Dogs
             /\ [e EXCEPT !.at = "send", !.tried = TRUE, !.key = k, !.session = s] \in Dogs
  BY DEF Dogs
<1> QED  BY <1>1, <1>2

\* One requester changes, to a record of its kind.
LEMMA DogTyped ==
    ASSUME Typed, NEW g \in Gens, NEW new \in Dogs, DogChange(g, new), UNCHANGED user,
           Busy(new) => new.key # 0
    PROVE  TypeDogs'
<1>1. /\ TypeDogs /\ Bounds /\ dog' = [dog EXCEPT ![g] = new]
  BY DEF Typed, DogChange
<1>2. dog' \in [Gens -> Dogs] /\ user' \in Dogs
  BY <1>1 DEF TypeDogs
<1>3. \A r \in Requesters : Busy(Doing(r)') => Doing(r)'.key # 0
  BY <1>1 DEF TypeDogs, Doing, Requesters, Gens, User, Bounds
<1> QED  BY <1>2, <1>3 DEF TypeDogs, Doing

LEMMA DogsTyped == Typed /\ [KeysNext]_keyState => TypeDogs'
<1> SUFFICES ASSUME Typed, [KeysNext]_keyState PROVE TypeDogs'
  OBVIOUS
<1>0. /\ TypeDogs /\ Bounds /\ user \in Dogs /\ (Busy(user) => user.key # 0) /\ session \in Nat
      /\ \A g \in Gens : dog[g] \in Dogs /\ (Busy(dog[g]) => dog[g].key # 0)
      /\ tunnel.live \in BOOLEAN /\ newFile' \in 0 .. MaxKey /\ newFile \in 0 .. MaxKey
  BY FilesTyped, DogIs, UserIs
     DEF Typed, TypeDogs, TypeMain, TypeFiles, TypeTunnel
<1>1. ASSUME NEW new \in Dogs, user' = new, Busy(new) => new.key # 0, UNCHANGED dog PROVE TypeDogs'
  BY <1>0, <1>1 DEF TypeDogs, Doing, Requesters, Gens, User, Bounds
<1>2. ~Busy(Gone) /\ ~Busy([Gone EXCEPT !.at = "asleep"]) /\ 0 \in 0 .. MaxKey
  BY <1>0 DEF Busy, Gone, Bounds
<1>3. CASE Started
  <2>1. dog' = [dog EXCEPT ![watch'] = [Gone EXCEPT !.at = "asleep"]] /\ UNCHANGED user
    BY <1>3, Zenon DEF Started
  <2>2. CASE watch' \in Gens
    BY <1>0, <1>2, <2>1, <2>2, DogRecords, DogTyped DEF DogChange
  <2>3. CASE watch' \notin Gens
    <3>1. UNCHANGED dog
      BY <1>0, <2>1, <2>3 DEF TypeDogs
    <3> QED  BY <1>0, <1>1, <2>1, <3>1
  <2> QED  BY <2>2, <2>3
<1>4. CASE UserAsks
  <2>1. /\ newFile' # 0 /\ user' = [Gone EXCEPT !.at = "send", !.key = newFile', !.session = session]
        /\ UNCHANGED dog
    BY <1>4 DEF UserAsks, EnsurePending, Typed, TypeFiles, Keys, Bounds
  <2>2. [Gone EXCEPT !.at = "send", !.key = newFile', !.session = session].key = newFile'
    BY DEF Gone
  <2>3. [Gone EXCEPT !.at = "send", !.key = newFile', !.session = session] \in Dogs
    BY <1>0, DogRecords
  <2> QED  BY <1>1, <2>1, <2>2, <2>3
<1>5. CASE UserSends
  <2>1. /\ user' = [user EXCEPT !.at = "wait"] \/ user' = Gone
        /\ user.at = "send" /\ UNCHANGED dog
    BY <1>5, Zenon DEF UserSends
  <2>2. [user EXCEPT !.at = "wait"].key = user.key /\ Busy(user)
    BY <1>0, <2>1 DEF Dogs, Busy
  <2> QED  BY <1>0, <1>1, <1>2, <2>1, <2>2, DogRecords
<1>6. CASE UserTakes
  BY <1>0, <1>1, <1>2, <1>6, DogRecords DEF UserTakes
<1>7. ASSUME NEW g \in Gens, DogLooks(g) PROVE TypeDogs'
  <2>1. /\ \/ DogChange(g, Gone)
           \/ DogChange(g, [dog[g] EXCEPT !.at = "looked", !.saw = tunnel.live])
        /\ UNCHANGED user
    BY <1>7, Zenon DEF DogLooks
  <2>2. ~Busy([dog[g] EXCEPT !.at = "looked", !.saw = tunnel.live])
    BY <1>0 DEF Busy, Dogs
  <2> QED  BY <1>0, <1>2, <2>1, <2>2, DogRecords, DogTyped
<1>8. ASSUME NEW g \in Gens, DogConfirms(g) PROVE TypeDogs'
  <2>1. DogChange(g, [dog[g] EXCEPT !.at = "confirmed"]) /\ UNCHANGED user
    BY <1>8, Zenon DEF DogConfirms
  <2>2. ~Busy([dog[g] EXCEPT !.at = "confirmed"])
    BY <1>0 DEF Busy, Dogs
  <2> QED  BY <1>0, <1>2, <2>1, <2>2, DogRecords, DogTyped
<1>9. ASSUME NEW g \in Gens, DogAsks(g) PROVE TypeDogs'
  <2>1. CASE /\ EnsurePending /\ UNCHANGED user
             /\ DogChange(g, [dog[g] EXCEPT !.at = "send", !.tried = TRUE, !.key = newFile',
                                            !.session = session])
    <3>1. newFile' # 0
      BY <2>1 DEF EnsurePending, Typed, TypeFiles, Keys, Bounds
    <3>2. [dog[g] EXCEPT !.at = "send", !.tried = TRUE, !.key = newFile',
                         !.session = session].key = newFile'
      BY <1>0 DEF Dogs
    <3> QED  BY <1>0, <2>1, <3>1, <3>2, DogRecords, DogTyped
  <2>2. CASE /\ DogChange(g, [dog[g] EXCEPT !.at = "asleep", !.tried = @ \/ link])
             /\ UNCHANGED user
    <3>1. (dog[g].tried \/ link) \in BOOLEAN
      OBVIOUS
    <3>2. ~Busy([dog[g] EXCEPT !.at = "asleep", !.tried = @ \/ link])
      BY <1>0 DEF Busy, Dogs
    <3> QED  BY <1>0, <1>2, <2>2, <3>1, <3>2, DogRecords, DogTyped
  <2> QED  BY <1>9, <2>1, <2>2, Zenon DEF DogAsks
<1>10. ASSUME NEW g \in Gens, DogSends(g) PROVE TypeDogs'
  <2>1. /\ \/ DogChange(g, [dog[g] EXCEPT !.at = "wait"])
           \/ DogChange(g, [dog[g] EXCEPT !.at = "asleep"])
        /\ dog[g].at = "send" /\ UNCHANGED user
    BY <1>10, Zenon DEF DogSends
  <2>2. /\ [dog[g] EXCEPT !.at = "wait"].key = dog[g].key /\ Busy(dog[g])
        /\ ~Busy([dog[g] EXCEPT !.at = "asleep"])
    BY <1>0, <2>1 DEF Dogs, Busy
  <2> QED  BY <1>0, <1>2, <2>1, <2>2, DogRecords, DogTyped
<1>11. ASSUME NEW g \in Gens, DogTakes(g) \/ DogSwitches(g) PROVE TypeDogs'
  <2>1. /\ \/ DogChange(g, Gone)
           \/ DogChange(g, [dog[g] EXCEPT !.at = "asleep"])
        /\ UNCHANGED user
    BY <1>11, Zenon DEF DogTakes, DogSwitches
  <2>2. ~Busy([dog[g] EXCEPT !.at = "asleep"])
    BY <1>0 DEF Busy, Dogs
  <2> QED  BY <1>0, <1>2, <2>1, <2>2, DogRecords, DogTyped
<1>12. CASE Dies
  <2>1. dog' = [g \in Gens |-> Gone] /\ user' = Gone /\ Gone \in Dogs
    BY <1>0, <1>12, DogRecords DEF Dies
  <2> QED  BY <1>2, <2>1 DEF TypeDogs, Doing, Requesters
<1>13. CASE UNCHANGED <<dog, user>>
  BY <1>0, <1>13 DEF TypeDogs, Doing
<1> QED  BY <1>3, <1>4, <1>5, <1>6, <1>7, <1>8, <1>9, <1>10, <1>11, <1>12, <1>13, Zenon
     DEF KeysNext, keyState, Connects, Teardown, StartTunnel, Disconnects, Reconnects,
     Handshake, Expires, LinkUp, LinkDrops, Drains, HostAnswers, HostReloads, AnswerArrives

LEMMA CountTyped == Typed /\ [KeysNext]_keyState => TypeCount'
<1> SUFFICES ASSUME Typed, [KeysNext]_keyState PROVE TypeCount'
  OBVIOUS
<1>0. TypeCount
  BY DEF Typed
<1>1. ASSUME \/ count' = [count EXCEPT !.asked = @ + 1] \/ count' = [count EXCEPT !.refusals = @ + 1]
             \/ count' = [count EXCEPT !.drops = @ + 1] \/ count' = [count EXCEPT !.deaths = @ + 1]
             \/ UNCHANGED count
      PROVE  TypeCount'
  BY <1>0, <1>1 DEF TypeCount
<1>2. CASE UserAsks \/ HostAnswers \/ LinkDrops \/ Dies
  BY <1>1, <1>2, Zenon DEF UserAsks, HostAnswers, LinkDrops, Dies
<1> QED  BY <1>1, <1>2, Zenon
     DEF KeysNext, keyState, Connects, Teardown, StartTunnel, Started, Disconnects, Reconnects,
         Handshake, Expires, LinkUp, Drains, HostReloads, AnswerArrives, UserSends, UserTakes,
         DogLooks, DogConfirms, DogAsks, DogSends, DogTakes, DogSwitches

LEMMA TypedStep == Typed /\ [KeysNext]_keyState => Typed'
BY FilesTyped, HostTyped, TunnelTyped, WayTyped, FlagsTyped, MainTyped, DogsTyped, CountTyped,
   Zenon DEF Typed, Bounds

LEMMA TypedInit == Bounds /\ KeysInit => Typed
<1> SUFFICES ASSUME Bounds, KeysInit PROVE Typed
  OBVIOUS
<1>1. /\ keyFile = 1 /\ newFile = 0 /\ lastKey = 1 /\ hostKey = 1 /\ hostWg = 1
      /\ tunnel = [up |-> FALSE, key |-> 0, live |-> FALSE]
      /\ asks = <<>> /\ outbox = <<>> /\ answers = <<>> /\ slot = {}
      /\ session = 0 /\ service = FALSE /\ usingNew = FALSE /\ watch = 0 /\ main = Idle
      /\ posts = <<[new |-> FALSE, must |-> FALSE]>>
      /\ dog = [g \in Gens |-> Gone] /\ user = Gone
      /\ count = [asked |-> 0, refusals |-> 0, drops |-> 0, deaths |-> 0]
  BY DEF KeysInit, NoTunnel
<1>2. TypeFiles /\ TypeHost
  BY <1>1 DEF TypeFiles, TypeHost, Keys, Bounds
<1>3. TypeTunnel
  BY <1>1 DEF TypeTunnel, Bounds
<1>4. TypeWay
  BY <1>1, EmptySeq DEF TypeWay
<1>5. TypeMain
  BY <1>1 DEF TypeMain, Called, Idle, Posted, Bounds
<1>6. TypeFlags
  BY <1>1 DEF TypeFlags
<1>7. TypeDogs
  <2>1. Gone \in Dogs /\ ~Busy(Gone)
    BY DEF Gone, Dogs, Busy, Bounds
  <2> QED  BY <1>1, <2>1 DEF TypeDogs, Doing, Requesters
<1>8. TypeCount
  BY <1>1 DEF TypeCount
<1> QED  BY <1>2, <1>3, <1>4, <1>5, <1>6, <1>7, <1>8 DEF Typed

\* The tunnel, the files, the slot and the generations keep their types.
THEOREM PhoneKeysTyped ==
    ASSUME MaxKey \in Nat \ {0}, MaxGen \in Nat
    PROVE  KeysSpec => []KeysTypeOK
<1>1. Typed => KeysTypeOK
  <2> SUFFICES ASSUME Typed PROVE KeysTypeOK
    OBVIOUS
  <2>1. Cardinality(slot) <= 1
    <3>1. slot = {} \/ \E a \in slot : slot = {a}
      BY DEF Typed, TypeWay
    <3>2. Cardinality({}) = 0
      BY FS_EmptySet, Zenon
    <3>3. \A a : Cardinality({a}) = 1
      BY FS_Singleton, Zenon
    <3>4. Cardinality(slot) = 0 \/ Cardinality(slot) = 1
      BY <3>1, <3>2, <3>3, Zenon
    <3> QED  BY <3>4
  <2> QED  BY <2>1 DEF KeysTypeOK, Typed, TypeFiles, TypeHost, TypeMain, Keys
<1>2. KeysInit => Typed
  BY TypedInit DEF Bounds
<1> QED  BY <1>1, <1>2, TypedStep, PTL DEF KeysSpec

-----------------------------------------------------------------------------
(* Everybody asks once.                                                    *)

OnceInv == Typed /\ Once

LEMMA DogsOnce ==
    ASSUME OnceInv, NEW g \in Gens, dog[g].at # "gone", NEW new \in Dogs, DogChange(g, new),
           Busy(new) => new.tried, UNCHANGED <<watch, main, user>>,
           count.asked # 0 => count'.asked # 0
    PROVE  Once'
<1>1. Once /\ dog \in [Gens -> Dogs] /\ dog' = [dog EXCEPT ![g] = new]
  BY DEF OnceInv, Typed, TypeDogs, DogChange
<1>2. dog[g] # Gone
  BY DEF Gone
<1> QED  BY <1>1, <1>2 DEF Once

LEMMA OnceStep == OnceInv /\ [KeysNext]_keyState => OnceInv'
<1> SUFFICES ASSUME OnceInv, [KeysNext]_keyState PROVE Once'
  BY TypedStep DEF OnceInv
<1>0. /\ Once /\ Bounds /\ session \in Nat /\ watch \in 0 .. MaxGen /\ dog \in [Gens -> Dogs]
      /\ \A g \in Gens : dog[g] \in Dogs
      /\ user \in Dogs /\ tunnel.live \in BOOLEAN
      /\ newFile' \in 0 .. MaxKey /\ newFile \in 0 .. MaxKey /\ 0 \in 0 .. MaxKey
  BY FilesTyped
     DEF OnceInv, Typed, TypeDogs, TypeMain, TypeFiles, TypeTunnel, Bounds
<1>1. ~Busy(Gone) /\ ~Busy([Gone EXCEPT !.at = "asleep"]) /\ Gone.at = "gone"
  BY <1>0 DEF Busy, Gone
<1>2. ASSUME watch' = watch + 1, UNCHANGED <<dog, user, count>> PROVE Once'
  BY <1>0, <1>2 DEF Once, Gens
<1>3. CASE Teardown \/ Disconnects
  BY <1>2, <1>3 DEF Teardown, Disconnects
<1>4. CASE Started
  <2>1. /\ main.at = "started" /\ main' = Idle /\ watch' = watch + 1
        /\ dog' = [dog EXCEPT ![watch'] = [Gone EXCEPT !.at = "asleep"]]
        /\ UNCHANGED <<user, count>>
    BY <1>4, Zenon DEF Started
  <2>2. ASSUME NEW g \in Gens, g # watch' PROVE dog'[g] = dog[g]
    BY <1>0, <2>1, <2>2
  <2>3. ASSUME watch' \in Gens PROVE dog'[watch'] = [Gone EXCEPT !.at = "asleep"]
    BY <1>0, <2>1, <2>3
  <2>4. \A g \in Gens : g > watch' => dog'[g] = Gone
    BY <1>0, <2>1, <2>2 DEF Once, Gens
  <2>5. main'.at = "idle"
    BY <2>1 DEF Idle
  <2>6. \A g \in Gens : Busy(dog'[g]) => dog'[g].tried
    BY <1>0, <1>1, <2>2, <2>3 DEF Once
  <2> QED  BY <1>0, <2>1, <2>4, <2>5, <2>6 DEF Once
<1>5. CASE Connects \/ StartTunnel
  <2>1. /\ UNCHANGED <<dog, user, count, watch>>
        /\ \/ main' = Idle
           \/ main' = [at |-> "teardown", new |-> Head(posts).new, must |-> FALSE]
           \/ main.at = "start"
    BY <1>5, Zenon DEF Connects, StartTunnel
  <2> QED  BY <1>0, <2>1 DEF Once, Idle
<1>6. CASE Dies
  <2>1. /\ dog' = [g \in Gens |-> Gone] /\ user' = Gone
    BY <1>6 DEF Dies
  <2> QED  BY <1>1, <2>1 DEF Once
<1>7. CASE UserAsks
  <2>1. /\ count' = [count EXCEPT !.asked = @ + 1] /\ UNCHANGED <<dog, watch, main>>
    BY <1>7, Zenon DEF UserAsks
  <2>2. count'.asked # 0
    BY <2>1 DEF OnceInv, Typed, TypeCount
  <2> QED  BY <1>0, <2>1, <2>2 DEF Once
<1>8. CASE UserSends \/ UserTakes
  <2>1. /\ user.at # "gone" /\ UNCHANGED <<dog, watch, main, count>>
    BY <1>8 DEF UserSends, UserTakes
  <2> QED  BY <1>0, <2>1 DEF Once
<1>9. ASSUME NEW g \in Gens, DogLooks(g) PROVE Once'
  <2>1. /\ \/ DogChange(g, Gone)
           \/ DogChange(g, [dog[g] EXCEPT !.at = "looked", !.saw = tunnel.live])
        /\ dog[g].at = "asleep" /\ UNCHANGED <<watch, main, user, count>>
    BY <1>9, Zenon DEF DogLooks
  <2>2. ~Busy([dog[g] EXCEPT !.at = "looked", !.saw = tunnel.live])
    BY <1>0 DEF Busy, Dogs
  <2> QED  BY <1>0, <1>1, <2>1, <2>2, DogRecords, DogsOnce
<1>10. ASSUME NEW g \in Gens, DogConfirms(g) PROVE Once'
  <2>1. /\ DogChange(g, [dog[g] EXCEPT !.at = "confirmed"]) /\ dog[g].at = "looked"
        /\ UNCHANGED <<watch, main, user, count>>
    BY <1>10, Zenon DEF DogConfirms
  <2>2. ~Busy([dog[g] EXCEPT !.at = "confirmed"])
    BY <1>0 DEF Busy, Dogs
  <2> QED  BY <1>0, <2>1, <2>2, DogRecords, DogsOnce
<1>11. ASSUME NEW g \in Gens, DogAsks(g) PROVE Once'
  <2>1. dog[g].at # "gone" /\ UNCHANGED <<watch, main, user, count>>
    BY <1>11 DEF DogAsks
  <2>2. \/ DogChange(g, [dog[g] EXCEPT !.at = "send", !.tried = TRUE, !.key = newFile',
                                      !.session = session])
        \/ DogChange(g, [dog[g] EXCEPT !.at = "asleep", !.tried = @ \/ link])
    BY <1>11, Zenon DEF DogAsks
  <2>3. /\ [dog[g] EXCEPT !.at = "send", !.tried = TRUE, !.key = newFile', !.session = session].tried
        /\ ~Busy([dog[g] EXCEPT !.at = "asleep", !.tried = @ \/ link])
        /\ (dog[g].tried \/ link) \in BOOLEAN
    BY <1>0 DEF Busy, Dogs
  <2> QED  BY <1>0, <2>1, <2>2, <2>3, DogRecords, DogsOnce
<1>12. ASSUME NEW g \in Gens, DogSends(g) PROVE Once'
  <2>1. /\ \/ DogChange(g, [dog[g] EXCEPT !.at = "wait"])
           \/ DogChange(g, [dog[g] EXCEPT !.at = "asleep"])
        /\ dog[g].at = "send" /\ UNCHANGED <<watch, main, user, count>>
    BY <1>12, Zenon DEF DogSends
  <2>2. /\ [dog[g] EXCEPT !.at = "wait"].tried /\ ~Busy([dog[g] EXCEPT !.at = "asleep"])
    BY <1>0, <2>1 DEF Once, Dogs, Busy
  <2> QED  BY <1>0, <2>1, <2>2, DogRecords, DogsOnce
<1>13. ASSUME NEW g \in Gens, DogTakes(g) \/ DogSwitches(g) PROVE Once'
  <2>1. /\ \/ DogChange(g, Gone)
           \/ DogChange(g, [dog[g] EXCEPT !.at = "asleep"])
        /\ dog[g].at \in {"wait", "looked"} /\ UNCHANGED <<watch, main, user, count>>
    BY <1>13, Zenon DEF DogTakes, DogSwitches
  <2>2. ~Busy([dog[g] EXCEPT !.at = "asleep"])
    BY <1>0 DEF Busy, Dogs
  <2> QED  BY <1>0, <1>1, <2>1, <2>2, DogRecords, DogsOnce
<1>14. CASE LinkDrops \/ HostAnswers
  <2>1. /\ UNCHANGED <<dog, user, watch, main>>
        /\ \/ UNCHANGED count \/ count' = [count EXCEPT !.drops = @ + 1]
           \/ count' = [count EXCEPT !.refusals = @ + 1]
    BY <1>14, Zenon DEF LinkDrops, HostAnswers
  <2>2. count'.asked = count.asked
    BY <2>1 DEF OnceInv, Typed, TypeCount
  <2> QED  BY <1>0, <2>1, <2>2 DEF Once
<1>15. CASE UNCHANGED <<dog, user, watch, main, count>>
  BY <1>0, <1>15 DEF Once
<1> QED  BY <1>3, <1>4, <1>5, <1>6, <1>7, <1>8, <1>9, <1>10, <1>11, <1>12, <1>13, <1>14, <1>15,
     Zenon DEF KeysNext, keyState, Reconnects, Handshake, Expires, LinkUp, Drains, HostReloads,
     AnswerArrives

-----------------------------------------------------------------------------
(* What is under way.                                                      *)

\* One asks at a time.
OneAsks == \A r, q \in Requesters : Busy(Doing(r)) /\ Busy(Doing(q)) => r = q

\* A request under way is for one of the two keys, and none goes back behind
\* the key the host has.
Fits(ask) == ask.key \in {keyFile, newFile} /\ hostKey <= ask.key
WayFits ==
    /\ \A i \in DOMAIN asks : Fits(asks[i])
    /\ \A i \in DOMAIN outbox : Fits(outbox[i])
    /\ \A i, j \in DOMAIN asks : i <= j => asks[i].key <= asks[j].key
    /\ \A i, j \in DOMAIN outbox : i <= j => outbox[i].key <= outbox[j].key
    /\ \A i \in DOMAIN asks, j \in DOMAIN outbox : asks[i].key <= outbox[j].key

\* A tunnel that works, and the one the current watchdog saw working, has no
\* key later than the host's.
Seen ==
    /\ hostWg <= hostKey
    /\ tunnel.live => tunnel.key <= hostKey
    /\ \A g \in Gens : dog[g].at \in {"looked", "confirmed"} /\ dog[g].saw /\ ~Retired(g)
                       => tunnel.key <= hostKey

\* The key a busy requester asks for is pending, or was confirmed meanwhile.
Carries(r) == \/ newFile = Doing(r).key
              \/ newFile = 0 /\ keyFile = Doing(r).key
\* What an answer says is still so.
Told(a) == newFile # 0 => hostKey = IF a.ok THEN newFile ELSE keyFile
\* Nothing of r is under way,
Nothing(r) ==
    /\ \A i \in DOMAIN outbox : outbox[i].by # r
    /\ \A i \in DOMAIN asks : asks[i].by # r
    /\ \A i \in DOMAIN answers : answers[i].by # r
    /\ \A a \in slot : a.by # r
\* or what is, is the last.
Latest(r) ==
    /\ \A i \in DOMAIN outbox :
          outbox[i].by = r => i = Len(outbox) /\ outbox[i].key = Doing(r).key
    /\ \A i \in DOMAIN asks :
          asks[i].by = r => i = Len(asks) /\ outbox = <<>> /\ asks[i].key = Doing(r).key
    /\ \A i \in DOMAIN answers :
          answers[i].by = r => /\ i = Len(answers) /\ asks = <<>> /\ outbox = <<>>
                               /\ Told(answers[i])
    /\ \A a \in slot :
          a.by = r => answers = <<>> /\ asks = <<>> /\ outbox = <<>> /\ Told(a)
Orderly(r) ==
    /\ Busy(Doing(r)) => Carries(r)
    /\ MayAsk(r) \/ Doing(r).at = "send" => Nothing(r)
    /\ Doing(r).at = "wait" => Latest(r)

Sound == /\ OneAsks /\ WayFits /\ Seen /\ hostKey \in {keyFile, newFile}
         /\ \A r \in Requesters : Orderly(r)

SoundIf == ~misled => Sound

\* What the steps do to the files and the way, with r the requester.
way == <<outbox, asks, answers, slot>>
key == <<keyFile, newFile, hostKey, hostWg, tunnel>>
OthersSame(r) == /\ UNCHANGED <<watch, service>>
                 /\ \A q \in Requesters \ {r} :
                       /\ Doing(q)' = Doing(q)
                       /\ MayAsk(q)' => MayAsk(q)
AsksStep(r) ==
    /\ MayAsk(r) /\ EnsurePending /\ OthersSame(r) /\ ~MayAsk(r)'
    /\ Doing(r)'.at = "send" /\ Doing(r)'.key = newFile'
    /\ ~misled' => ~misled /\ \A q \in Requesters \ {r} : ~Busy(Doing(q))
    /\ UNCHANGED <<keyFile, hostKey, hostWg, tunnel, way>>
SendsStep(r) ==
    /\ Doing(r).at = "send" /\ Doing(r)'.at = "wait" /\ Doing(r)'.key = Doing(r).key
    /\ Sends(Doing(r).key, r) /\ OthersSame(r) /\ ~MayAsk(r)'
    /\ UNCHANGED <<key, asks, answers, misled>>
TakesStep(r) ==
    /\ Doing(r).at = "wait" /\ Doing(r)'.at \in {"gone", "asleep"} /\ ~MayAsk(r)'
    /\ OthersSame(r) /\ slot' = {}
    /\ \E a \in slot : /\ ~misled' => ~misled /\ a.by = r
                       /\ \/ a.ok /\ Committed
                          \/ a.ok /\ CommitFails
                          \/ ~a.ok /\ Discarded
    /\ UNCHANGED <<hostKey, hostWg, tunnel, outbox, asks, answers>>

\* The watchdogs saw nothing new.
LEMMA SeenKeeps ==
    ASSUME OnceInv, Seen, NEW r \in Requesters, OthersSame(r), UNCHANGED <<hostKey, hostWg, tunnel>>,
           Doing(r)'.at \notin {"looked", "confirmed"}
    PROVE  Seen'
<1>1. ASSUME NEW g \in Gens, g # r PROVE dog'[g] = dog[g]
  <2>1. Doing(g)' = Doing(g)
    BY <1>1 DEF OthersSame, Requesters
  <2> QED  BY <2>1, DogIs DEF Doing, OnceInv, Typed
<1>2. ASSUME NEW g \in Gens, g = r PROVE dog'[g].at \notin {"looked", "confirmed"}
  BY <1>2, DogIs DEF Doing, OnceInv, Typed
<1>3. \A g \in Gens : Retired(g)' <=> Retired(g)
  BY DEF OthersSame, Retired
<1> QED  BY <1>1, <1>2, <1>3 DEF Seen

LEMMA AsksKeep ==
    ASSUME OnceInv, SoundIf, NEW r \in Requesters, AsksStep(r)
    PROVE  SoundIf'
<1> SUFFICES ASSUME ~misled' PROVE Sound'
  BY Zenon DEF SoundIf
<1>0. /\ Sound /\ \A q \in Requesters \ {r} : ~Busy(Doing(q))
      /\ \A q \in Requesters \ {r} : Doing(q)' = Doing(q) /\ (MayAsk(q)' => MayAsk(q))
      /\ MayAsk(r) /\ ~MayAsk(r)' /\ Doing(r)'.at = "send" /\ Doing(r)'.key = newFile'
      /\ UNCHANGED <<keyFile, hostKey, hostWg, tunnel, outbox, asks, answers, slot>>
  BY Zenon DEF SoundIf, AsksStep, OthersSame, way
<1>1. /\ TypeFiles /\ TypeHost /\ TypeWay
      /\ (newFile' = newFile \/ newFile = 0) /\ newFile' # 0
  BY DEF OnceInv, Typed, AsksStep, EnsurePending, TypeFiles, Keys, Bounds
<1>2. OneAsks'
  BY <1>0 DEF OneAsks, Busy
<1>3. WayFits'
  <2>1. ASSUME NEW a \in Asked, Fits(a) PROVE Fits(a)'
    BY <1>0, <1>1, <2>1 DEF Fits, Asked, Keys
  <2>2. /\ \A i \in DOMAIN asks : asks[i] \in Asked
        /\ \A i \in DOMAIN outbox : outbox[i] \in Asked
    BY <1>1 DEF TypeWay
  <2> QED  BY <1>0, <2>1, <2>2 DEF Sound, WayFits
<1>4. Seen'
  BY <1>0, SeenKeeps DEF Sound, AsksStep
<1>5. hostKey' \in {keyFile, newFile}'
  BY <1>0, <1>1 DEF Sound, TypeHost, Keys
<1>6. ASSUME NEW q \in Requesters PROVE Orderly(q)'
  <2>1. CASE q = r
    BY <1>0, <2>1 DEF Sound, Orderly, Carries, Nothing
  <2>2. CASE q # r
    <3>1. ~Busy(Doing(q)') /\ (MayAsk(q)' => Nothing(q))
      BY <1>0, <2>2 DEF Sound, Orderly
    <3> QED  BY <1>0, <3>1 DEF Orderly, Nothing, Busy
  <2> QED  BY <2>1, <2>2
<1> QED  BY <1>2, <1>3, <1>4, <1>5, <1>6 DEF Sound

LEMMA SendsKeep ==
    ASSUME OnceInv, SoundIf, NEW r \in Requesters, SendsStep(r)
    PROVE  SoundIf'
<1> SUFFICES ASSUME ~misled' PROVE Sound'
  BY Zenon DEF SoundIf
<1> DEFINE k == Doing(r).key
           a == [key |-> k, by |-> r]
<1>0. /\ Sound /\ Doing(r).at = "send" /\ Doing(r)'.at = "wait" /\ Doing(r)'.key = k
      /\ \A q \in Requesters \ {r} : Doing(q)' = Doing(q) /\ (MayAsk(q)' => MayAsk(q))
      /\ ~MayAsk(r)' /\ outbox' = Append(outbox, a) /\ slot' = {}
      /\ UNCHANGED <<keyFile, newFile, hostKey, hostWg, tunnel, asks, answers>>
  BY Zenon DEF SoundIf, SendsStep, OthersSame, Sends, key
<1>1. /\ TypeFiles /\ TypeHost /\ TypeWay /\ Busy(Doing(r)) /\ a \in Asked
  BY <1>0, AsksBy DEF OnceInv, Typed, Busy
<1>2. k \in Keys /\ Carries(r) /\ Nothing(r) /\ a.key = k /\ a.by = r
  BY <1>0, <1>1 DEF Sound, Orderly, Asked
<1>3. /\ DOMAIN outbox = 1 .. Len(outbox) /\ DOMAIN outbox' = 1 .. Len(outbox) + 1
      /\ Len(outbox) \in Nat /\ Len(outbox') = Len(outbox) + 1
      /\ \A i \in DOMAIN outbox : outbox'[i] = outbox[i]
      /\ outbox'[Len(outbox) + 1] = a
      /\ \A i \in DOMAIN outbox : outbox[i] \in Asked
      /\ \A i \in DOMAIN asks : asks[i] \in Asked
  BY <1>0, <1>1, AppendProperties, LenProperties DEF TypeWay
<1> HIDE DEF k, a
<1>4. /\ hostKey <= k /\ k \in {keyFile, newFile}
      /\ \A b \in Asked : Fits(b) => b.key <= k
  BY <1>0, <1>1, <1>2 DEF Sound, Carries, k, TypeFiles, TypeHost, Keys, Asked, Fits
<1>5. OneAsks'
  BY <1>0 DEF Sound, OneAsks, Busy
<1>6. WayFits'
  <2>1. \A i \in DOMAIN outbox' : i \in DOMAIN outbox \/ (outbox'[i] = a /\ i = Len(outbox) + 1)
    BY <1>3
  <2>2. \A b : Fits(b)' <=> Fits(b)
    BY <1>0 DEF Fits
  <2>3. Fits(a)
    BY <1>2, <1>4 DEF Fits
  <2>4. \A i \in DOMAIN outbox' : Fits(outbox'[i])
    BY <1>0, <1>3, <2>1, <2>3 DEF Sound, WayFits
  <2>5. \A i, j \in DOMAIN outbox' : i <= j => outbox'[i].key <= outbox'[j].key
    <3> SUFFICES ASSUME NEW i \in DOMAIN outbox', NEW j \in DOMAIN outbox', i <= j
                 PROVE  outbox'[i].key <= outbox'[j].key
      OBVIOUS
    <3>1. CASE j \in DOMAIN outbox
      BY <1>0, <1>3, <3>1 DEF Sound, WayFits
    <3>2. CASE j \notin DOMAIN outbox
      <4>1. outbox'[j] = a
        BY <2>1, <3>2
      <4>2. outbox'[i] \in Asked /\ Fits(outbox'[i])
        BY <1>1, <1>3, <2>1, <2>4
      <4> QED  BY <1>2, <1>4, <4>1, <4>2
    <3> QED  BY <3>1, <3>2
  <2>6. \A i \in DOMAIN asks, j \in DOMAIN outbox' : asks[i].key <= outbox'[j].key
    BY <1>0, <1>2, <1>3, <1>4, <2>1 DEF Sound, WayFits
  <2>7. WayFits => /\ \A i \in DOMAIN asks : Fits(asks[i])
                   /\ \A i, j \in DOMAIN asks : i <= j => asks[i].key <= asks[j].key
    BY Zenon DEF WayFits
  <2> QED  BY <1>0, <2>2, <2>4, <2>5, <2>6, <2>7 DEF Sound, WayFits
<1>7. Seen'
  BY <1>0, SeenKeeps DEF Sound, SendsStep
<1>8. ASSUME NEW q \in Requesters PROVE Orderly(q)'
  <2>1. CASE q = r
    <3>1. Carries(r)'
      BY <1>0, <1>2 DEF Carries, k
    <3>2. Latest(r)'
      BY <1>0, <1>2, <1>3 DEF Nothing, Latest
    <3> QED  BY <1>0, <2>1, <3>1, <3>2 DEF Orderly
  <2>2. CASE q # r
    <3>1. ~Busy(Doing(q)') /\ (MayAsk(q)' => Nothing(q))
      BY <1>0, <1>1, <2>2 DEF Sound, Orderly, OneAsks
    <3>2. Nothing(q) => Nothing(q)'
      BY <1>0, <1>2, <1>3, <2>2 DEF Nothing
    <3> QED  BY <3>1, <3>2 DEF Orderly, Busy
  <2> QED  BY <2>1, <2>2
<1> QED  BY <1>0, <1>5, <1>6, <1>7, <1>8 DEF Sound

\* Where the files, the host's key and what is under way stay, requesters may
\* stop asking.
LEMMA WayKept ==
    ASSUME Sound, UNCHANGED <<keyFile, newFile, hostKey>>, UNCHANGED way, Seen',
           \A q \in Requesters : /\ Doing(q)' = Doing(q) \/ ~Busy(Doing(q)')
                                 /\ MayAsk(q)' => MayAsk(q)
    PROVE  Sound'
<1>0. UNCHANGED <<outbox, asks, answers, slot>>
  BY DEF way
<1>1. OneAsks'
  BY DEF Sound, OneAsks
<1>2. WayFits' /\ hostKey' \in {keyFile, newFile}'
  BY <1>0 DEF Sound, WayFits, Fits
<1>3. ASSUME NEW q \in Requesters PROVE Orderly(q)'
  BY <1>0, <1>3 DEF Sound, Orderly, Carries, Nothing, Latest, Told, Busy
<1> QED  BY <1>1, <1>2, <1>3 DEF Sound

\* Where the way is emptied, nothing binds who still waits.
LEMMA WayEmptied ==
    ASSUME Sound, UNCHANGED <<keyFile, newFile, hostKey>>, Seen',
           outbox' = <<>>, asks' = <<>>, answers' = <<>>, slot' = {},
           \A q \in Requesters : Doing(q)' = Doing(q) \/ ~Busy(Doing(q)')
    PROVE  Sound'
<1>1. OneAsks'
  BY DEF Sound, OneAsks
<1>2. WayFits' /\ hostKey' \in {keyFile, newFile}'
  BY DEF Sound, WayFits
<1>3. ASSUME NEW q \in Requesters PROVE Orderly(q)'
  BY <1>3 DEF Sound, Orderly, Carries, Nothing, Latest, Busy
<1> QED  BY <1>1, <1>2, <1>3 DEF Sound

\* An answer taken by the one it is for tells what the host has: the request
\* was the last.
LEMMA TakesKeep ==
    ASSUME OnceInv, SoundIf, NEW r \in Requesters, TakesStep(r)
    PROVE  SoundIf'
<1> SUFFICES ASSUME ~misled' PROVE Sound'
  BY Zenon DEF SoundIf
<1>0. /\ Sound /\ Doing(r).at = "wait" /\ Doing(r)'.at \in {"gone", "asleep"}
      /\ \A q \in Requesters \ {r} : Doing(q)' = Doing(q) /\ (MayAsk(q)' => MayAsk(q))
      /\ ~MayAsk(r)' /\ slot' = {}
      /\ UNCHANGED <<hostKey, hostWg, tunnel, outbox, asks, answers>>
  BY Zenon DEF SoundIf, TakesStep, OthersSame
<1>1. PICK a \in slot : /\ a.by = r
                        /\ \/ a.ok /\ Committed
                           \/ a.ok /\ CommitFails
                           \/ ~a.ok /\ Discarded
  BY DEF TakesStep
<1>2. outbox = <<>> /\ asks = <<>> /\ answers = <<>> /\ Told(a)
  BY <1>0, <1>1 DEF Sound, Orderly, Latest
<1>3. hostKey' \in {keyFile, newFile}'
  BY <1>0, <1>1, <1>2
     DEF Sound, Told, Committed, CommitFails, Discarded, OnceInv, Typed, TypeHost, Keys
<1>4. WayFits'
  BY <1>0, <1>2 DEF WayFits
<1>5. Seen'
  BY <1>0, SeenKeeps DEF Sound, TakesStep
<1>6. ASSUME NEW q \in Requesters PROVE ~Busy(Doing(q))'
  BY <1>0 DEF Sound, OneAsks, Busy
<1>7. OneAsks'
  BY <1>6 DEF OneAsks
<1>8. ASSUME NEW q \in Requesters PROVE Orderly(q)'
  BY <1>0, <1>2, <1>6, <1>8 DEF Orderly, Nothing, Busy
<1> QED  BY <1>3, <1>4, <1>5, <1>7, <1>8 DEF Sound

LEMMA HostAnswersKeeps == OnceInv /\ SoundIf /\ HostAnswers => SoundIf'
<1> SUFFICES ASSUME OnceInv, SoundIf, HostAnswers, ~misled' PROVE Sound'
  BY Zenon DEF SoundIf
<1> DEFINE q == Head(asks)
           said == answers'[Len(answers) + 1]
<1>0. /\ Sound /\ asks # <<>> /\ asks' = Tail(asks)
      /\ \/ hostKey' = q.key /\ answers' = Append(answers, [ok |-> TRUE, by |-> q.by])
         \/ /\ hostKey' = hostKey /\ hostKey # q.key
            /\ answers' = Append(answers, [ok |-> FALSE, by |-> q.by])
      /\ UNCHANGED <<keyFile, newFile, hostWg, tunnel, outbox, slot, dog, user, watch, service>>
      /\ count'.asked = count.asked
  <2>1. /\ ~misled /\ asks # <<>> /\ asks' = Tail(asks)
        /\ \/ hostKey' = q.key /\ answers' = Append(answers, [ok |-> TRUE, by |-> q.by])
           \/ /\ hostKey' = hostKey /\ ~(q.key = hostKey)
              /\ answers' = Append(answers, [ok |-> FALSE, by |-> q.by])
    <3>1. /\ asks # <<>> /\ asks' = Tail(asks)
          /\ \/ /\ hostKey' = q.key /\ answers' = Append(answers, [ok |-> TRUE, by |-> q.by])
                /\ misled' = misled
             \/ /\ answers' = Append(answers, [ok |-> FALSE, by |-> q.by])
                /\ misled' = (misled \/ q.key = hostKey) /\ hostKey' = hostKey
      BY DEF HostAnswers
    <3>2. ASSUME misled' = (misled \/ q.key = hostKey) PROVE ~misled /\ ~(q.key = hostKey)
      BY <3>2, Zenon
    <3> QED  BY <3>1, <3>2, Zenon
  <2>2. count'.asked = count.asked
    BY DEF HostAnswers, OnceInv, Typed, TypeCount
  <2>3. UNCHANGED <<keyFile, newFile, hostWg, tunnel, outbox, slot, dog, user, watch, service>>
    BY Zenon DEF HostAnswers, files
  <2> QED  BY <2>1, <2>2, <2>3, Zenon DEF SoundIf
<1>1. /\ TypeFiles /\ TypeHost /\ TypeWay /\ q \in Asked
  BY <1>0, HeadTailProperties DEF OnceInv, Typed, TypeWay
<1>2. /\ q = asks[1] /\ DOMAIN asks = 1 .. Len(asks) /\ Len(asks) \in Nat \ {0}
      /\ DOMAIN asks' = 1 .. Len(asks) - 1 /\ Len(asks') = Len(asks) - 1
      /\ \A i \in DOMAIN asks' : i + 1 \in DOMAIN asks /\ asks'[i] = asks[i + 1]
      /\ \A i \in DOMAIN asks : asks[i] \in Asked
      /\ \A i \in DOMAIN outbox : outbox[i] \in Asked
  <2>1. /\ Len(asks) \in Nat \ {0} /\ DOMAIN asks = 1 .. Len(asks)
        /\ Tail(asks) \in Seq(Asked) /\ Len(Tail(asks)) = Len(asks) - 1
        /\ \A i \in 1 .. Len(Tail(asks)) : Tail(asks)[i] = asks[i + 1]
    BY <1>0, <1>1, HeadTailProperties, EmptySeq, LenProperties DEF TypeWay
  <2>2. DOMAIN Tail(asks) = 1 .. Len(asks) - 1
    BY <2>1, LenProperties
  <2> QED  BY <1>0, <1>1, <2>1, <2>2 DEF TypeWay
<1>3. /\ answers' \in Seq(Replied) /\ Len(answers') = Len(answers) + 1 /\ Len(answers) \in Nat
      /\ DOMAIN answers = 1 .. Len(answers) /\ DOMAIN answers' = 1 .. Len(answers) + 1
      /\ \A i \in DOMAIN answers : answers'[i] = answers[i]
      /\ said.by = q.by
      /\ \/ said.ok /\ hostKey' = q.key
         \/ ~said.ok /\ hostKey' = hostKey /\ hostKey # q.key
  <2>1. /\ [ok |-> TRUE, by |-> q.by] \in Replied /\ [ok |-> FALSE, by |-> q.by] \in Replied
    BY <1>1 DEF Asked, Replied
  <2>2. ASSUME NEW a \in Replied, answers' = Append(answers, a)
        PROVE  /\ answers' \in Seq(Replied) /\ Len(answers') = Len(answers) + 1 /\ Len(answers) \in Nat
               /\ DOMAIN answers = 1 .. Len(answers) /\ DOMAIN answers' = 1 .. Len(answers) + 1
               /\ \A i \in DOMAIN answers : answers'[i] = answers[i]
               /\ said = a
    BY <1>1, <2>2, AppendProperties, LenProperties DEF TypeWay
  <2> QED  BY <1>0, <2>1, <2>2
<1> HIDE DEF q, said
<1>4. Fits(q) /\ hostKey <= hostKey' /\ hostKey' <= q.key
  BY <1>0, <1>1, <1>2, <1>3 DEF Sound, WayFits, Fits, TypeHost, Asked, Keys
<1>5. hostKey' \in {keyFile, newFile}'
  BY <1>0, <1>4 DEF Sound, Fits
<1>6. WayFits'
  <2>1. ASSUME NEW a \in Asked, Fits(a), q.key <= a.key
        PROVE  a.key \in {keyFile', newFile'} /\ hostKey' <= a.key
    BY <1>0, <1>1, <1>4, <2>1 DEF Fits, Asked, Keys, TypeHost
  <2>2. \A i \in DOMAIN asks : Fits(asks[i]) /\ q.key <= asks[i].key
    BY <1>0, <1>2 DEF Sound, WayFits
  <2>3. \A i \in DOMAIN outbox : Fits(outbox[i]) /\ q.key <= outbox[i].key
    BY <1>0, <1>2 DEF Sound, WayFits
  <2>4. (\A i \in DOMAIN asks : Fits(asks[i]))'
    BY <1>2, <2>1, <2>2 DEF Fits
  <2>5. (\A i \in DOMAIN outbox : Fits(outbox[i]))'
    BY <1>0, <1>2, <2>1, <2>3 DEF Fits
  <2>6. \A i, j \in DOMAIN asks' : i <= j => asks'[i].key <= asks'[j].key
    <3>1. \A i, j \in DOMAIN asks' : i <= j => i + 1 <= j + 1
      BY <1>2
    <3> QED  BY <1>0, <1>2, <3>1 DEF Sound, WayFits
  <2>7. \A i \in DOMAIN asks', j \in DOMAIN outbox' : asks'[i].key <= outbox'[j].key
    BY <1>0, <1>2 DEF Sound, WayFits
  <2>8. \A i, j \in DOMAIN outbox' : i <= j => outbox'[i].key <= outbox'[j].key
    BY <1>0 DEF Sound, WayFits
  <2> QED  BY <2>4, <2>5, <2>6, <2>7, <2>8 DEF WayFits
<1>7. Seen'
  <2>1. /\ \A g \in Gens : Retired(g)' <=> Retired(g)
        /\ hostWg \in Nat /\ hostKey \in Nat /\ hostKey' \in Nat /\ tunnel.key \in Nat
    BY <1>0, <1>1, <1>3 DEF Retired, TypeHost, TypeTunnel, OnceInv, Typed, Keys, Asked, Bounds
  <2> QED  BY <1>0, <1>4, <2>1 DEF Sound, Seen
<1>8. /\ \A r \in Requesters : Doing(r)' = Doing(r) /\ (MayAsk(r)' => MayAsk(r))
      /\ OneAsks'
  BY <1>0 DEF Doing, MayAsk, Sound, OneAsks
<1>9. ASSUME NEW r \in Requesters PROVE Orderly(r)'
  <2>0. Orderly(r) /\ Doing(r)' = Doing(r) /\ (MayAsk(r)' => MayAsk(r))
    BY <1>0, <1>8 DEF Sound
  <2>1. Carries(r) => Carries(r)'
    BY <1>0, <2>0 DEF Carries
  <2>2. ASSUME Nothing(r) PROVE Nothing(r)'
    <3>1. \A i \in DOMAIN asks' : asks'[i].by # r
      BY <1>2, <2>2 DEF Nothing
    <3>2. \A i \in DOMAIN answers' : answers'[i].by # r
      <4>1. q.by # r
        BY <1>2, <2>2 DEF Nothing
      <4>2. \A i \in DOMAIN answers' : i \in DOMAIN answers \/ answers'[i] = said
        BY <1>3 DEF said
      <4> QED  BY <1>3, <2>2, <4>1, <4>2 DEF Nothing
    <3> QED  BY <1>0, <2>2, <3>1, <3>2 DEF Nothing
  <2>3. ASSUME Doing(r).at = "wait", q.by = r PROVE Latest(r)'
    <3>1. Latest(r) /\ Carries(r)
      BY <2>0, <2>3 DEF Orderly, Busy
    <3>2. Len(asks) = 1 /\ outbox = <<>> /\ q.key = Doing(r).key
      BY <1>2, <2>3, <3>1 DEF Latest
    <3>3. DOMAIN asks' = {} /\ asks' = <<>>
      <4>1. Len(Tail(asks)) = 0 /\ Tail(asks) \in Seq(Asked)
        BY <1>0, <1>1, <1>2, <3>2, HeadTailProperties DEF TypeWay
      <4> QED  BY <1>0, <4>1, EmptySeq
    <3>4. (newFile # 0) => hostKey' = IF said.ok THEN newFile ELSE keyFile
      BY <1>0, <1>3, <3>1, <3>2 DEF Carries, Sound
    <3>5. \A i \in DOMAIN answers' : answers'[i].by = r => i = Len(answers') /\ answers'[i] = said
      <4>1. \A i \in DOMAIN answers : answers[i].by # r
        BY <1>0, <3>1 DEF Latest
      <4>2. \A i \in DOMAIN answers' : i \in DOMAIN answers \/ (i = Len(answers') /\ answers'[i] = said)
        BY <1>3 DEF said
      <4> QED  BY <1>3, <4>1, <4>2
    <3>6. \A a \in slot : a.by # r
      BY <1>0, <3>1 DEF Latest
    <3>7. outbox' = <<>> /\ DOMAIN outbox' = {} /\ slot' = slot /\ newFile' = newFile /\ keyFile' = keyFile
      BY <1>0, <3>2
    <3>8. \A a : a = said => Told(a)'
      BY <3>4, <3>7 DEF Told
    <3> QED  BY <3>3, <3>5, <3>6, <3>7, <3>8 DEF Latest
  <2>4. ASSUME Doing(r).at = "wait", q.by # r PROVE Latest(r)'
    <3>1. Latest(r)
      BY <2>0, <2>4 DEF Orderly
    <3>2. (\A i \in DOMAIN answers : answers[i].by # r) /\ (\A a \in slot : a.by # r)
      BY <1>0, <3>1 DEF Latest
    <3>3. \A i \in DOMAIN answers' : answers'[i].by # r
      <4>2. \A i \in DOMAIN answers' : i \in DOMAIN answers \/ answers'[i] = said
        BY <1>3 DEF said
      <4> QED  BY <1>3, <2>4, <3>2, <4>2
    <3>4. \A i \in DOMAIN asks' : asks'[i].by = r => i = Len(asks') /\ outbox = <<>> /\ asks'[i].key = Doing(r).key
      <4>1. \A i \in DOMAIN asks' : i + 1 = Len(asks) => i = Len(asks')
        BY <1>2
      <4> QED  BY <1>2, <3>1, <4>1 DEF Latest
    <3> QED  BY <1>0, <2>0, <3>1, <3>2, <3>3, <3>4 DEF Latest
  <2> QED  BY <2>0, <2>1, <2>2, <2>3, <2>4 DEF Orderly
<1> QED  BY <1>5, <1>6, <1>7, <1>8, <1>9 DEF Sound

\* The steps of the wire keep the order of what is under way.
Unmoved == UNCHANGED <<keyFile, newFile, hostKey, hostWg, tunnel, dog, user, watch, service>>

LEMMA UnmovedKeeps ==
    ASSUME OnceInv, Sound, Unmoved, count'.asked = count.asked
    PROVE  /\ OneAsks' /\ Seen' /\ hostKey' \in {keyFile, newFile}'
           /\ \A r \in Requesters : /\ Doing(r)' = Doing(r) /\ (MayAsk(r)' <=> MayAsk(r))
                                    /\ Carries(r)' <=> Carries(r)
           /\ \A a : Told(a)' <=> Told(a)
           /\ \A a : Fits(a)' <=> Fits(a)
<1>1. Seen' /\ OneAsks' /\ hostKey' \in {keyFile, newFile}'
  BY DEF Sound, Unmoved, Seen, Retired, OneAsks, Doing
<1> QED  BY <1>1 DEF Unmoved, Doing, MayAsk, Carries, Told, Fits

LEMMA DrainsKeeps == OnceInv /\ SoundIf /\ Drains => SoundIf'
<1> SUFFICES ASSUME OnceInv, SoundIf, Drains, ~misled' PROVE Sound'
  BY Zenon DEF SoundIf
<1>0. /\ Sound /\ Unmoved /\ asks' = asks \o outbox /\ outbox' = <<>> /\ outbox # <<>>
      /\ UNCHANGED <<answers, slot, count>>
  BY Zenon DEF SoundIf, Drains, Unmoved, files, far
<1>1. /\ asks \in Seq(Asked) /\ outbox \in Seq(Asked)
      /\ Len(asks) \in Nat /\ Len(outbox) \in Nat
      /\ DOMAIN asks = 1 .. Len(asks) /\ DOMAIN outbox = 1 .. Len(outbox)
  BY LenProperties DEF OnceInv, Typed, TypeWay
<1>2. /\ Len(asks') = Len(asks) + Len(outbox) /\ DOMAIN asks' = 1 .. Len(asks) + Len(outbox)
      /\ \A i \in DOMAIN asks' : asks'[i] = IF i <= Len(asks) THEN asks[i]
                                            ELSE outbox[i - Len(asks)]
  <2>1. /\ asks \o outbox \in Seq(Asked) /\ Len(asks \o outbox) = Len(asks) + Len(outbox)
        /\ \A i \in 1 .. Len(asks) + Len(outbox) :
              (asks \o outbox)[i] = IF i <= Len(asks) THEN asks[i] ELSE outbox[i - Len(asks)]
    BY <1>1, ConcatProperties
  <2>2. DOMAIN (asks \o outbox) = 1 .. Len(asks) + Len(outbox)
    BY <2>1, LenProperties
  <2> QED  BY <1>0, <2>1, <2>2
<1>3. \A i \in DOMAIN asks' :
         \/ i \in DOMAIN asks /\ asks'[i] = asks[i]
         \/ /\ i - Len(asks) \in DOMAIN outbox /\ asks'[i] = outbox[i - Len(asks)]
            /\ i > Len(asks)
  BY <1>1, <1>2
<1>4. Len(outbox) > 0
  BY <1>0, <1>1, EmptySeq
<1>5. WayFits'
  <2>1. \A i \in DOMAIN asks' : Fits(asks'[i])
    BY <1>0, <1>3 DEF Sound, WayFits
  <2>2. \A i, j \in DOMAIN asks' : i <= j => asks'[i].key <= asks'[j].key
    <3> SUFFICES ASSUME NEW i \in DOMAIN asks', NEW j \in DOMAIN asks', i <= j
                 PROVE  asks'[i].key <= asks'[j].key
      OBVIOUS
    <3>1. CASE j \in DOMAIN asks
      <4>1. i \in DOMAIN asks /\ asks'[i] = asks[i] /\ asks'[j] = asks[j]
        BY <1>1, <1>2, <3>1
      <4> QED  BY <1>0, <3>1, <4>1 DEF Sound, WayFits
    <3>2. CASE j \notin DOMAIN asks
      <4>1. j - Len(asks) \in DOMAIN outbox /\ asks'[j] = outbox[j - Len(asks)]
        BY <1>3, <3>2
      <4>2. CASE i \in DOMAIN asks
        <5>1. asks'[i] = asks[i]
          BY <1>1, <1>3, <4>2
        <5> QED  BY <1>0, <4>1, <4>2, <5>1 DEF Sound, WayFits
      <4>3. CASE i \notin DOMAIN asks
        <5>1. /\ i - Len(asks) \in DOMAIN outbox /\ asks'[i] = outbox[i - Len(asks)]
              /\ i - Len(asks) <= j - Len(asks)
          BY <1>1, <1>2, <1>3, <4>3
        <5> QED  BY <1>0, <4>1, <5>1 DEF Sound, WayFits
      <4> QED  BY <4>2, <4>3
    <3> QED  BY <3>1, <3>2
  <2>3. DOMAIN outbox' = {}
    BY <1>0
  <2> QED  BY <1>0, <2>1, <2>2, <2>3, UnmovedKeeps DEF WayFits
<1>6. ASSUME NEW r \in Requesters PROVE Orderly(r)'
  <2>1. /\ Orderly(r) /\ Doing(r)' = Doing(r) /\ (MayAsk(r)' <=> MayAsk(r))
        /\ (Carries(r)' <=> Carries(r)) /\ DOMAIN outbox' = {}
    BY <1>0, UnmovedKeeps DEF Sound
  <2>2. Nothing(r) => Nothing(r)'
    BY <1>0, <1>3, <2>1 DEF Nothing
  <2>3. ASSUME Latest(r) PROVE Latest(r)'
    <3>1. /\ \A i \in DOMAIN asks : asks[i].by # r
          /\ \A i \in DOMAIN answers : answers[i].by # r
          /\ \A a \in slot : a.by # r
      BY <1>0, <2>3 DEF Latest
    <3>2. \A i \in DOMAIN asks' :
             asks'[i].by = r => i = Len(asks') /\ asks'[i].key = Doing(r).key
      <4> SUFFICES ASSUME NEW i \in DOMAIN asks', asks'[i].by = r
                   PROVE  i = Len(asks') /\ asks'[i].key = Doing(r).key
        OBVIOUS
      <4>1. i - Len(asks) \in DOMAIN outbox /\ asks'[i] = outbox[i - Len(asks)]
        BY <1>3, <3>1
      <4>2. i - Len(asks) = Len(outbox) /\ asks'[i].key = Doing(r).key
        BY <2>3, <4>1 DEF Latest
      <4> QED  BY <1>1, <1>2, <4>2
    <3> QED  BY <1>0, <2>1, <3>1, <3>2 DEF Latest
  <2> QED  BY <2>1, <2>2, <2>3 DEF Orderly
<1> QED  BY <1>0, <1>5, <1>6, UnmovedKeeps DEF Sound

LEMMA AnswerArrivesKeeps == OnceInv /\ SoundIf /\ AnswerArrives => SoundIf'
<1> SUFFICES ASSUME OnceInv, SoundIf, AnswerArrives, ~misled' PROVE Sound'
  BY Zenon DEF SoundIf
<1>0. /\ Sound /\ Unmoved /\ answers # <<>> /\ slot' = {Head(answers)} /\ answers' = Tail(answers)
      /\ UNCHANGED <<outbox, asks, count>>
  BY Zenon DEF SoundIf, AnswerArrives, Unmoved, files, far
<1>1. /\ answers \in Seq(Replied) /\ Len(answers) \in Nat \ {0}
      /\ DOMAIN answers = 1 .. Len(answers) /\ Head(answers) = answers[1]
      /\ DOMAIN answers' = 1 .. Len(answers) - 1 /\ Len(answers') = Len(answers) - 1
      /\ \A i \in DOMAIN answers' : i + 1 \in DOMAIN answers /\ answers'[i] = answers[i + 1]
      /\ answers' \in Seq(Replied)
  <2>1. answers \in Seq(Replied)
    BY DEF OnceInv, Typed, TypeWay
  <2>2. /\ Len(answers) \in Nat \ {0} /\ DOMAIN answers = 1 .. Len(answers)
        /\ Tail(answers) \in Seq(Replied) /\ Len(Tail(answers)) = Len(answers) - 1
        /\ \A i \in 1 .. Len(Tail(answers)) : Tail(answers)[i] = answers[i + 1]
        /\ Head(answers) = answers[1]
    BY <1>0, <2>1, HeadTailProperties, EmptySeq, LenProperties
  <2>3. DOMAIN Tail(answers) = 1 .. Len(answers) - 1
    BY <2>2, LenProperties
  <2> QED  BY <1>0, <2>1, <2>2, <2>3
<1>2. WayFits'
  BY <1>0, UnmovedKeeps DEF Sound, WayFits
<1>3. ASSUME NEW r \in Requesters PROVE Orderly(r)'
  <2>1. /\ Orderly(r) /\ Doing(r)' = Doing(r) /\ (MayAsk(r)' <=> MayAsk(r))
        /\ (Carries(r)' <=> Carries(r)) /\ \A a : Told(a)' <=> Told(a)
    BY <1>0, UnmovedKeeps DEF Sound
  <2>2. Nothing(r) => Nothing(r)'
    BY <1>0, <1>1 DEF Nothing
  <2>3. ASSUME Latest(r) PROVE Latest(r)'
    <3>1. ASSUME answers[1].by = r
          PROVE  answers' = <<>> /\ asks = <<>> /\ outbox = <<>> /\ Told(answers[1])
      <4>1. 1 = Len(answers) /\ asks = <<>> /\ outbox = <<>> /\ Told(answers[1])
        BY <1>1, <2>3, <3>1 DEF Latest
      <4> QED  BY <1>1, <4>1, EmptySeq
    <3>2. \A i \in DOMAIN answers' :
             answers'[i].by = r => /\ i = Len(answers') /\ asks = <<>> /\ outbox = <<>>
                                   /\ Told(answers'[i])
      BY <1>1, <2>3 DEF Latest
    <3>3. /\ \A a \in slot' : a = answers[1]
          /\ UNCHANGED <<outbox, asks>>
      BY <1>0, <1>1
    <3> QED  BY <2>1, <2>3, <3>1, <3>2, <3>3 DEF Latest
  <2> QED  BY <2>1, <2>2, <2>3 DEF Orderly
<1> QED  BY <1>0, <1>2, <1>3, UnmovedKeeps DEF Sound

LEMMA LinkDropsKeeps == OnceInv /\ SoundIf /\ LinkDrops => SoundIf'
<1> SUFFICES ASSUME OnceInv, SoundIf, LinkDrops, ~misled' PROVE Sound'
  BY Zenon DEF SoundIf
<1>0. Sound /\ Unmoved /\ asks' = <<>> /\ answers' = <<>> /\ UNCHANGED <<outbox, slot>>
  BY Zenon DEF SoundIf, LinkDrops, Unmoved, files, far
<1>1. count'.asked = count.asked
  BY DEF LinkDrops, OnceInv, Typed, TypeCount
<1>2. WayFits'
  BY <1>0, <1>1, UnmovedKeeps DEF Sound, WayFits
<1>3. ASSUME NEW r \in Requesters PROVE Orderly(r)'
  <2>1. /\ Orderly(r) /\ Doing(r)' = Doing(r) /\ (MayAsk(r)' <=> MayAsk(r))
        /\ (Carries(r)' <=> Carries(r)) /\ \A a : Told(a)' <=> Told(a)
    BY <1>0, <1>1, UnmovedKeeps DEF Sound
  <2>2. (Nothing(r) => Nothing(r)') /\ (Latest(r) => Latest(r)')
    BY <1>0, <2>1 DEF Nothing, Latest
  <2> QED  BY <2>1, <2>2 DEF Orderly
<1> QED  BY <1>0, <1>1, <1>2, <1>3, UnmovedKeeps DEF Sound

-----------------------------------------------------------------------------
(* The steps of the tunnel and of the service.                             *)

LEMMA TornDownKeeps ==
    ASSUME OnceInv, SoundIf, TornDown, UNCHANGED <<keyFile, newFile, hostKey, hostWg, misled>>,
           \A q \in Requesters : Doing(q)' = Doing(q) \/ ~Busy(Doing(q)')
    PROVE  SoundIf'
<1> SUFFICES ASSUME ~misled' PROVE Sound'
  BY Zenon DEF SoundIf
<1>1. Sound /\ outbox' = <<>> /\ asks' = <<>> /\ answers' = <<>> /\ slot' = {}
  BY Zenon DEF SoundIf, TornDown
<1>2. Seen'
  BY <1>1 DEF TornDown, NoTunnel, Sound, Seen, OnceInv, Typed, TypeHost, Keys
<1> QED  BY <1>1, <1>2, WayEmptied

LEMMA DiesKeeps == OnceInv /\ SoundIf /\ Dies => SoundIf'
<1> SUFFICES ASSUME OnceInv, SoundIf, Dies PROVE SoundIf'
  OBVIOUS
<1>1. /\ TornDown /\ UNCHANGED <<keyFile, newFile, hostKey, hostWg, misled>>
      /\ dog' = [g \in Gens |-> Gone] /\ user' = Gone
  BY Zenon DEF Dies, files, far
<1>2. \A q \in Requesters : ~Busy(Doing(q)')
  BY <1>1 DEF Requesters, Doing, Busy, Gone
<1> QED  BY <1>1, <1>2, TornDownKeeps

\* Whoever is not at work on the files or the way keeps what is said of them.
LEMMA StillKeeps ==
    ASSUME OnceInv, SoundIf, UNCHANGED <<keyFile, newFile, hostKey, hostWg, tunnel, misled>>,
           UNCHANGED way, UNCHANGED <<dog, user, count, service, watch>>
    PROVE  SoundIf'
<1> SUFFICES ASSUME ~misled' PROVE Sound'
  BY Zenon DEF SoundIf
<1>1. Sound
  BY Zenon DEF SoundIf
<1>2. Seen'
  BY <1>1 DEF Sound, Seen, Retired
<1>3. \A q \in Requesters : Doing(q)' = Doing(q) /\ (MayAsk(q)' => MayAsk(q))
  BY DEF Doing, MayAsk
<1> QED  BY <1>1, <1>2, <1>3, WayKept

LEMMA ServiceKeeps ==
    OnceInv /\ SoundIf /\ (Teardown \/ Disconnects \/ StartTunnel \/ Started) => SoundIf'
<1> SUFFICES ASSUME OnceInv, SoundIf PROVE Teardown \/ Disconnects \/ StartTunnel \/ Started => SoundIf'
  OBVIOUS
<1>0. Once /\ Bounds /\ watch \in Nat /\ dog \in [Gens -> Dogs]
  BY DEF OnceInv, Typed, TypeMain, TypeDogs
<1>1. ASSUME Teardown \/ Disconnects PROVE SoundIf'
  <2>1. /\ TornDown /\ UNCHANGED <<keyFile, newFile, hostKey, hostWg, misled, dog, user>>
    BY <1>1, Zenon DEF Teardown, Disconnects, files, far
  <2> QED  BY <2>1, TornDownKeeps DEF Doing
<1>2. ASSUME StartTunnel PROVE SoundIf'
  <2>1. /\ UNCHANGED <<keyFile, newFile, hostKey, hostWg, misled, dog, user, watch, service, count>>
        /\ UNCHANGED way /\ main.at = "start"
        /\ \/ UNCHANGED tunnel
           \/ \E k : tunnel' = [up |-> TRUE, key |-> k, live |-> FALSE]
    BY <1>2, Zenon DEF StartTunnel, files, far, channel, way
  <2> SUFFICES ASSUME ~misled' PROVE Sound'
    BY Zenon DEF SoundIf
  <2>2. Sound
    BY <2>1, Zenon DEF SoundIf
  <2>3. \A g \in Gens : dog[g].at \in {"looked", "confirmed"} => Retired(g)'
    BY <1>0, <2>1 DEF Once, Gone, Retired, Gens
  <2>4. Seen'
    BY <2>1, <2>2, <2>3 DEF Sound, Seen
  <2>5. \A q \in Requesters : Doing(q)' = Doing(q) /\ (MayAsk(q)' => MayAsk(q))
    BY <2>1 DEF Doing, MayAsk
  <2> QED  BY <2>1, <2>2, <2>4, <2>5, WayKept
<1>3. ASSUME Started PROVE SoundIf'
  <2>1. /\ UNCHANGED <<keyFile, newFile, hostKey, hostWg, tunnel, misled, user, count>>
        /\ UNCHANGED way /\ watch' = watch + 1
        /\ dog' = [dog EXCEPT ![watch'] = [Gone EXCEPT !.at = "asleep"]]
    BY <1>3, Zenon DEF Started, files, far, channel, way
  <2> SUFFICES ASSUME ~misled' PROVE Sound'
    BY Zenon DEF SoundIf
  <2>2. Sound
    BY <2>1, Zenon DEF SoundIf
  <2>3. /\ \A g \in Gens : g # watch' => dog'[g] = dog[g]
        /\ \A g \in Gens : g = watch' => dog'[g].at = "asleep"
    BY <1>0, <2>1 DEF Gone
  <2>4. Seen'
    BY <2>1, <2>2, <2>3 DEF Sound, Seen, Retired
  <2>5. ASSUME NEW q \in Requesters
        PROVE  /\ Doing(q)' = Doing(q) \/ ~Busy(Doing(q)')
               /\ MayAsk(q)' => MayAsk(q)
    <3>1. CASE q = User
      BY <2>1, <3>1 DEF Doing, MayAsk
    <3>2. CASE q # User
      BY <1>0, <2>1, <2>3, <3>2 DEF Doing, MayAsk, Busy, Requesters, Gens
    <3> QED  BY <3>1, <3>2
  <2> QED  BY <2>1, <2>2, <2>4, <2>5, WayKept
<1> QED  BY <1>1, <1>2, <1>3

LEMMA TunnelKeeps == OnceInv /\ SoundIf /\ (Handshake \/ Expires \/ HostReloads) => SoundIf'
<1> SUFFICES ASSUME OnceInv, SoundIf, Handshake \/ Expires \/ HostReloads PROVE SoundIf'
  OBVIOUS
<1>1. /\ UNCHANGED <<keyFile, newFile, hostKey, misled, dog, user, watch, service, count>>
      /\ UNCHANGED way
      /\ \/ /\ tunnel' = [tunnel EXCEPT !.live = TRUE] /\ tunnel.key = hostWg /\ UNCHANGED hostWg
         \/ tunnel' = [tunnel EXCEPT !.live = FALSE] /\ UNCHANGED hostWg
         \/ hostWg' = hostKey /\ UNCHANGED tunnel
  BY Zenon DEF Handshake, Expires, HostReloads, Works, files, far, channel, way
<1> SUFFICES ASSUME ~misled' PROVE Sound'
  BY Zenon DEF SoundIf
<1>2. Sound
  BY <1>1, Zenon DEF SoundIf
<1>3. /\ hostWg' <= hostKey /\ tunnel'.key = tunnel.key
      /\ tunnel'.live => tunnel.key <= hostKey
  BY <1>1, <1>2 DEF Sound, Seen, OnceInv, Typed, TypeHost, TypeTunnel, Keys, Bounds
<1>4. Seen'
  BY <1>1, <1>2, <1>3 DEF Sound, Seen, Retired
<1>5. \A q \in Requesters : Doing(q)' = Doing(q) /\ (MayAsk(q)' => MayAsk(q))
  BY <1>1 DEF Doing, MayAsk
<1> QED  BY <1>1, <1>2, <1>4, <1>5, WayKept

-----------------------------------------------------------------------------
(* The steps of the requesters.                                            *)

LEMMA DogOthers ==
    ASSUME OnceInv, NEW g \in Gens, NEW new, DogChange(g, new),
           UNCHANGED <<watch, service, user, count>>, dog[g].at # "gone"
    PROVE  /\ OthersSame(g) /\ Doing(g)' = new /\ Doing(g) = dog[g] /\ g \in Requesters
           /\ dog'[g] = new /\ \A h \in Gens : h # g => dog'[h] = dog[h]
           /\ g <= watch
           /\ MayAsk(g) <=> dog[g].at \in {"asleep", "looked", "confirmed"} /\ ~dog[g].tried
           /\ MayAsk(g)' <=> new.at \in {"asleep", "looked", "confirmed"} /\ ~new.tried
<1>1. /\ Once /\ Bounds /\ watch \in Nat /\ dog \in [Gens -> Dogs]
      /\ dog' = [dog EXCEPT ![g] = new]
  BY DEF OnceInv, Typed, TypeMain, TypeDogs, DogChange
<1>2. dog'[g] = new /\ \A h \in Gens : h # g => dog'[h] = dog[h]
  BY <1>1
<1>3. g # User /\ g \in Nat /\ g \in Requesters /\ g <= watch
  BY <1>1 DEF Gens, User, Bounds, Requesters, Once, Gone
<1>4. Doing(g)' = new /\ Doing(g) = dog[g]
  BY <1>2, <1>3 DEF Doing
<1>5. /\ MayAsk(g) <=> dog[g].at \in {"asleep", "looked", "confirmed"} /\ ~dog[g].tried
      /\ MayAsk(g)' <=> new.at \in {"asleep", "looked", "confirmed"} /\ ~new.tried
  BY <1>1, <1>2, <1>3 DEF MayAsk
<1>6. OthersSame(g)
  BY <1>2 DEF OthersSame, Requesters, Doing, MayAsk
<1> QED  BY <1>2, <1>3, <1>4, <1>5, <1>6

\* A watchdog that asks nothing and saw nothing but the tunnel there is.
LEMMA DogMoves ==
    ASSUME OnceInv, SoundIf, NEW g \in Gens, NEW new \in Dogs, DogChange(g, new),
           UNCHANGED <<keyFile, newFile, hostKey, hostWg, tunnel>>, UNCHANGED way,
           UNCHANGED <<watch, service, user, count>>, ~misled' => ~misled,
           dog[g].at # "gone", ~Busy(new),
           new.at # "gone" /\ ~new.tried
              => dog[g].at \in {"asleep", "looked", "confirmed"} /\ ~dog[g].tried,
           new.at \in {"looked", "confirmed"} /\ new.saw
              => tunnel.live \/ (dog[g].at \in {"looked", "confirmed"} /\ dog[g].saw)
    PROVE  SoundIf'
<1> SUFFICES ASSUME ~misled' PROVE Sound'
  BY Zenon DEF SoundIf
<1>1. Sound
  BY Zenon DEF SoundIf
<1>2. /\ \A q \in Requesters \ {g} : Doing(q)' = Doing(q) /\ (MayAsk(q)' => MayAsk(q))
      /\ Doing(g)' = new /\ (MayAsk(g)' => MayAsk(g))
      /\ dog'[g] = new /\ \A h \in Gens : h # g => dog'[h] = dog[h]
  BY DogOthers DEF OthersSame
<1>3. Seen'
  BY <1>1, <1>2 DEF Sound, Seen, Retired
<1>4. \A q \in Requesters : /\ Doing(q)' = Doing(q) \/ ~Busy(Doing(q)')
                            /\ MayAsk(q)' => MayAsk(q)
  BY <1>2
<1> QED  BY <1>1, <1>3, <1>4, WayKept

\* The current watchdog confirms the key the tunnel runs on: the host has it.
LEMMA ConfirmsKeep ==
    ASSUME OnceInv, SoundIf, NEW g \in Gens, DogConfirms(g)
    PROVE  SoundIf'
<1> DEFINE new == [dog[g] EXCEPT !.at = "confirmed"]
<1>0. /\ dog[g].at = "looked" /\ dog[g].saw /\ DogChange(g, new)
      /\ UNCHANGED <<hostKey, hostWg, tunnel, watch, service, user, count>> /\ UNCHANGED way
      /\ Committed \/ (CommitFails /\ UNCHANGED <<keyFile, newFile>>)
  BY Zenon DEF DogConfirms, CommitFails, files, far, channel, way
<1>1. ~misled' => ~misled /\ ~Retired(g) /\ newFile \in {0, tunnel.key}
  <2>1. misled' = (misled \/ Retired(g) \/ newFile \notin {0, tunnel.key})
    BY Zenon DEF DogConfirms
  <2> QED  BY <2>1, Zenon
<1>2. /\ dog[g] \in Dogs /\ new \in Dogs /\ new.at = "confirmed" /\ ~Busy(new)
      /\ new.tried = dog[g].tried /\ new.saw = dog[g].saw
  <2>1. dog[g] \in Dogs
    BY DEF OnceInv, Typed, TypeDogs
  <2> QED  BY <2>1 DEF Dogs, Busy
<1> HIDE DEF new
<1>3. CASE UNCHANGED <<keyFile, newFile>>
  BY <1>0, <1>1, <1>2, <1>3, DogMoves
<1>4. CASE Committed
  <2> SUFFICES ASSUME ~misled' PROVE Sound'
    BY Zenon DEF SoundIf
  <2>1. Sound /\ ~Retired(g) /\ newFile # 0 /\ newFile = tunnel.key
    BY <1>1, <1>4 DEF SoundIf, Committed
  <2>2. keyFile' = newFile /\ newFile' = 0
    BY <1>4 DEF Committed
  <2>3. TypeFiles /\ TypeHost /\ TypeWay
    BY DEF OnceInv, Typed
  <2>4. hostKey = newFile
    <3>1. tunnel.key <= hostKey
      BY <1>0, <2>1 DEF Sound, Seen
    <3> QED  BY <2>1, <2>3, <3>1 DEF Sound, TypeFiles, TypeHost, Keys
  <2>5. /\ \A q \in Requesters \ {g} : Doing(q)' = Doing(q) /\ (MayAsk(q)' => MayAsk(q))
        /\ Doing(g)' = new /\ (MayAsk(g)' => MayAsk(g)) /\ g \in Requesters
        /\ dog'[g] = new /\ \A h \in Gens : h # g => dog'[h] = dog[h]
    BY <1>0, <1>2, DogOthers DEF OthersSame
  <2>6. OneAsks'
    BY <1>2, <2>1, <2>5 DEF Sound, OneAsks
  <2>7. WayFits'
    <3>1. ASSUME NEW a \in Asked, Fits(a)
          PROVE  a.key \in {keyFile', newFile'} /\ hostKey' <= a.key
      BY <1>0, <2>2, <2>3, <2>4, <3>1 DEF Fits, TypeFiles, TypeHost, Asked, Keys
    <3>2. /\ \A i \in DOMAIN asks : asks[i] \in Asked
          /\ \A i \in DOMAIN outbox : outbox[i] \in Asked
          /\ UNCHANGED <<asks, outbox>>
      BY <1>0, <2>3 DEF TypeWay, way
    <3>3. (\A i \in DOMAIN asks : Fits(asks[i]))' /\ (\A i \in DOMAIN outbox : Fits(outbox[i]))'
      BY <2>1, <3>1, <3>2 DEF Sound, WayFits, Fits
    <3> QED  BY <2>1, <3>2, <3>3 DEF Sound, WayFits
  <2>8. Seen'
    BY <1>0, <1>2, <2>1, <2>5 DEF Sound, Seen, Retired
  <2>9. ASSUME NEW q \in Requesters PROVE Orderly(q)'
    <3>1. /\ Doing(q)' = Doing(q) \/ ~Busy(Doing(q)')
          /\ MayAsk(q)' => MayAsk(q)
      BY <1>2, <2>5
    <3>2. Orderly(q) /\ UNCHANGED <<outbox, asks, answers, slot>>
      BY <1>0, <2>1 DEF Sound, way
    <3>3. \A a : Told(a)'
      BY <2>2 DEF Told
    <3>4. Nothing(q) => Nothing(q)'
      BY <3>2 DEF Nothing
    <3>5. CASE Doing(q)' = Doing(q)
      <4>1. Carries(q) => Carries(q)'
        BY <2>1, <2>2, <3>5 DEF Carries
      <4>2. Latest(q) => Latest(q)'
        BY <3>2, <3>3, <3>5 DEF Latest
      <4> QED  BY <3>1, <3>2, <3>4, <3>5, <4>1, <4>2 DEF Orderly
    <3>6. CASE ~Busy(Doing(q)')
      BY <3>1, <3>2, <3>4, <3>6 DEF Orderly, Busy
    <3> QED  BY <3>1, <3>5, <3>6
  <2> QED  BY <1>0, <2>2, <2>4, <2>6, <2>7, <2>8, <2>9 DEF Sound
<1> QED  BY <1>0, <1>3, <1>4

LEMMA DogsKeep ==
    ASSUME OnceInv, SoundIf, NEW g \in Gens,
           DogLooks(g) \/ DogAsks(g) \/ DogSends(g) \/ DogTakes(g) \/ DogSwitches(g)
    PROVE  SoundIf'
<1> DEFINE d == dog[g]
           asleep == [d EXCEPT !.at = "asleep"]
<1>0. /\ Bounds /\ d \in Dogs /\ session \in Nat /\ newFile' \in 0 .. MaxKey /\ 0 \in 0 .. MaxKey
      /\ Busy(d) => d.tried
      /\ tunnel.live \in BOOLEAN
  <2>1. newFile' \in 0 .. MaxKey
    <3>1. [KeysNext]_keyState
      BY Zenon DEF KeysNext
    <3> QED  BY <3>1, FilesTyped DEF OnceInv, TypeFiles
  <2> QED  BY <2>1 DEF OnceInv, Typed, Once, TypeDogs, TypeMain, TypeTunnel, Bounds
<1>1. /\ asleep \in Dogs /\ asleep.at = "asleep" /\ asleep.tried = d.tried /\ ~Busy(asleep)
      /\ Gone \in Dogs /\ Gone.at = "gone" /\ ~Busy(Gone)
  <2>1. asleep \in Dogs /\ Gone \in Dogs
    BY <1>0, DogRecords
  <2>2. asleep.at = "asleep" /\ asleep.tried = d.tried
    BY <1>0 DEF Dogs
  <2>3. Gone.at = "gone"
    BY DEF Gone
  <2> QED  BY <2>1, <2>2, <2>3 DEF Busy
<1> HIDE DEF asleep
<1>2. ASSUME DogLooks(g) PROVE SoundIf'
  <2> DEFINE new == [d EXCEPT !.at = "looked", !.saw = tunnel.live]
  <2>1. /\ d.at = "asleep" /\ (DogChange(g, Gone) \/ DogChange(g, new))
        /\ UNCHANGED <<keyFile, newFile, hostKey, hostWg, tunnel, watch, service, user, count>>
        /\ UNCHANGED way /\ UNCHANGED misled
    BY <1>2, Zenon DEF DogLooks, files, far, channel, way
  <2>2. /\ new \in Dogs /\ new.at = "looked" /\ new.tried = d.tried /\ ~Busy(new)
        /\ new.saw = tunnel.live
    <3>1. new \in Dogs
      BY <1>0, DogRecords
    <3>2. new.at = "looked" /\ new.tried = d.tried /\ new.saw = tunnel.live
      BY <1>0 DEF Dogs
    <3> QED  BY <3>1, <3>2 DEF Busy
  <2> HIDE DEF new
  <2>3. ~misled' => ~misled
    BY <2>1, Zenon
  <2> QED  BY <1>1, <2>1, <2>2, <2>3, DogMoves
<1>3. ASSUME DogSwitches(g) PROVE SoundIf'
  <2>1. /\ d.at = "looked" /\ (DogChange(g, Gone) \/ DogChange(g, asleep))
        /\ UNCHANGED <<keyFile, newFile, hostKey, hostWg, tunnel, watch, service, user, count>>
        /\ UNCHANGED way /\ (~misled' => ~misled)
    BY <1>3, Zenon DEF DogSwitches, files, far, channel, way, asleep
  <2> QED  BY <1>1, <2>1, DogMoves
<1>4. ASSUME DogSends(g) PROVE SoundIf'
  <2> DEFINE new == [d EXCEPT !.at = "wait"]
  <2>1. /\ d.at = "send" /\ UNCHANGED <<keyFile, newFile, hostKey, hostWg, tunnel, watch, service, user, count>>
        /\ UNCHANGED <<asks, answers, misled>>
        /\ \/ Sends(d.key, g) /\ DogChange(g, new)
           \/ DogChange(g, asleep) /\ UNCHANGED <<slot, outbox>>
    BY <1>4, Zenon DEF DogSends, files, far, asleep
  <2>2. new.at = "wait" /\ new.key = d.key /\ Busy(d)
    BY <1>0, <2>1 DEF Dogs, Busy
  <2> HIDE DEF new
  <2>3. CASE Sends(d.key, g) /\ DogChange(g, new)
    <3>1. /\ OthersSame(g) /\ Doing(g)' = new /\ Doing(g) = d /\ ~MayAsk(g)' /\ g \in Requesters
      BY <2>1, <2>2, <2>3, DogOthers
    <3>2. SendsStep(g)
      BY <2>1, <2>2, <2>3, <3>1, Zenon DEF SendsStep, key
    <3> QED  BY <3>1, <3>2, SendsKeep
  <2>4. CASE DogChange(g, asleep) /\ UNCHANGED <<slot, outbox>>
    <3>1. UNCHANGED way /\ (~misled' => ~misled)
      BY <2>1, <2>4, Zenon DEF way
    <3> QED  BY <1>0, <1>1, <2>1, <2>2, <2>4, <3>1, DogMoves
  <2> QED  BY <2>1, <2>3, <2>4
<1>5. ASSUME DogTakes(g) PROVE SoundIf'
  <2>1. /\ d.at = "wait" /\ (DogChange(g, Gone) \/ DogChange(g, asleep))
        /\ UNCHANGED <<hostKey, hostWg, tunnel, watch, service, user, count, outbox, asks, answers>>
        /\ \/ /\ slot' = {}
              /\ \E a \in slot : /\ misled' = (misled \/ a.by # g)
                                 /\ \/ a.ok /\ Committed
                                    \/ a.ok /\ CommitFails
                                    \/ ~a.ok /\ Discarded
           \/ UNCHANGED <<keyFile, newFile, slot, misled>>
    BY <1>5, ZenonT(30) DEF DogTakes, far, channel, asleep, Unanswered
  <2>2. Busy(d)
    BY <2>1 DEF Busy
  <2>3. CASE UNCHANGED <<keyFile, newFile, slot, misled>>
    <3>1. UNCHANGED way /\ (~misled' => ~misled)
      BY <2>1, <2>3, Zenon DEF way
    <3> QED  BY <1>0, <1>1, <2>1, <2>2, <2>3, <3>1, DogMoves
  <2>4. CASE /\ slot' = {}
             /\ \E a \in slot : /\ misled' = (misled \/ a.by # g)
                                /\ \/ a.ok /\ Committed
                                   \/ a.ok /\ CommitFails
                                   \/ ~a.ok /\ Discarded
    <3>1. \E a \in slot : /\ ~misled' => ~misled /\ a.by = g
                          /\ \/ a.ok /\ Committed
                             \/ a.ok /\ CommitFails
                             \/ ~a.ok /\ Discarded
      BY <2>4, Zenon
    <3>2. /\ OthersSame(g) /\ Doing(g)'.at \in {"gone", "asleep"} /\ Doing(g) = d /\ ~MayAsk(g)'
          /\ g \in Requesters
      BY <1>0, <1>1, <2>1, <2>2, DogOthers
    <3>3. TakesStep(g)
      BY <2>1, <2>4, <3>1, <3>2, Zenon DEF TakesStep
    <3> QED  BY <3>2, <3>3, TakesKeep
  <2> QED  BY <2>1, <2>3, <2>4
<1>6. ASSUME DogAsks(g) PROVE SoundIf'
  <2> DEFINE sent == [d EXCEPT !.at = "send", !.tried = TRUE, !.key = newFile', !.session = session]
             back == [d EXCEPT !.at = "asleep", !.tried = @ \/ link]
  <2>1. /\ d.at \in {"looked", "confirmed"}
        /\ UNCHANGED <<keyFile, hostKey, hostWg, tunnel, watch, service, user, count>> /\ UNCHANGED way
    BY <1>6 DEF DogAsks, far, channel, way
  <2>2. \/ /\ ~d.tried /\ EnsurePending /\ DogChange(g, sent)
           /\ misled' = (misled \/ Busy(user) \/ \E h \in Gens \ {g} : Busy(dog[h]))
        \/ DogChange(g, back) /\ UNCHANGED <<newFile, misled>>
    BY <1>6, Zenon DEF DogAsks
  <2>3. /\ sent.at = "send" /\ sent.key = newFile' /\ sent.tried
        /\ back \in Dogs /\ back.at = "asleep" /\ ~Busy(back) /\ (~back.tried => ~d.tried)
    <3>1. (d.tried \/ link) \in BOOLEAN
      OBVIOUS
    <3>2. back \in Dogs
      BY <1>0, <3>1, DogRecords
    <3> QED  BY <1>0, <3>2 DEF Dogs, Busy
  <2> HIDE DEF sent, back
  <2>4. CASE DogChange(g, back) /\ UNCHANGED <<newFile, misled>>
    <3>1. ~misled' => ~misled
      BY <2>4, Zenon
    <3> QED  BY <2>1, <2>3, <2>4, <3>1, DogMoves
  <2>5. CASE /\ ~d.tried /\ EnsurePending /\ DogChange(g, sent)
             /\ misled' = (misled \/ Busy(user) \/ \E h \in Gens \ {g} : Busy(dog[h]))
    <3>1. /\ OthersSame(g) /\ Doing(g)' = sent /\ MayAsk(g) /\ ~MayAsk(g)' /\ g \in Requesters
      BY <2>1, <2>3, <2>5, DogOthers
    <3>2. ~misled' => ~misled /\ ~Busy(user) /\ \A h \in Gens \ {g} : ~Busy(dog[h])
      BY <2>5, Zenon
    <3>3. ~misled' => ~misled /\ \A q \in Requesters \ {g} : ~Busy(Doing(q))
      BY <3>2, Zenon DEF Requesters, Doing
    <3>4. AsksStep(g)
      BY <2>1, <2>3, <2>5, <3>1, <3>3, Zenon DEF AsksStep
    <3> QED  BY <3>1, <3>4, AsksKeep
  <2> QED  BY <2>2, <2>4, <2>5
<1> QED  BY <1>2, <1>3, <1>4, <1>5, <1>6

LEMMA UserOthers ==
    ASSUME OnceInv, NEW new, user' = new, UNCHANGED <<watch, service, dog>>
    PROVE  /\ OthersSame(User) /\ Doing(User)' = new /\ Doing(User) = user
           /\ User \in Requesters /\ (MayAsk(User)' <=> count'.asked = 0)
           /\ (MayAsk(User) <=> count.asked = 0)
BY DEF OthersSame, Doing, MayAsk, Requesters

LEMMA UsersKeep == OnceInv /\ SoundIf /\ (UserAsks \/ UserSends \/ UserTakes) => SoundIf'
<1> SUFFICES ASSUME OnceInv, SoundIf PROVE UserAsks \/ UserSends \/ UserTakes => SoundIf'
  OBVIOUS
<1>0. /\ Once /\ user \in Dogs /\ Gone.at = "gone"
      /\ count \in [asked : Nat, refusals : Nat, drops : Nat, deaths : Nat]
  BY DEF OnceInv, Typed, TypeDogs, TypeCount, Gone
\* It gives up.
<1>1. ASSUME user' = Gone, user.at # "gone",
             UNCHANGED <<keyFile, newFile, hostKey, hostWg, tunnel, misled>>, UNCHANGED way,
             UNCHANGED <<watch, service, dog, count>>
      PROVE  SoundIf'
  <2> SUFFICES ASSUME ~misled' PROVE Sound'
    BY Zenon DEF SoundIf
  <2>1. Sound
    BY <1>1, Zenon DEF SoundIf
  <2>2. /\ OthersSame(User) /\ Doing(User)' = Gone /\ ~MayAsk(User)'
    BY <1>0, <1>1, UserOthers DEF Once
  <2>3. Seen'
    BY <1>1, <2>1 DEF Sound, Seen, Retired
  <2>4. \A q \in Requesters : /\ Doing(q)' = Doing(q) \/ ~Busy(Doing(q)')
                              /\ MayAsk(q)' => MayAsk(q)
    BY <1>0, <2>2 DEF OthersSame, Busy
  <2> QED  BY <1>1, <2>1, <2>3, <2>4, WayKept
<1>2. ASSUME UserAsks PROVE SoundIf'
  <2> DEFINE new == [Gone EXCEPT !.at = "send", !.key = newFile', !.session = session]
  <2>1. /\ user.at = "gone" /\ count.asked < 1 /\ EnsurePending /\ user' = new
        /\ count' = [count EXCEPT !.asked = @ + 1]
        /\ misled' = (misled \/ \E g \in Gens : Busy(dog[g]))
        /\ UNCHANGED <<keyFile, hostKey, hostWg, tunnel, watch, service, dog>> /\ UNCHANGED way
    BY <1>2, Zenon DEF UserAsks, far, channel, way
  <2>2. new.at = "send" /\ new.key = newFile'
    BY DEF Gone
  <2> HIDE DEF new
  <2>3. count.asked = 0 /\ count'.asked # 0
    BY <1>0, <2>1
  <2>4. /\ OthersSame(User) /\ Doing(User)' = new /\ MayAsk(User) /\ ~MayAsk(User)'
        /\ User \in Requesters
    BY <2>1, <2>3, UserOthers
  <2>5. ~misled' => ~misled /\ \A g \in Gens : ~Busy(dog[g])
    BY <2>1, Zenon
  <2>6. ~misled' => ~misled /\ \A q \in Requesters \ {User} : ~Busy(Doing(q))
    BY <2>5, Zenon DEF Requesters, Doing
  <2>7. AsksStep(User)
    BY <2>1, <2>2, <2>4, <2>6, Zenon DEF AsksStep
  <2> QED  BY <2>4, <2>7, AsksKeep
<1>3. ASSUME UserSends PROVE SoundIf'
  <2> DEFINE new == [user EXCEPT !.at = "wait"]
  <2>1. /\ user.at = "send"
        /\ UNCHANGED <<keyFile, newFile, hostKey, hostWg, tunnel, watch, service, dog, count>>
        /\ UNCHANGED <<asks, answers, misled>>
        /\ \/ Sends(user.key, User) /\ user' = new
           \/ user' = Gone /\ UNCHANGED <<slot, outbox>>
    BY <1>3, Zenon DEF UserSends, files, far
  <2>2. new.at = "wait" /\ new.key = user.key
    BY <1>0 DEF Dogs
  <2> HIDE DEF new
  <2>3. CASE Sends(user.key, User) /\ user' = new
    <3>1. /\ OthersSame(User) /\ Doing(User)' = new /\ Doing(User) = user /\ ~MayAsk(User)'
          /\ User \in Requesters
      BY <1>0, <2>1, <2>3, UserOthers DEF Once
    <3>2. SendsStep(User)
      BY <2>1, <2>2, <2>3, <3>1, Zenon DEF SendsStep, key
    <3> QED  BY <3>1, <3>2, SendsKeep
  <2>4. CASE user' = Gone /\ UNCHANGED <<slot, outbox>>
    <3>1. UNCHANGED way
      BY <2>1, <2>4, Zenon DEF way
    <3> QED  BY <2>1, <2>4, <3>1, <1>1
  <2> QED  BY <2>1, <2>3, <2>4
<1>4. ASSUME UserTakes PROVE SoundIf'
  <2>1. /\ user.at = "wait" /\ user' = Gone
        /\ UNCHANGED <<hostKey, hostWg, tunnel, watch, service, dog, count, outbox, asks, answers>>
        /\ \/ /\ slot' = {}
              /\ \E a \in slot : /\ misled' = (misled \/ a.by # User)
                                 /\ \/ a.ok /\ Committed
                                    \/ a.ok /\ CommitFails
                                    \/ ~a.ok /\ Discarded
           \/ UNCHANGED <<keyFile, newFile, slot, misled>>
    BY <1>4, ZenonT(30) DEF UserTakes, far, channel, Unanswered
  <2>2. CASE UNCHANGED <<keyFile, newFile, slot, misled>>
    <3>1. UNCHANGED way
      BY <2>1, <2>2, Zenon DEF way
    <3> QED  BY <2>1, <2>2, <3>1, <1>1
  <2>3. CASE /\ slot' = {}
             /\ \E a \in slot : /\ misled' = (misled \/ a.by # User)
                                /\ \/ a.ok /\ Committed
                                   \/ a.ok /\ CommitFails
                                   \/ ~a.ok /\ Discarded
    <3>1. \E a \in slot : /\ ~misled' => ~misled /\ a.by = User
                          /\ \/ a.ok /\ Committed
                             \/ a.ok /\ CommitFails
                             \/ ~a.ok /\ Discarded
      BY <2>3, Zenon
    <3>2. /\ OthersSame(User) /\ Doing(User)'.at \in {"gone", "asleep"} /\ Doing(User) = user
          /\ ~MayAsk(User)' /\ User \in Requesters
      BY <1>0, <2>1, UserOthers DEF Once
    <3>3. TakesStep(User)
      BY <2>1, <2>3, <3>1, <3>2, Zenon DEF TakesStep
    <3> QED  BY <3>2, <3>3, TakesKeep
  <2> QED  BY <2>1, <2>2, <2>3
<1> QED  BY <1>2, <1>3, <1>4

-----------------------------------------------------------------------------
(* The theorem.                                                            *)

LEMMA SoundStep == OnceInv /\ SoundIf /\ [KeysNext]_keyState => SoundIf'
<1> SUFFICES ASSUME OnceInv, SoundIf, [KeysNext]_keyState PROVE SoundIf'
  OBVIOUS
<1>1. CASE Connects \/ Reconnects \/ LinkUp \/ UNCHANGED keyState
  <2>1. /\ UNCHANGED <<keyFile, newFile, hostKey, hostWg, tunnel, misled>>
        /\ UNCHANGED way /\ UNCHANGED <<dog, user, count, service, watch>>
    BY <1>1, Zenon DEF Connects, Reconnects, LinkUp, keyState, files, far, channel, way
  <2> QED  BY <2>1, StillKeeps
<1> QED  BY <1>1, ServiceKeeps, TunnelKeeps, LinkDropsKeeps, DrainsKeeps, HostAnswersKeeps,
     AnswerArrivesKeeps, UsersKeep, DogsKeep, ConfirmsKeep, DiesKeeps, Zenon DEF KeysNext

LEMMA SoundInit == Bounds /\ KeysInit => OnceInv /\ SoundIf
<1> SUFFICES ASSUME Bounds, KeysInit PROVE OnceInv /\ Sound
  BY DEF SoundIf
<1>1. /\ keyFile = 1 /\ newFile = 0 /\ hostKey = 1 /\ hostWg = 1 /\ tunnel.live = FALSE
      /\ asks = <<>> /\ outbox = <<>> /\ answers = <<>> /\ slot = {} /\ main = Idle
      /\ dog = [g \in Gens |-> Gone] /\ user = Gone
  BY DEF KeysInit, NoTunnel
<1>2. Gone.at = "gone" /\ ~Busy(Gone) /\ Idle.at = "idle"
  BY DEF Gone, Busy, Idle
<1>3. OnceInv
  BY <1>1, <1>2, TypedInit DEF OnceInv, Once
<1>4. \A r \in Requesters : Doing(r) = Gone
  BY <1>1 DEF Requesters, Doing
<1>5. \A r \in Requesters : Orderly(r)
  BY <1>1, <1>2, <1>4 DEF Orderly, Nothing
<1> QED  BY <1>1, <1>2, <1>3, <1>4, <1>5 DEF Sound, OneAsks, WayFits, Seen

\* The key the host has for the phone is in one of the phone's files
\* (KeysSound), whoever asks, whatever answers are lost and whenever the
\* service or the process stops, unless misled.
THEOREM PhoneKeysSound ==
    ASSUME MaxKey \in Nat \ {0}, MaxGen \in Nat
    PROVE  KeysSpec => []KeysSound
<1>1. OnceInv /\ SoundIf => KeysSound
  BY Zenon DEF SoundIf, Sound, KeysSound
<1>2. KeysInit => OnceInv /\ SoundIf
  BY SoundInit DEF Bounds
<1>3. OnceInv /\ SoundIf /\ [KeysNext]_keyState => (OnceInv /\ SoundIf)'
  BY OnceStep, SoundStep, Zenon
<1> QED  BY <1>1, <1>2, <1>3, PTL DEF KeysSpec

-----------------------------------------------------------------------------
(* The chat queue of the phone.                                            *)

Chats == [seq : Nat, id : Nat, meant : SUBSET (Nat \ {0}), due : BOOLEAN]
Tasks == [at : {"free", "push", "pump", "take", "connect", "arrived", "failed", "write", "erase",
                "note", "prune", "remember"},
          due : Seq(Nat), hand : Seq(Chats), snap : Seq(Chats), arg : Nat,
          next : {"free", "take", "erase", "remember"}]
Sessions == [on : BOOLEAN, held : Seq(Chats), ledger : SUBSET Nat]

\* What a message is, whether or not it is due; and the messages of a queue.
Core(p) == [seq |-> p.seq, id |-> p.id, meant |-> p.meant]
Of(s) == {Core(s[i]) : i \in 1..Len(s)}

TypeWorld == /\ holder \in Nat /\ known \in Nat /\ ledger \in {{}, {known}}
             /\ holders \in Nat /\ written \in Nat /\ ops \in Nat /\ deaths \in Nat
TypeHistory == /\ nextSeq \in Nat /\ history \subseteq [seq : Nat, id : Nat]
               /\ \A e \in history : e.seq < nextSeq
               /\ \A e, f \in history : e.seq = f.seq => e = f
TypeQueue == /\ queue \in Seq(Chats) /\ file \in Seq(Chats) /\ thread \in [Threads -> Tasks]
             /\ former \in Sessions

\* A thread holds one message while it queues or delivers it, else none.
Handling == {"push", "connect", "arrived", "failed"}
HandsSound ==
  \A t \in Threads : /\ thread[t].at \in Handling => Len(thread[t].hand) = 1
                     /\ thread[t].at \notin Handling => thread[t].hand = <<>>
                     /\ thread[t].at = "arrived" => Ids(thread[t].hand) \subseteq acked
ControlSound ==
  LET c == thread["control"] IN
  /\ c.at \in {"free", "note", "prune", "write", "remember"} /\ c.snap = <<>>
  /\ c.at = "write" => c.next = "remember"
ChatTyped == TypeWorld /\ TypeHistory /\ TypeQueue /\ HandsSound /\ ControlSound

\* Where messages are: in the queue, with the former session, in hands and in
\* copies.
Live(c) == \/ c \in Of(queue) \cup Of(former.held)
           \/ \E t \in Threads : c \in Of(thread[t].hand) \cup Of(thread[t].snap)
Anywhere(c) == Live(c) \/ c \in Of(file)

\* A message is one of the history, or accounted for.
Traced == \A c : Anywhere(c) => \/ c.id \in acked \cup given
                                \/ [seq |-> c.seq, id |-> c.id] \in history
\* It is meant for the one known at the address, or it slipped.
MeantFor(c, k) == c.meant \in {{}, {k}} \/ c.id \in slipped
ChatFits ==
  LET c == thread["control"] IN
  /\ \A m : Anywhere(m) => MeantFor(m, known)
  /\ c.at = "remember" => \A m : Anywhere(m) => MeantFor(m, c.arg)
  /\ c.at = "write" => \A m : Live(m) => MeantFor(m, c.arg)
ChatInv == ChatTyped /\ NothingLost /\ Traced /\ ChatFits

-----------------------------------------------------------------------------
(* Queues as sequences.                                                    *)

\* A set of natural numbers has a least one.
LEMMA LeastOf == ASSUME NEW Z \in SUBSET Nat, Z # {} PROVE \E x \in Z : \A y \in Z : x <= y
<1>1. PICK x \in Z : \A y \in Z : <<y, x>> \notin OpToRel(<, Nat)
  BY WFMin, NatLessThanWellFounded, Zenon
<1>2. \A y \in Z : y < x => <<y, x>> \in OpToRel(<, Nat)
  <2>1. \A y \in Z : y \in Nat /\ x \in Nat
    OBVIOUS
  <2> QED  BY <2>1, Zenon DEF OpToRel
<1>3. \A y \in Z : ~(y < x)
  BY <1>1, <1>2
<1>4. \A y \in Z : y \in Nat /\ x \in Nat
  OBVIOUS
<1> QED  BY <1>3, <1>4

\* Induction on the natural numbers, for a set.
LEMMA UpFromZero ==
    ASSUME NEW S, 0 \in S, \A n \in Nat : n \in S => n + 1 \in S
    PROVE  Nat \subseteq S
<1> SUFFICES ASSUME Nat \ S # {} PROVE FALSE
  OBVIOUS
<1>1. PICK x \in Nat \ S : \A y \in Nat \ S : x <= y
  <2>1. Nat \ S \in SUBSET Nat
    OBVIOUS
  <2> QED  BY <2>1, LeastOf
<1>2. x # 0 /\ x - 1 \in Nat /\ (x - 1) + 1 = x /\ ~(x <= x - 1)
  BY <1>1
<1>3. x - 1 \in S
  BY <1>1, <1>2
<1> QED  BY <1>1, <1>2, <1>3

\* Picked is computed from the front: the messages up to n.
PickedUpTo(q, K, f) ==
    f = [n \in 0..Len(q) |->
           IF n = 0 THEN <<>> ELSE IF n \in K THEN Append(f[n - 1], q[n]) ELSE f[n - 1]]

LEMMA PickedUpToExists ==
    ASSUME NEW T, NEW q \in Seq(T), NEW K
    PROVE  \E f : PickedUpTo(q, K, f)
<1> DEFINE Step(m, x) == IF m \in K THEN Append(x, q[m]) ELSE x
           Part(n) == {f \in [0..n -> Seq(T)] :
                          f[0] = <<>> /\ \A m \in 1..n : f[m] = Step(m, f[m - 1])}
           P == {n \in Nat : n <= Len(q) => Part(n) # {}}
<1>1. Len(q) \in Nat /\ \A m \in 1..Len(q) : q[m] \in T
  OBVIOUS
<1>2. 0 \in P
  <2>1. [m \in 0..0 |-> <<>>] \in [0..0 -> Seq(T)]
    OBVIOUS
  <2>2. [m \in 0..0 |-> <<>>] \in Part(0)
    BY <2>1
  <2> QED  BY <2>2
<1>3. ASSUME NEW n \in Nat, n \in P PROVE n + 1 \in P
  <2> HIDE DEF Part, Step
  <2> SUFFICES ASSUME n + 1 <= Len(q) PROVE Part(n + 1) # {}
    OBVIOUS
  <2>1. PICK f \in Part(n) : TRUE
    BY <1>1, <1>3
  <2>2. f \in [0..n -> Seq(T)] /\ f[0] = <<>> /\ \A m \in 1..n : f[m] = Step(m, f[m - 1])
    BY <2>1 DEF Part
  <2>3. \A x \in Seq(T) : Step(n + 1, x) \in Seq(T)
    <3>1. q[n + 1] \in T
      BY <1>1
    <3> QED  BY <3>1, AppendProperties DEF Step
  <2> DEFINE h == [m \in 0..(n + 1) |-> IF m <= n THEN f[m] ELSE Step(n + 1, f[n])]
  <2>4. h \in [0..(n + 1) -> Seq(T)] /\ h[0] = <<>>
    BY <2>2, <2>3
  <2>5. ASSUME NEW m \in 1..(n + 1) PROVE h[m] = Step(m, h[m - 1])
    <3>1. CASE m <= n
      <4>1. h[m] = f[m] /\ h[m - 1] = f[m - 1] /\ m \in 1..n
        BY <3>1
      <4> QED  BY <2>2, <4>1
    <3>2. CASE ~(m <= n)
      <4>1. m = n + 1
        BY <3>2
      <4>2. h[n + 1] = Step(n + 1, f[n]) /\ h[(n + 1) - 1] = f[n]
        OBVIOUS
      <4> QED  BY <4>1, <4>2
    <3> QED  BY <3>1, <3>2
  <2>6. h \in Part(n + 1)
    BY <2>4, <2>5 DEF Part
  <2> QED  BY <2>6
<1>4. Len(q) \in P
  <2> HIDE DEF P
  <2>1. Nat \subseteq P
    BY <1>2, <1>3, UpFromZero
  <2> QED  BY <1>1, <2>1
<1>5. PICK f \in Part(Len(q)) : TRUE
  BY <1>1, <1>4
<1>6. f \in [0..Len(q) -> Seq(T)] /\ f[0] = <<>>
      /\ \A m \in 1..Len(q) : f[m] = IF m \in K THEN Append(f[m - 1], q[m]) ELSE f[m - 1]
  BY <1>5
<1>7. \A m \in 0..Len(q) : f[m] = IF m = 0 THEN <<>>
          ELSE IF m \in K THEN Append(f[m - 1], q[m]) ELSE f[m - 1]
  <2> TAKE m \in 0..Len(q)
  <2>1. CASE m = 0
    BY <1>6, <2>1
  <2>2. CASE m # 0
    <3>1. m \in 1..Len(q)
      BY <1>1, <2>2
    <3> QED  BY <1>6, <2>2, <3>1
  <2> QED  BY <2>1, <2>2
<1>8. PickedUpTo(q, K, f)
  BY <1>6, <1>7 DEF PickedUpTo
<1> QED  BY <1>8

\* r has the messages of q at the positions of K.
Selects(r, q, K) == /\ \A i \in 1..Len(r) : \E k \in K : r[i] = q[k]
                    /\ \A k \in K : \E i \in 1..Len(r) : r[i] = q[k]

LEMMA SelectsOneMore ==
    ASSUME NEW T, NEW q, NEW K, NEW k, NEW r \in Seq(T), q[k] \in T, Selects(r, q, K)
    PROVE  Append(r, q[k]) \in Seq(T) /\ Selects(Append(r, q[k]), q, K \cup {k})
<1> DEFINE s == Append(r, q[k])
<1>1. /\ s \in Seq(T) /\ Len(s) = Len(r) + 1 /\ \A i \in 1..Len(r) : s[i] = r[i]
      /\ s[Len(r) + 1] = q[k] /\ Len(r) \in Nat
  BY AppendProperties
<1> HIDE DEF s
<1>2. ASSUME NEW i \in 1..Len(s) PROVE \E l \in K \cup {k} : s[i] = q[l]
  <2>1. CASE i \in 1..Len(r)
    BY <1>1, <2>1 DEF Selects
  <2>2. CASE i = Len(r) + 1
    BY <1>1, <2>2
  <2> QED  BY <1>1, <2>1, <2>2
<1>3. ASSUME NEW l \in K \cup {k} PROVE \E i \in 1..Len(s) : s[i] = q[l]
  <2>1. CASE l \in K
    <3>1. PICK i \in 1..Len(r) : r[i] = q[l]
      BY <2>1 DEF Selects
    <3>2. i \in 1..Len(s)
      BY <1>1, <3>1
    <3> QED  BY <1>1, <3>1, <3>2
  <2>2. CASE l = k
    <3>1. Len(r) + 1 \in 1..Len(s)
      BY <1>1
    <3> QED  BY <1>1, <2>2, <3>1
  <2> QED  BY <2>1, <2>2
<1> QED  BY <1>1, <1>2, <1>3 DEF Selects, s

LEMMA PickedIs ==
    ASSUME NEW T, NEW q \in Seq(T), NEW K \in SUBSET (1..Len(q))
    PROVE  Picked(q, K) \in Seq(T) /\ Selects(Picked(q, K), q, K)
<1> DEFINE f == CHOOSE h : PickedUpTo(q, K, h)
           Upto(n) == {i \in 1..n : i \in K}
           P == {n \in Nat : n <= Len(q) => f[n] \in Seq(T) /\ Selects(f[n], q, Upto(n))}
<1>1. PickedUpTo(q, K, f)
  BY PickedUpToExists
<1>2. Picked(q, K) = f[Len(q)]
  BY DEF Picked, PickedUpTo
<1> HIDE DEF f
<1>3. /\ f[0] = <<>>
      /\ \A n \in 1..Len(q) : f[n] = IF n \in K THEN Append(f[n - 1], q[n]) ELSE f[n - 1]
  <2>1. 0 \in 0..Len(q) /\ \A n \in 1..Len(q) : n \in 0..Len(q) /\ n # 0
    OBVIOUS
  <2>2. \A n \in 0..Len(q) : f[n] = IF n = 0 THEN <<>>
            ELSE IF n \in K THEN Append(f[n - 1], q[n]) ELSE f[n - 1]
    BY <1>1, Zenon DEF PickedUpTo
  <2>3. f[0] = <<>>
    BY <2>1, <2>2, Zenon
  <2> QED  BY <2>1, <2>2, <2>3, Zenon
<1>4. Len(q) \in Nat
  OBVIOUS
<1>5. 0 \in P
  <2>1. Upto(0) = {}
    OBVIOUS
  <2>2. f[0] \in Seq(T) /\ Selects(f[0], q, {})
    BY <1>3 DEF Selects
  <2> QED  BY <2>1, <2>2
<1>6. ASSUME NEW n \in Nat, n \in P PROVE n + 1 \in P
  <2> SUFFICES ASSUME n + 1 <= Len(q)
               PROVE  f[n + 1] \in Seq(T) /\ Selects(f[n + 1], q, Upto(n + 1))
    OBVIOUS
  <2>1. f[n] \in Seq(T) /\ Selects(f[n], q, Upto(n)) /\ n + 1 \in 1..Len(q)
    BY <1>4, <1>6
  <2>2. f[n + 1] = IF n + 1 \in K THEN Append(f[n], q[n + 1]) ELSE f[n]
    BY <1>3, <2>1
  <2>3. CASE n + 1 \in K
    <3>1. Upto(n + 1) = Upto(n) \cup {n + 1} /\ q[n + 1] \in T
      BY <2>1, <2>3
    <3> HIDE DEF Upto
    <3>2. /\ Append(f[n], q[n + 1]) \in Seq(T)
          /\ Selects(Append(f[n], q[n + 1]), q, Upto(n) \cup {n + 1})
      BY <2>1, <3>1, SelectsOneMore
    <3> QED  BY <2>2, <2>3, <3>1, <3>2
  <2>4. CASE n + 1 \notin K
    <3>1. Upto(n + 1) = Upto(n)
      BY <2>4
    <3> QED  BY <2>1, <2>2, <2>4, <3>1
  <2> QED  BY <2>3, <2>4
<1>7. Nat \subseteq P
  <2> HIDE DEF P
  <2> QED  BY <1>5, <1>6, UpFromZero
<1>8. Upto(Len(q)) = K
  BY <1>4
<1>9. f[Len(q)] \in Seq(T) /\ Selects(f[Len(q)], q, Upto(Len(q)))
  <2>1. Len(q) \in P
    <3> HIDE DEF P
    <3> QED  BY <1>4, <1>7
  <2> QED  BY <2>1
<1> QED  BY <1>2, <1>8, <1>9

\* What Of makes of the operations on queues.
LEMMA OfNone == Of(<<>>) = {} /\ Ids(<<>>) = {}
BY DEF Of, Ids
LEMMA OfOne == ASSUME NEW p PROVE Of(<<p>>) = {Core(p)} /\ Ids(<<p>>) = {p.id}
BY DEF Of, Ids
LEMMA IdsAre == ASSUME NEW s PROVE Ids(s) = {c.id : c \in Of(s)}
<1>1. \A i \in 1..Len(s) : Core(s[i]).id = s[i].id
  BY DEF Core
<1>2. \A i \in 1..Len(s) : Core(s[i]) \in Of(s) /\ s[i].id \in Ids(s)
  BY DEF Of, Ids
<1>3. \A c \in Of(s) : \E i \in 1..Len(s) : c = Core(s[i])
  BY DEF Of
<1>4. \A x \in Ids(s) : \E i \in 1..Len(s) : x = s[i].id
  BY DEF Ids
<1> QED  BY <1>1, <1>2, <1>3, <1>4
LEMMA OfSelects ==
    ASSUME NEW q, NEW r, NEW K \in SUBSET (1..Len(q)), Selects(r, q, K)
    PROVE  Of(r) = {Core(q[k]) : k \in K}
BY DEF Of, Selects
LEMMA OfConcat ==
    ASSUME NEW q \in Seq(Chats), NEW r \in Seq(Chats)
    PROVE  q \o r \in Seq(Chats) /\ Of(q \o r) = Of(q) \cup Of(r)
<1> DEFINE s == q \o r
<1>1. /\ s \in Seq(Chats) /\ Len(s) = Len(q) + Len(r) /\ Len(q) \in Nat /\ Len(r) \in Nat
      /\ \A i \in 1..(Len(q) + Len(r)) : s[i] = IF i <= Len(q) THEN q[i] ELSE r[i - Len(q)]
  BY ConcatProperties
<1> HIDE DEF s
<1>2. ASSUME NEW i \in 1..Len(s) PROVE Core(s[i]) \in Of(q) \cup Of(r)
  <2>1. CASE i <= Len(q)
    <3>1. i \in 1..Len(q) /\ s[i] = q[i]
      BY <1>1, <2>1
    <3> QED  BY <3>1 DEF Of
  <2>2. CASE ~(i <= Len(q))
    <3>1. i - Len(q) \in 1..Len(r) /\ s[i] = r[i - Len(q)]
      BY <1>1, <2>2
    <3> QED  BY <3>1 DEF Of
  <2> QED  BY <2>1, <2>2
<1>3. \A i \in 1..Len(q) : i \in 1..Len(s) /\ s[i] = q[i]
  BY <1>1
<1>4. ASSUME NEW i \in 1..Len(r) PROVE i + Len(q) \in 1..Len(s) /\ s[i + Len(q)] = r[i]
  <2>1. /\ i + Len(q) \in 1..(Len(q) + Len(r)) /\ ~(i + Len(q) <= Len(q))
        /\ (i + Len(q)) - Len(q) = i
    BY <1>1
  <2> HIDE DEF s
  <2>2. s[i + Len(q)] = r[(i + Len(q)) - Len(q)]
    BY <1>1, <2>1
  <2> QED  BY <1>1, <2>1, <2>2
<1> QED  BY <1>1, <1>2, <1>3, <1>4 DEF Of, s
\* Becoming due changes no message.
LEMMA OfDue ==
    ASSUME NEW q \in Seq(Chats), NEW r \in Seq(Chats), Len(r) = Len(q),
           \A i \in 1..Len(q) : Core(r[i]) = Core(q[i])
    PROVE  Of(r) = Of(q)
BY DEF Of

-----------------------------------------------------------------------------
(* One thread moves.                                                       *)

WorkSound(w) == /\ w.at \in Handling => Len(w.hand) = 1
                /\ w.at \notin Handling => w.hand = <<>>
                /\ w.at = "arrived" => Ids(w.hand) \subseteq acked'
ControlWork(w) == /\ w.at \in {"free", "note", "prune", "write", "remember"} /\ w.snap = <<>>
                  /\ w.at = "write" => w.next = "remember"

LEMMA OneMoves ==
    ASSUME ChatTyped, NEW t \in Threads, NEW w \in Tasks, thread' = [thread EXCEPT ![t] = w],
           acked \subseteq acked', WorkSound(w), t = "control" => ControlWork(w)
    PROVE  /\ thread' \in [Threads -> Tasks] /\ HandsSound' /\ ControlSound'
           /\ thread'[t] = w /\ \A u \in Threads : u # t => thread'[u] = thread[u]
<1>1. /\ thread' \in [Threads -> Tasks] /\ thread'[t] = w
      /\ \A u \in Threads : u # t => thread'[u] = thread[u]
  BY DEF ChatTyped, TypeQueue
<1>2. HandsSound'
  BY <1>1 DEF ChatTyped, HandsSound, WorkSound
<1>3. "control" \in Threads
  BY DEF Threads
<1>4. ControlSound'
  <2>1. CASE t = "control"
    BY <1>1, <2>1 DEF ControlSound, ControlWork
  <2>2. CASE t # "control"
    BY <1>1, <1>3, <2>2 DEF ChatTyped, ControlSound
  <2> QED  BY <2>1, <2>2
<1> QED  BY <1>1, <1>2, <1>4

\* What every step but the start of the process does with messages: it makes
\* none up but those the user writes or sends again, and forgets none.
Fresh(c) == /\ c.meant \in {{}, {known}} /\ [seq |-> c.seq, id |-> c.id] \in history'
            /\ thread["control"].at = "free" \/ c.id \in slipped'
Grows == acked \subseteq acked' /\ given \subseteq given' /\ slipped \subseteq slipped'
Waits(i) == i \in Ids(queue) \cup InHand
Flows ==
    /\ Grows /\ \A c : Live(c)' => Live(c) \/ Fresh(c)
    /\ \A c \in Of(file') : c \in Of(file) \/ Live(c)
    /\ \A i : Waits(i) => Waits(i)' \/ i \in acked' \cup given'
    /\ \A e \in history : e \in history' \/ e.id \in given'
    /\ \A i \in 1..written' : i \in 1..written \/ Waits(i)'

LEMMA FlowsKeep == ASSUME ChatInv, Flows PROVE NothingLost' /\ Traced'
<1>1. NothingLost'
  BY DEF ChatInv, Flows, Grows, NothingLost, Waits
<1>2. ASSUME NEW c, Anywhere(c)'
      PROVE  c.id \in acked' \cup given' \/ [seq |-> c.seq, id |-> c.id] \in history'
  <2>1. CASE Anywhere(c)
    <3>1. c.id \in acked \cup given \/ [seq |-> c.seq, id |-> c.id] \in history
      BY <2>1 DEF ChatInv, Traced
    <3>2. [seq |-> c.seq, id |-> c.id].id = c.id
      OBVIOUS
    <3> QED  BY <3>1, <3>2 DEF Flows, Grows
  <2>2. CASE Fresh(c)
    BY <2>2 DEF Fresh
  <2> QED  BY <1>2, <2>1, <2>2 DEF Anywhere, Flows
<1> QED  BY <1>1, <1>2 DEF Traced

LEMMA FlowsFit ==
    ASSUME ChatInv, Flows, known' = known, NEW m, Anywhere(m)'
    PROVE  MeantFor(m, known)'
<1>1. CASE Anywhere(m)
  BY <1>1 DEF ChatInv, ChatFits, MeantFor, Flows, Grows
<1>2. CASE Fresh(m)
  BY <1>2 DEF Fresh, MeantFor
<1> QED  BY <1>1, <1>2 DEF Anywhere, Flows

\* A thread that is not the control thread leaves what is meant alone.
LEMMA OtherKeeps ==
    ASSUME ChatInv, Flows, known' = known, thread'["control"] = thread["control"]
    PROVE  NothingLost' /\ Traced' /\ ChatFits'
<1> DEFINE k == thread["control"]
<1>1. \A m : Anywhere(m)' => MeantFor(m, known)'
  BY FlowsFit
<1>2. ASSUME k.at = "remember", NEW m, Anywhere(m)' PROVE MeantFor(m, k.arg)'
  <2>1. CASE Anywhere(m)
    BY <1>2, <2>1 DEF ChatInv, ChatFits, MeantFor, Flows, Grows
  <2>2. CASE Fresh(m)
    BY <1>2, <2>2 DEF Fresh, MeantFor
  <2> QED  BY <1>2, <2>1, <2>2 DEF Anywhere, Flows
<1>3. ASSUME k.at = "write", NEW m, Live(m)' PROVE MeantFor(m, k.arg)'
  <2>1. CASE Live(m)
    BY <1>3, <2>1 DEF ChatInv, ChatFits, MeantFor, Flows, Grows
  <2>2. CASE Fresh(m)
    BY <1>3, <2>2 DEF Fresh, MeantFor
  <2> QED  BY <1>3, <2>1, <2>2 DEF Flows
<1> QED  BY <1>1, <1>2, <1>3, FlowsKeep DEF ChatFits, MeantFor

-----------------------------------------------------------------------------
(* Step by step.                                                           *)

LEMMA MoveFlows ==
    ASSUME NEW t \in Threads, NEW w, thread'[t] = w,
           \A u \in Threads : u # t => thread'[u] = thread[u],
           Grows, file' = file, former' = former,
           \A c \in Of(queue') \cup Of(w.hand) \cup Of(w.snap) : Live(c) \/ Fresh(c),
           \A i \in Ids(queue) \cup Ids(thread[t].hand) :
              i \in Ids(queue') \cup Ids(w.hand) \cup acked' \cup given',
           \A e \in history : e \in history' \/ e.id \in given',
           written' = written \/ (written' = written + 1 /\ written' \in Ids(w.hand)),
           written \in Nat
    PROVE  Flows
<1>1. ASSUME NEW c, Live(c)' PROVE Live(c) \/ Fresh(c)
  <2>1. CASE c \in Of(queue') \cup Of(former'.held)
    BY <2>1 DEF Live
  <2>2. ASSUME NEW u \in Threads, c \in Of(thread'[u].hand) \cup Of(thread'[u].snap)
        PROVE  Live(c) \/ Fresh(c)
    <3>1. CASE u = t
      BY <2>2, <3>1
    <3>2. CASE u # t
      BY <2>2, <3>2 DEF Live
    <3> QED  BY <3>1, <3>2
  <2> QED  BY <1>1, <2>1, <2>2 DEF Live
<1>2. \A i : i \in InHand' <=> \E u \in Threads : i \in Ids(thread'[u].hand)
  BY DEF InHand
<1>3. \A i : i \in InHand <=> \E u \in Threads : i \in Ids(thread[u].hand)
  BY DEF InHand
<1>4. ASSUME NEW i, Waits(i) PROVE Waits(i)' \/ i \in acked' \cup given'
  <2>1. CASE i \in Ids(queue) \cup Ids(thread[t].hand)
    BY <1>2, <2>1 DEF Waits
  <2>2. ASSUME NEW u \in Threads, u # t, i \in Ids(thread[u].hand) PROVE i \in InHand'
    BY <1>2, <2>2
  <2> QED  BY <1>3, <1>4, <2>1, <2>2 DEF Waits
<1>5. \A i \in 1..written' : i \in 1..written \/ Waits(i)'
  <2>1. ASSUME written' = written + 1, written' \in Ids(w.hand), NEW i \in 1..written'
        PROVE  i \in 1..written \/ Waits(i)'
    <3>1. CASE i = written'
      BY <1>2, <2>1, <3>1 DEF Waits
    <3>2. CASE i # written'
      BY <2>1, <3>2
    <3> QED  BY <3>1, <3>2
  <2> QED  BY <2>1
<1> QED  BY <1>1, <1>4, <1>5 DEF Flows

LEMMA AppendedIs ==
    ASSUME TypeHistory, NEW i \in Nat, Appended(i)
    PROVE  /\ TypeHistory' /\ history \subseteq history'
           /\ [seq |-> nextSeq, id |-> i] \in history'
BY DEF TypeHistory, Appended

LEMMA EntryIs ==
    ASSUME TypeHistory, NEW e \in history PROVE Entry(e.seq) = e
BY DEF TypeHistory, Entry

LEMMA FreeWork == /\ Free \in Tasks /\ Free.hand = <<>> /\ Free.snap = <<>> /\ Free.at = "free"
                  /\ "ui" \in Threads /\ "queue" \in Threads /\ "control" \in Threads
<1>1. <<>> \in Seq(Nat) /\ <<>> \in Seq(Chats)
  OBVIOUS
<1> QED  BY <1>1 DEF Free, Tasks, Threads

LEMMA ThreadIs ==
    ASSUME ChatTyped, NEW t \in Threads
    PROVE  /\ thread[t] \in Tasks /\ queue \in Seq(Chats) /\ thread[t].hand \in Seq(Chats)
           /\ thread[t].snap \in Seq(Chats) /\ thread[t].due \in Seq(Nat)
           /\ thread[t].at \notin Handling => thread[t].hand = <<>>
BY DEF ChatTyped, TypeQueue, HandsSound, Tasks

\* What is in the queue, in a hand or in a copy is live.
LEMMA LiveIs ==
    /\ \A c \in Of(queue) \cup Of(former.held) : Live(c)
    /\ \A t \in Threads : \A c \in Of(thread[t].hand) \cup Of(thread[t].snap) : Live(c)
BY DEF Live

OthersKept == known' = known /\ thread'["control"] = thread["control"]

LEMMA MeantNowIs == ASSUME ChatTyped PROVE MeantNow \in SUBSET (Nat \ {0}) /\ MeantNow \in {{}, {known}}
BY DEF ChatTyped, TypeWorld, MeantNow

\* A message is taken into the user's hand.
LEMMA HandTyped ==
    ASSUME ChatTyped, NEW s \in Nat, NEW i \in Nat,
           thread' = [thread EXCEPT !["ui"] = [Free EXCEPT !.at = "push",
                                       !.hand = <<Pending(s, i, MeantNow)>>]],
           acked' = acked
    PROVE  /\ thread' \in [Threads -> Tasks] /\ HandsSound' /\ ControlSound'
           /\ thread'["ui"].hand = <<Pending(s, i, MeantNow)>> /\ thread'["ui"].snap = <<>>
           /\ \A u \in Threads : u # "ui" => thread'[u] = thread[u]
           /\ Of(thread'["ui"].hand) = {[seq |-> s, id |-> i, meant |-> MeantNow]}
           /\ Ids(thread'["ui"].hand) = {i}
<1> DEFINE p == Pending(s, i, MeantNow)
           w == [Free EXCEPT !.at = "push", !.hand = <<p>>]
<1>1. p \in Chats /\ Core(p) = [seq |-> s, id |-> i, meant |-> MeantNow] /\ p.id = i
  BY MeantNowIs DEF Pending, Chats, Core
<1> HIDE DEF p
<1>2. <<p>> \in Seq(Chats) /\ Len(<<p>>) = 1
  BY <1>1
<1>3. w \in Tasks /\ w.hand = <<p>> /\ w.snap = <<>> /\ w.at = "push"
  BY <1>2, FreeWork DEF Tasks, Free
<1> HIDE DEF w
<1>4. WorkSound(w) /\ thread' = [thread EXCEPT !["ui"] = w]
  BY <1>2, <1>3 DEF WorkSound, Handling, w, p
<1>5. /\ thread' \in [Threads -> Tasks] /\ HandsSound' /\ ControlSound'
      /\ thread'["ui"] = w /\ \A u \in Threads : u # "ui" => thread'[u] = thread[u]
  BY <1>3, <1>4, FreeWork, OneMoves
<1> QED  BY <1>1, <1>3, <1>5, OfOne DEF p

LEMMA SendMoves == ASSUME ChatTyped, Send PROVE ChatTyped' /\ Flows /\ OthersKept
<1>1. /\ written' = written + 1 /\ Appended(written') /\ written' \in Nat /\ nextSeq \in Nat
      /\ written \in Nat
  BY DEF Send, ChatTyped, TypeWorld, TypeHistory
<1>2. /\ TypeHistory' /\ history \subseteq history'
      /\ [seq |-> nextSeq, id |-> written'] \in history'
  BY <1>1, AppendedIs DEF ChatTyped
<1>3. /\ thread' \in [Threads -> Tasks] /\ HandsSound' /\ ControlSound' /\ thread'["ui"].snap = <<>>
      /\ \A u \in Threads : u # "ui" => thread'[u] = thread[u]
      /\ Of(thread'["ui"].hand) = {[seq |-> nextSeq, id |-> written', meant |-> MeantNow]}
      /\ Ids(thread'["ui"].hand) = {written'}
  BY <1>1, HandTyped DEF Send
<1>4. ChatTyped'
  BY <1>1, <1>2, <1>3 DEF ChatTyped, TypeWorld, TypeQueue, Send
<1>5. thread["ui"].hand = <<>>
  BY FreeWork, ThreadIs DEF Send, Handling
<1>6. Fresh([seq |-> nextSeq, id |-> written', meant |-> MeantNow])
  BY <1>2, MeantNowIs DEF Fresh, Send, WhileReconciling
<1>7. Grows
  BY DEF Send, Grows
<1>8. Flows
  <2>1. \A c \in Of(queue') \cup Of(thread'["ui"].hand) \cup Of(thread'["ui"].snap) :
           Live(c) \/ Fresh(c)
    BY <1>3, <1>6, LiveIs, OfNone DEF Send
  <2>2. \A i \in Ids(queue) \cup Ids(thread["ui"].hand) : i \in Ids(queue')
    BY <1>5, OfNone DEF Send
  <2> QED  BY <1>1, <1>2, <1>3, <1>7, <2>1, <2>2, FreeWork, MoveFlows DEF Send
<1> QED  BY <1>3, <1>4, <1>8, FreeWork DEF OthersKept, Send

\* A thread with nothing in its hand goes on, with nothing in its hand.
LEMMA EmptyMove ==
    ASSUME ChatTyped, NEW t \in {"ui", "queue"}, NEW w \in Tasks, thread' = [thread EXCEPT ![t] = w],
           thread[t].at \notin Handling, w.at \notin Handling, w.hand = <<>>,
           queue' \in Seq(Chats), Of(queue') \subseteq Of(queue), Of(w.snap) \subseteq Of(queue'),
           \A i \in Ids(queue) : i \in Ids(queue') \cup acked' \cup given',
           file' = file, written' = written, Grows,
           \A e \in history : e \in history' \/ e.id \in given',
           TypeHistory', UNCHANGED <<holder, former, ledger, known, holders>>, ops' \in Nat, deaths' = deaths
    PROVE  ChatTyped' /\ Flows /\ OthersKept
<1>1. t \in Threads /\ t # "control" /\ "control" \in Threads
  BY DEF Threads
<1>2. WorkSound(w) /\ acked \subseteq acked'
  BY DEF WorkSound, Handling, Grows
<1>3. /\ thread' \in [Threads -> Tasks] /\ HandsSound' /\ ControlSound'
      /\ thread'[t] = w /\ \A u \in Threads : u # t => thread'[u] = thread[u]
  BY <1>1, <1>2, OneMoves
<1>4. ChatTyped'
  BY <1>3 DEF ChatTyped, TypeWorld, TypeQueue
<1>5. thread[t].hand = <<>> /\ written \in Nat
  BY <1>1, ThreadIs DEF ChatTyped, TypeWorld
<1>6. Flows
  <2>1. \A c \in Of(queue') \cup Of(w.hand) \cup Of(w.snap) : Live(c) \/ Fresh(c)
    BY LiveIs, OfNone
  <2>2. \A i \in Ids(queue) \cup Ids(thread[t].hand) :
           i \in Ids(queue') \cup Ids(w.hand) \cup acked' \cup given'
    BY <1>5, OfNone
  <2> QED  BY <1>1, <1>3, <1>5, <2>1, <2>2, MoveFlows
<1> QED  BY <1>1, <1>3, <1>4, <1>6 DEF OthersKept

LEMMA ResendMoves ==
    ASSUME ChatTyped, NEW s \in Nat, Resend(s) PROVE ChatTyped' /\ Flows /\ OthersKept
<1>1. PICK e \in history : e.seq = s /\ e.id # 0
  BY DEF Resend
<1>2. Entry(s) = e /\ e \in [seq : Nat, id : Nat]
  BY <1>1, EntryIs DEF ChatTyped, TypeHistory
<1>3. /\ TypeHistory' /\ history' = history /\ file' = file /\ written' = written /\ written \in Nat
      /\ acked' = acked /\ given' = given /\ ops' \in Nat /\ deaths' = deaths
      /\ UNCHANGED <<holder, former, ledger, known, holders>>
  <2>1. /\ UNCHANGED <<holder, former, ledger, known, history, nextSeq, file, holders, written, deaths,
                       acked, given>>
        /\ ops' = ops + 1
    BY Zenon DEF Resend
  <2> QED  BY <2>1 DEF ChatTyped, TypeHistory, TypeWorld
<1>4. Grows
  BY <1>3 DEF Resend, Grows
<1>5. thread["ui"].at = "free" /\ thread["ui"].hand = <<>> /\ "ui" \in Threads /\ queue \in Seq(Chats)
  BY FreeWork, ThreadIs DEF Resend, Handling
<1>6. CASE \E i \in 1..Len(queue) : queue[i].seq = s
  <2> DEFINE First(i) == queue[i].seq = s /\ \A j \in 1..(i - 1) : queue[j].seq # s
             first == CHOOSE i \in 1..Len(queue) : First(i)
             w == [Free EXCEPT !.at = "pump"]
  <2>1. \E i \in 1..Len(queue) : First(i)
    <3> DEFINE Z == {i \in 1..Len(queue) : queue[i].seq = s}
    <3>1. Z \in SUBSET Nat /\ Z # {}
      BY <1>5, <1>6
    <3>2. PICK x \in Z : \A y \in Z : x <= y
      BY <3>1, LeastOf
    <3>3. \A j \in 1..(x - 1) : j \in 1..Len(queue) /\ ~(x <= j)
      BY <1>5, <3>2
    <3> QED  BY <3>2, <3>3
  <2>2. first \in 1..Len(queue)
    BY <2>1
  <2>3. queue' = [queue EXCEPT ![first].due = TRUE] /\ thread' = [thread EXCEPT !["ui"] = w]
    BY <1>6 DEF Resend
  <2> HIDE DEF first
  <2> DEFINE p == [queue[first] EXCEPT !.due = TRUE]
  <2>a. queue[first] \in Chats
    BY <1>5, <2>2
  <2>b. p \in Chats /\ Core(p) = Core(queue[first])
    BY <2>a DEF Chats, Core
  <2>c. queue' = [queue EXCEPT ![first] = p]
    BY <2>3
  <2> HIDE DEF p
  <2>4. queue' \in Seq(Chats) /\ Len(queue') = Len(queue)
    BY <1>5, <2>2, <2>b, <2>c, ExceptSeq
  <2>5. \A i \in 1..Len(queue) : Core(queue'[i]) = Core(queue[i])
    BY <1>5, <2>2, <2>b, <2>c
  <2>6. Of(queue') = Of(queue)
    BY <1>5, <2>4, <2>5, OfDue
  <2>7. Ids(queue') = Ids(queue)
    BY <2>6, IdsAre
  <2>8. w \in Tasks /\ w.at = "pump" /\ w.hand = <<>> /\ w.snap = <<>>
    BY FreeWork DEF Free, Tasks
  <2> HIDE DEF w
  <2>9. "ui" \in {"ui", "queue"} /\ "free" \notin Handling /\ "pump" \notin Handling
    BY DEF Handling
  <2>10. Of(w.snap) = {}
    BY <2>8, OfNone
  <2> QED  BY <1>3, <1>4, <1>5, <2>3, <2>4, <2>6, <2>7, <2>8, <2>9, <2>10, EmptyMove
<1>7. CASE ~\E i \in 1..Len(queue) : queue[i].seq = s
  <2>1. /\ thread' = [thread EXCEPT !["ui"] = [Free EXCEPT !.at = "push",
                                     !.hand = <<Pending(s, e.id, MeantNow)>>]]
        /\ queue' = queue
    BY <1>2, <1>7 DEF Resend
  <2>2. e.id \in Nat
    BY <1>2
  <2>3. /\ thread' \in [Threads -> Tasks] /\ HandsSound' /\ ControlSound'
        /\ thread'["ui"].snap = <<>>
        /\ \A u \in Threads : u # "ui" => thread'[u] = thread[u]
        /\ Of(thread'["ui"].hand) = {[seq |-> s, id |-> e.id, meant |-> MeantNow]}
    BY <1>3, <2>1, <2>2, HandTyped
  <2>4. ChatTyped'
    BY <1>3, <2>1, <2>3 DEF ChatTyped, TypeWorld, TypeQueue
  <2>5. [seq |-> s, id |-> e.id] \in history
    <3>1. [seq |-> s, id |-> e.id] = e
      BY <1>1, <1>2
    <3> QED  BY <3>1
  <2>6. thread["control"].at = "free" \/ e.id \in slipped'
    BY <1>2 DEF Resend, WhileReconciling
  <2>7. Fresh([seq |-> s, id |-> e.id, meant |-> MeantNow])
    BY <1>3, <2>5, <2>6, MeantNowIs DEF Fresh
  <2>8. \A c \in Of(queue') \cup Of(thread'["ui"].hand) \cup Of(thread'["ui"].snap) :
           Live(c) \/ Fresh(c)
    BY <2>1, <2>3, <2>7, LiveIs, OfNone
  <2>9. \A i \in Ids(queue) \cup Ids(thread["ui"].hand) : i \in Ids(queue')
    BY <1>5, <2>1, OfNone
  <2>10. Flows
    BY <1>3, <1>4, <1>5, <2>3, <2>8, <2>9, MoveFlows
  <2> QED  BY <1>3, <2>3, <2>4, <2>10, FreeWork DEF OthersKept
<1> QED  BY <1>6, <1>7

LEMMA PushMoves == ASSUME ChatTyped, Push PROVE ChatTyped' /\ Flows /\ OthersKept
<1> DEFINE w == [Free EXCEPT !.at = "pump"]
           h == thread["ui"].hand
<1>1. w \in Tasks /\ w.at = "pump" /\ w.hand = <<>> /\ w.snap = <<>>
  BY FreeWork DEF Free, Tasks
<1>2. thread' = [thread EXCEPT !["ui"] = w] /\ queue' = queue \o h
  BY DEF Push
<1> HIDE DEF w
<1>3. "ui" \in Threads /\ h \in Seq(Chats) /\ queue \in Seq(Chats)
  BY FreeWork, ThreadIs
<1>4. queue' \in Seq(Chats) /\ Of(queue') = Of(queue) \cup Of(h)
  BY <1>2, <1>3, OfConcat
<1>5. WorkSound(w) /\ acked \subseteq acked' /\ Grows
  BY <1>1 DEF WorkSound, Handling, Push, Grows
<1>6. /\ thread' \in [Threads -> Tasks] /\ HandsSound' /\ ControlSound'
      /\ thread'["ui"] = w /\ \A u \in Threads : u # "ui" => thread'[u] = thread[u]
  BY <1>1, <1>2, <1>3, <1>5, OneMoves
<1>7. ChatTyped'
  BY <1>4, <1>6 DEF ChatTyped, TypeWorld, TypeQueue, TypeHistory, Push, world
<1>8. \A c \in Of(queue') \cup Of(w.hand) \cup Of(w.snap) : Live(c) \/ Fresh(c)
  BY <1>1, <1>3, <1>4, LiveIs, OfNone
<1>9. \A i \in Ids(queue) \cup Ids(thread["ui"].hand) : i \in Ids(queue')
  BY <1>4, IdsAre
<1>10. Flows
  BY <1>3, <1>5, <1>6, <1>8, <1>9, MoveFlows DEF Push, world, ChatTyped, TypeWorld
<1> QED  BY <1>6, <1>7, <1>10, FreeWork DEF OthersKept, Push

LEMMA CancelMoves ==
    ASSUME ChatTyped, Traced, NEW s \in Nat, Cancel(s) PROVE ChatTyped' /\ Flows /\ OthersKept
<1> DEFINE K == {i \in 1..Len(queue) : queue[i].seq # s}
           w == [Free EXCEPT !.at = "write", !.snap = queue']
<1>1. PICK e \in history : e.seq = s /\ e.id # 0
  BY DEF Cancel
<1>2. Entry(s) = e /\ e \in [seq : Nat, id : Nat]
  BY <1>1, EntryIs DEF ChatTyped, TypeHistory
<1>3. thread["ui"].at = "free" /\ "ui" \in Threads /\ queue \in Seq(Chats)
  BY FreeWork, ThreadIs DEF Cancel
<1>4. queue' = Picked(queue, K) /\ K \in SUBSET (1..Len(queue))
  BY DEF Cancel
<1>5. queue' \in Seq(Chats) /\ Of(queue') = {Core(queue[k]) : k \in K}
  <2> HIDE DEF K
  <2>1. Picked(queue, K) \in Seq(Chats) /\ Selects(Picked(queue, K), queue, K)
    BY <1>3, <1>4, PickedIs
  <2> QED  BY <1>4, <2>1, OfSelects
<1>6. Of(queue') \subseteq Of(queue)
  BY <1>5 DEF Of
<1>7. given' = given \cup {e.id}
  BY <1>2 DEF Cancel
<1>8. Grows
  BY <1>7 DEF Grows, Cancel
<1>9. ASSUME NEW i \in Ids(queue) PROVE i \in Ids(queue') \cup acked' \cup given'
  <2>1. PICK j \in 1..Len(queue) : i = queue[j].id
    BY DEF Ids
  <2>2. CASE j \in K
    <3>1. Core(queue[j]) \in Of(queue') /\ Core(queue[j]).id = i
      BY <1>5, <2>1, <2>2 DEF Core
    <3> QED  BY <3>1, IdsAre
  <2>3. CASE j \notin K
    <3>1. queue[j].seq = s /\ Core(queue[j]) \in Of(queue)
      BY <2>1, <2>3 DEF Of
    <3>2. Core(queue[j]).id = i /\ Core(queue[j]).seq = s
      BY <2>1, <3>1 DEF Core
    <3>3. i \in acked \cup given \/ [seq |-> s, id |-> i] \in history
      BY <3>1, <3>2, LiveIs DEF Traced, Anywhere
    <3>4. ASSUME [seq |-> s, id |-> i] \in history PROVE i = e.id
      <4>1. [seq |-> s, id |-> i] = e
        BY <1>1, <3>4 DEF ChatTyped, TypeHistory
      <4> QED  BY <4>1
    <3> QED  BY <1>7, <1>8, <3>3, <3>4 DEF Grows
  <2> QED  BY <2>2, <2>3
<1>10. thread' = [thread EXCEPT !["ui"] = w]
  BY DEF Cancel
<1> HIDE DEF K
<1>11. w \in Tasks /\ w.at = "write" /\ w.hand = <<>> /\ w.snap = queue'
  BY <1>5, FreeWork DEF Free, Tasks
<1> HIDE DEF w
<1>12. "ui" \in {"ui", "queue"} /\ "free" \notin Handling /\ "write" \notin Handling
  BY DEF Handling
<1>13. /\ TypeHistory' /\ history' = history /\ file' = file /\ written' = written
       /\ ops' \in Nat /\ deaths' = deaths /\ UNCHANGED <<holder, former, ledger, known, holders>>
  BY DEF Cancel, ChatTyped, TypeHistory, TypeWorld
<1> QED  BY <1>3, <1>5, <1>6, <1>8, <1>9, <1>10, <1>11, <1>12, <1>13, EmptyMove

LEMMA EraseMoves == ASSUME ChatTyped, Traced, Erase PROVE ChatTyped' /\ Flows /\ OthersKept
<1> DEFINE w == [Free EXCEPT !.at = "write", !.next = "erase"]
<1>1. thread["ui"].at = "free" /\ queue' = <<>> /\ thread' = [thread EXCEPT !["ui"] = w]
  BY DEF Erase
<1>2. w \in Tasks /\ w.at = "write" /\ w.hand = <<>> /\ w.snap = <<>>
  BY FreeWork DEF Free, Tasks
<1> HIDE DEF w
<1>3. queue' \in Seq(Chats) /\ Of(queue') = {} /\ Of(w.snap) = {}
  BY <1>1, <1>2, OfNone
<1>4. given' = given \cup {e.id : e \in history} /\ Grows
  BY DEF Erase, Grows
<1>5. ASSUME NEW i \in Ids(queue) PROVE i \in acked' \cup given'
  <2>1. PICK c \in Of(queue) : i = c.id
    BY IdsAre
  <2>2. c.id \in acked \cup given \/ [seq |-> c.seq, id |-> c.id] \in history
    BY <2>1, LiveIs DEF Traced, Anywhere
  <2>3. [seq |-> c.seq, id |-> c.id].id = c.id
    OBVIOUS
  <2> QED  BY <1>4, <2>1, <2>2, <2>3 DEF Grows
<1>6. "ui" \in {"ui", "queue"} /\ "free" \notin Handling /\ "write" \notin Handling
  BY DEF Handling
<1>7. /\ TypeHistory' /\ history' = history /\ file' = file /\ written' = written
      /\ ops' \in Nat /\ deaths' = deaths /\ UNCHANGED <<holder, former, ledger, known, holders>>
  BY DEF Erase, ChatTyped, TypeHistory, TypeWorld
<1> QED  BY <1>1, <1>2, <1>3, <1>4, <1>5, <1>6, <1>7, EmptyMove

LEMMA EraseHistoryMoves == ASSUME ChatTyped, EraseHistory PROVE ChatTyped' /\ Flows /\ OthersKept
<1> DEFINE w == [thread["ui"] EXCEPT !.at = "free"]
<1>1. thread["ui"].at = "erase" /\ thread' = [thread EXCEPT !["ui"] = w]
  BY DEF EraseHistory, Goto
<1>2. thread["ui"] \in Tasks /\ thread["ui"].hand = <<>> /\ queue \in Seq(Chats)
  BY <1>1, FreeWork, ThreadIs DEF Handling
<1>3. w \in Tasks /\ w.at = "free" /\ w.hand = <<>> /\ w.snap = thread["ui"].snap
  BY <1>2 DEF Tasks
<1> HIDE DEF w
<1>4. WorkSound(w) /\ acked \subseteq acked' /\ Grows
  BY <1>3 DEF WorkSound, Handling, EraseHistory, Grows
<1>5. /\ thread' \in [Threads -> Tasks] /\ HandsSound' /\ ControlSound'
      /\ thread'["ui"] = w /\ \A u \in Threads : u # "ui" => thread'[u] = thread[u]
  BY <1>1, <1>3, <1>4, FreeWork, OneMoves
<1>6. TypeHistory'
  BY DEF ChatTyped, TypeHistory, EraseHistory
<1>7. ChatTyped'
  BY <1>5, <1>6 DEF ChatTyped, TypeWorld, TypeQueue, EraseHistory, world
<1>8. Flows
  <2>1. \A c \in Of(queue') \cup Of(w.hand) \cup Of(w.snap) : Live(c) \/ Fresh(c)
    BY <1>3, FreeWork, LiveIs, OfNone DEF EraseHistory
  <2>2. \A i \in Ids(queue) \cup Ids(thread["ui"].hand) : i \in Ids(queue')
    BY <1>2, OfNone DEF EraseHistory
  <2>3. \A e \in history : e.id \in given'
    BY DEF EraseHistory
  <2> QED  BY <1>4, <1>5, <2>1, <2>2, <2>3, FreeWork, MoveFlows
           DEF EraseHistory, world, ChatTyped, TypeWorld
<1> QED  BY <1>5, <1>7, <1>8, FreeWork DEF OthersKept, EraseHistory

LEMMA WakeMoves == ASSUME ChatTyped, Wake PROVE ChatTyped' /\ Flows /\ OthersKept
<1> DEFINE w == [Free EXCEPT !.at = "pump"]
<1>1. thread["queue"].at = "free" /\ thread' = [thread EXCEPT !["queue"] = w]
  BY DEF Wake
<1>2. w \in Tasks /\ w.at = "pump" /\ w.hand = <<>> /\ w.snap = <<>>
  BY FreeWork DEF Free, Tasks
<1> HIDE DEF w
<1>3. "queue" \in {"ui", "queue"} /\ "free" \notin Handling /\ "pump" \notin Handling
  BY DEF Handling
<1>4. /\ TypeHistory' /\ queue' \in Seq(Chats) /\ ops' \in Nat /\ deaths' = deaths /\ Grows
      /\ UNCHANGED <<holder, former, ledger, known, holders, queue, history, file, written>>
  BY DEF Wake, world, ChatTyped, TypeHistory, TypeWorld, TypeQueue, Grows
<1>5. Of(w.snap) = {}
  BY <1>2, OfNone
<1> QED  BY <1>1, <1>2, <1>3, <1>4, <1>5, EmptyMove

LEMMA CollectMoves ==
    ASSUME ChatTyped, NEW t \in {"ui", "queue"}, Collect(t) PROVE ChatTyped' /\ Flows /\ OthersKept
<1> DEFINE K == {i \in 1..Len(queue) : queue[i].due}
           d == Picked(queue, K)
           seqs == [i \in 1..Len(d) |-> d[i].seq]
           w == [thread[t] EXCEPT !.at = "take", !.due = seqs]
<1>1. thread[t].at = "pump" /\ thread' = [thread EXCEPT ![t] = w] /\ t \in Threads
  BY DEF Collect, Threads
<1>2. thread[t] \in Tasks /\ thread[t].hand = <<>> /\ queue \in Seq(Chats)
  BY <1>1, ThreadIs DEF Handling
<1>3. d \in Seq(Chats)
  <2> HIDE DEF K
  <2>1. K \in SUBSET (1..Len(queue))
    BY DEF K
  <2> QED  BY <1>2, <2>1, PickedIs
<1> HIDE DEF d
<1>4. seqs \in Seq(Nat)
  <2>1. Len(d) \in Nat /\ \A i \in 1..Len(d) : d[i] \in Chats
    BY <1>3
  <2>2. \A i \in 1..Len(d) : d[i].seq \in Nat
    BY <2>1 DEF Chats
  <2>3. seqs \in [1..Len(d) -> Nat]
    BY <2>2
  <2> QED  BY <2>1, <2>3
<1> HIDE DEF seqs
<1>5. w \in Tasks /\ w.at = "take" /\ w.hand = <<>> /\ w.snap = thread[t].snap
  BY <1>2, <1>4 DEF Tasks
<1> HIDE DEF w
<1>6. WorkSound(w) /\ acked \subseteq acked' /\ Grows
  BY <1>5 DEF WorkSound, Handling, Collect, Grows
<1>7. /\ thread' \in [Threads -> Tasks] /\ HandsSound' /\ ControlSound'
      /\ thread'[t] = w /\ \A u \in Threads : u # t => thread'[u] = thread[u]
  BY <1>1, <1>5, <1>6, OneMoves
<1>8. UNCHANGED <<world, ledger, known, history, nextSeq, queue, file, acked, given, slipped>>
  BY Zenon DEF Collect
<1>9. ChatTyped'
  BY <1>7, <1>8 DEF ChatTyped, TypeWorld, TypeQueue, TypeHistory, world
<1>10. Flows
  <2>1. \A c \in Of(queue') \cup Of(w.hand) \cup Of(w.snap) : Live(c) \/ Fresh(c)
    BY <1>1, <1>5, <1>8, LiveIs, OfNone
  <2>2. \A i \in Ids(queue) \cup Ids(thread[t].hand) : i \in Ids(queue')
    BY <1>2, <1>8, OfNone
  <2> QED  BY <1>1, <1>6, <1>7, <1>8, <2>1, <2>2, MoveFlows DEF world, ChatTyped, TypeWorld
<1> QED  BY <1>7, <1>8, <1>9, <1>10, FreeWork DEF OthersKept

\* One message is taken out.
LEMMA OfTake ==
    ASSUME NEW q \in Seq(Chats), NEW k \in 1..Len(q)
    PROVE  /\ SubSeq(q, 1, k - 1) \o SubSeq(q, k + 1, Len(q)) \in Seq(Chats)
           /\ Of(q) = Of(SubSeq(q, 1, k - 1) \o SubSeq(q, k + 1, Len(q))) \cup {Core(q[k])}
<1> DEFINE l == SubSeq(q, 1, k - 1)
           r == SubSeq(q, k + 1, Len(q))
<1>1. Len(q) \in Nat /\ k \in Nat /\ k >= 1 /\ k <= Len(q) /\ \A i \in 1..Len(q) : q[i] \in Chats
  OBVIOUS
<1>2. l \in Seq(Chats) /\ Len(l) = k - 1 /\ \A i \in 1..(k - 1) : l[i] = q[i]
  <2>1. 1 \in Int /\ k - 1 \in Int /\ \A i \in 1..(k - 1) : q[i] \in Chats
    BY <1>1
  <2>2. /\ l \in Seq(Chats) /\ Len(l) = IF 1 <= k - 1 THEN (k - 1) - 1 + 1 ELSE 0
        /\ \A i \in 1..((k - 1) - 1 + 1) : l[i] = q[1 + i - 1]
    BY <2>1, SubSeqProperties
  <2> HIDE DEF l
  <2> QED  BY <1>1, <2>2
<1>3. r \in Seq(Chats) /\ Len(r) = Len(q) - k /\ \A i \in 1..(Len(q) - k) : r[i] = q[i + k]
  <2>1. k + 1 \in Int /\ Len(q) \in Int /\ \A i \in (k + 1)..Len(q) : q[i] \in Chats
    BY <1>1
  <2>2. /\ r \in Seq(Chats) /\ Len(r) = IF k + 1 <= Len(q) THEN Len(q) - (k + 1) + 1 ELSE 0
        /\ \A i \in 1..(Len(q) - (k + 1) + 1) : r[i] = q[(k + 1) + i - 1]
    BY <2>1, SubSeqProperties
  <2> HIDE DEF r
  <2>3. Len(r) = Len(q) - k
    BY <1>1, <2>2
  <2>4. ASSUME NEW i \in 1..(Len(q) - k) PROVE r[i] = q[i + k]
    <3>1. i \in 1..(Len(q) - (k + 1) + 1) /\ (k + 1) + i - 1 = i + k
      BY <1>1
    <3>2. r[i] = q[(k + 1) + i - 1]
      BY <2>2, <3>1
    <3> QED  BY <3>1, <3>2
  <2> QED  BY <2>2, <2>3, <2>4
<1>4. l \o r \in Seq(Chats) /\ Of(l \o r) = Of(l) \cup Of(r)
  BY <1>2, <1>3, OfConcat
<1> HIDE DEF l, r
<1>5. \A i \in 1..Len(l) : i \in 1..Len(q) /\ l[i] = q[i]
  BY <1>1, <1>2
<1>6. \A i \in 1..Len(r) : i + k \in 1..Len(q) /\ r[i] = q[i + k]
  BY <1>1, <1>3
<1>7. \A i \in 1..Len(q) : \/ i \in 1..Len(l) /\ q[i] = l[i]
                           \/ i = k
                           \/ i - k \in 1..Len(r) /\ q[i] = r[i - k]
  <2> TAKE i \in 1..Len(q)
  <2>1. CASE i < k
    BY <1>1, <1>2, <2>1
  <2>2. CASE i > k
    <3>1. i - k \in 1..Len(r) /\ (i - k) + k = i
      BY <1>1, <1>3, <2>2
    <3> QED  BY <1>6, <3>1
  <2> QED  BY <1>1, <2>1, <2>2
<1>8. Of(q) \subseteq Of(l) \cup Of(r) \cup {Core(q[k])}
  BY <1>7 DEF Of
<1>9. Of(l) \subseteq Of(q) /\ Of(r) \subseteq Of(q) /\ Core(q[k]) \in Of(q)
  BY <1>5, <1>6 DEF Of
<1> QED  BY <1>4, <1>8, <1>9 DEF l, r

\* Taken out, a message is in the pump's hand.
LEMMA TakenMoves ==
    ASSUME ChatTyped, NEW t \in {"ui", "queue"}, Take(t), thread[t].due # <<>>,
           NEW k \in 1..Len(queue), NEW at \in {"connect", "failed"},
           queue' = SubSeq(queue, 1, k - 1) \o SubSeq(queue, k + 1, Len(queue)),
           thread' = [thread EXCEPT ![t] = [thread[t] EXCEPT !.due = Tail(@), !.hand = <<queue[k]>>,
                                                             !.at = at]]
    PROVE  ChatTyped' /\ Flows /\ OthersKept
<1> DEFINE w == [thread[t] EXCEPT !.due = Tail(@), !.hand = <<queue[k]>>, !.at = at]
<1>1. thread[t].at = "take" /\ t \in Threads
  BY DEF Take, Threads
<1>2. /\ thread[t] \in Tasks /\ thread[t].hand = <<>> /\ queue \in Seq(Chats)
      /\ thread[t].due \in Seq(Nat) /\ queue[k] \in Chats
  <2>1. /\ thread[t] \in Tasks /\ thread[t].hand = <<>> /\ queue \in Seq(Chats)
        /\ thread[t].due \in Seq(Nat)
    BY <1>1, ThreadIs DEF Handling
  <2> QED  BY <2>1
<1>3. Tail(thread[t].due) \in Seq(Nat)
  BY <1>2, HeadTailProperties
<1>4. <<queue[k]>> \in Seq(Chats) /\ Len(<<queue[k]>>) = 1
  BY <1>2
<1>5. w \in Tasks /\ w.at = at /\ w.hand = <<queue[k]>> /\ w.snap = thread[t].snap
  BY <1>2, <1>3, <1>4 DEF Tasks
<1> HIDE DEF w
<1>6. /\ queue' \in Seq(Chats) /\ Of(queue) = Of(queue') \cup {Core(queue[k])}
      /\ Of(w.hand) = {Core(queue[k])} /\ Ids(w.hand) = {queue[k].id}
  BY <1>2, <1>5, OfTake, OfOne
<1>7. UNCHANGED <<world, ledger, known, history, nextSeq, file, acked, given, slipped>>
  BY Zenon DEF Take
<1>8. WorkSound(w) /\ acked \subseteq acked' /\ Grows
  BY <1>4, <1>5, <1>7 DEF WorkSound, Handling, Grows
<1>9. /\ thread' \in [Threads -> Tasks] /\ HandsSound' /\ ControlSound'
      /\ thread'[t] = w /\ \A u \in Threads : u # t => thread'[u] = thread[u]
  BY <1>1, <1>5, <1>8, OneMoves DEF w
<1>10. ChatTyped'
  BY <1>6, <1>7, <1>9 DEF ChatTyped, TypeWorld, TypeQueue, TypeHistory, world
<1>11. Flows
  <2>1. \A c \in Of(queue') \cup Of(w.hand) \cup Of(w.snap) : Live(c) \/ Fresh(c)
    BY <1>1, <1>5, <1>6, LiveIs, OfNone
  <2>2. \A c \in Of(queue) : c.id \in Ids(queue') \cup Ids(w.hand)
    BY <1>6, IdsAre
  <2>3. \A i \in Ids(queue) \cup Ids(thread[t].hand) : i \in Ids(queue') \cup Ids(w.hand)
    BY <1>2, <2>2, OfNone, IdsAre
  <2> QED  BY <1>1, <1>7, <1>8, <1>9, <2>1, <2>3, MoveFlows DEF world, ChatTyped, TypeWorld
<1> QED  BY <1>7, <1>9, <1>10, <1>11, FreeWork DEF OthersKept

LEMMA TakeMoves ==
    ASSUME ChatTyped, NEW t \in {"ui", "queue"}, Take(t) PROVE ChatTyped' /\ Flows /\ OthersKept
<1> DEFINE s == Head(thread[t].due)
           at == {i \in 1..Len(queue) : queue[i].seq = s}
           k == CHOOSE i \in at : \A j \in at : i <= j
<1>1. thread[t].at = "take" /\ t \in Threads
  BY DEF Take, Threads
<1>2. /\ thread[t] \in Tasks /\ thread[t].hand = <<>> /\ queue \in Seq(Chats)
      /\ thread[t].due \in Seq(Nat)
  BY <1>1, ThreadIs DEF Handling
<1>3. UNCHANGED <<world, ledger, known, history, nextSeq, file, acked, given, slipped>>
  BY Zenon DEF Take
<1>4. /\ TypeHistory' /\ ops' \in Nat /\ deaths' = deaths /\ Grows
      /\ UNCHANGED <<holder, former, ledger, known, holders, history, file, written>>
  BY <1>3 DEF world, ChatTyped, TypeHistory, TypeWorld, Grows
<1>5. "take" \notin Handling /\ "write" \notin Handling /\ "free" \notin Handling
  BY DEF Handling
<1>6. CASE thread[t].due = <<>>
  <2>1. thread' = [thread EXCEPT ![t] = AfterPump(t)] /\ queue' = queue
    BY <1>6 DEF Take
  <2>2. /\ AfterPump(t) \in Tasks /\ AfterPump(t).at \in {"write", "free"} /\ AfterPump(t).hand = <<>>
        /\ AfterPump(t).snap \in {<<>>, queue}
    BY <1>2, FreeWork DEF AfterPump, Free, Tasks
  <2>3. Of(AfterPump(t).snap) \subseteq Of(queue')
    BY <2>1, <2>2, OfNone
  <2> HIDE DEF AfterPump
  <2> QED  BY <1>1, <1>2, <1>4, <1>5, <2>1, <2>2, <2>3, EmptyMove
<1>7. CASE thread[t].due # <<>> /\ at = {}
  <2> DEFINE w == [thread[t] EXCEPT !.due = Tail(@)]
  <2>1. thread' = [thread EXCEPT ![t] = w] /\ queue' = queue
    BY <1>7 DEF Take
  <2>2. Tail(thread[t].due) \in Seq(Nat)
    BY <1>2, <1>7, HeadTailProperties
  <2>3. w \in Tasks /\ w.at = "take" /\ w.hand = <<>> /\ w.snap = thread[t].snap
    BY <1>1, <1>2, <2>2 DEF Tasks
  <2> HIDE DEF w
  <2>4. WorkSound(w) /\ acked \subseteq acked'
    BY <1>4, <2>3 DEF WorkSound, Handling, Grows
  <2>5. /\ thread' \in [Threads -> Tasks] /\ HandsSound' /\ ControlSound'
        /\ thread'[t] = w /\ \A u \in Threads : u # t => thread'[u] = thread[u]
    BY <1>1, <2>1, <2>3, <2>4, OneMoves
  <2>6. ChatTyped'
    BY <1>3, <1>4, <2>1, <2>5 DEF ChatTyped, TypeWorld, TypeQueue, world
  <2>7. \A c \in Of(queue') \cup Of(w.hand) \cup Of(w.snap) : Live(c) \/ Fresh(c)
    BY <1>1, <2>1, <2>3, LiveIs, OfNone
  <2>8. \A i \in Ids(queue) \cup Ids(thread[t].hand) : i \in Ids(queue')
    BY <1>2, <2>1, OfNone
  <2>9. Flows
    BY <1>1, <1>4, <2>5, <2>7, <2>8, MoveFlows DEF ChatTyped, TypeWorld
  <2> QED  BY <1>4, <2>5, <2>6, <2>9, FreeWork DEF OthersKept
<1>8. CASE thread[t].due # <<>> /\ at # {}
  <2>1. k \in at
    <3>1. at \in SUBSET Nat
      OBVIOUS
    <3>2. \E i \in at : \A j \in at : i <= j
      BY <1>8, <3>1, LeastOf
    <3> QED  BY <3>2
  <2>2. /\ queue' = SubSeq(queue, 1, k - 1) \o SubSeq(queue, k + 1, Len(queue))
        /\ thread' = [thread EXCEPT ![t].due = Tail(@), ![t].hand = <<queue[k]>>,
                          ![t].at = IF SamePerson(queue[k], ledger) THEN "connect" ELSE "failed"]
    BY <1>8 DEF Take
  <2>3. k \in 1..Len(queue)
    BY <2>1
  <2> HIDE DEF k, at, s
  <2>4. PICK a \in {"connect", "failed"} : a = IF SamePerson(queue[k], ledger) THEN "connect" ELSE "failed"
    OBVIOUS
  <2>5. thread' = [thread EXCEPT ![t] = [thread[t] EXCEPT !.due = Tail(@), !.hand = <<queue[k]>>,
                                                          !.at = a]]
    BY <1>1, <1>2, <2>2, <2>4 DEF ChatTyped, TypeQueue, Tasks
  <2> QED  BY <1>8, <2>2, <2>3, <2>5, TakenMoves
<1> QED  BY <1>6, <1>7, <1>8

\* Of a thread that handles a message: the message.
LEMMA HandIs ==
    ASSUME ChatTyped, NEW t \in Threads, thread[t].at \in Handling
    PROVE  /\ thread[t].hand = <<thread[t].hand[1]>> /\ thread[t].hand[1] \in Chats
           /\ thread[t].at = "arrived" => thread[t].hand[1].id \in acked
<1>1. thread[t].hand \in Seq(Chats) /\ Len(thread[t].hand) = 1
  BY ThreadIs DEF ChatTyped, HandsSound
<1> DEFINE p == thread[t].hand[1]
<1>2. p \in Chats /\ thread[t].hand = <<p>>
  BY <1>1
<1>3. Ids(thread[t].hand) = {p.id}
  BY <1>2, OfOne
<1> QED  BY <1>2, <1>3 DEF ChatTyped, HandsSound

LEMMA ConnectMoves ==
    ASSUME ChatTyped, NEW t \in {"ui", "queue"}, Connect(t) PROVE ChatTyped' /\ Flows /\ OthersKept
<1> DEFINE p == thread[t].hand[1]
<1>1. thread[t].at = "connect" /\ t \in Threads /\ "connect" \in Handling
  BY DEF Connect, Threads, Handling
<1>2. thread[t] \in Tasks /\ queue \in Seq(Chats) /\ thread[t].hand = <<p>> /\ p \in Chats
  BY <1>1, ThreadIs, HandIs
<1>3. UNCHANGED <<world, ledger, known, history, nextSeq, queue, file, given, slipped>>
  BY Zenon DEF Connect
<1>4. PICK a \in {"failed", "arrived"} :
        /\ thread' = [thread EXCEPT ![t].at = a]
        /\ a = "failed" => acked' = acked
        /\ a = "arrived" => acked' = acked \cup {p.id}
  BY DEF Connect, Goto
<1> DEFINE w == [thread[t] EXCEPT !.at = a]
<1>5. w \in Tasks /\ w.at = a /\ w.hand = <<p>> /\ w.snap = thread[t].snap /\ Len(w.hand) = 1
  BY <1>2 DEF Tasks
<1>6. thread' = [thread EXCEPT ![t] = w]
  BY <1>4
<1> HIDE DEF w
<1>7. Grows /\ Ids(w.hand) = {p.id}
  BY <1>3, <1>4, <1>5, OfOne DEF Grows
<1>8. WorkSound(w)
  BY <1>4, <1>5, <1>7 DEF WorkSound, Handling
<1>9. /\ thread' \in [Threads -> Tasks] /\ HandsSound' /\ ControlSound'
      /\ thread'[t] = w /\ \A u \in Threads : u # t => thread'[u] = thread[u]
  BY <1>1, <1>5, <1>6, <1>7, <1>8, OneMoves DEF Grows
<1>10. ChatTyped'
  BY <1>3, <1>9 DEF ChatTyped, TypeWorld, TypeQueue, TypeHistory, world
<1>11. Flows
  <2>1. \A c \in Of(queue') \cup Of(w.hand) \cup Of(w.snap) : Live(c) \/ Fresh(c)
    BY <1>1, <1>2, <1>3, <1>5, LiveIs
  <2>2. \A i \in Ids(queue) \cup Ids(thread[t].hand) : i \in Ids(queue') \cup Ids(w.hand)
    BY <1>2, <1>3, <1>5
  <2> QED  BY <1>1, <1>3, <1>7, <1>9, <2>1, <2>2, MoveFlows DEF world, ChatTyped, TypeWorld
<1> QED  BY <1>1, <1>3, <1>9, <1>10, <1>11, FreeWork DEF OthersKept

LEMMA PutBackIs ==
    ASSUME NEW p \in Chats, queue \in Seq(Chats)
    PROVE  PutBack(p) \in Seq(Chats) /\ Of(PutBack(p)) = Of(queue) \cup {Core(p)}
<1> DEFINE r == [p EXCEPT !.due = FALSE]
<1>1. r \in Chats /\ Core(r) = Core(p)
  BY DEF Chats, Core
<1>2. PutBack(p) = Append(queue, r)
  BY DEF PutBack
<1> HIDE DEF r
<1>3. <<r>> \in Seq(Chats) /\ Append(queue, r) = queue \o <<r>>
  BY <1>1, AppendIsConcat
<1>4. Of(<<r>>) = {Core(p)}
  BY <1>1, OfOne
<1>5. queue \o <<r>> \in Seq(Chats) /\ Of(queue \o <<r>>) = Of(queue) \cup Of(<<r>>)
  BY <1>3, OfConcat
<1> QED  BY <1>2, <1>3, <1>4, <1>5

LEMMA SettleMoves ==
    ASSUME ChatTyped, NEW t \in {"ui", "queue"}, Settle(t) PROVE ChatTyped' /\ Flows /\ OthersKept
<1> DEFINE p == thread[t].hand[1]
           w == [thread[t] EXCEPT !.at = "write", !.next = "take", !.hand = <<>>, !.snap = queue']
<1>1. thread[t].at \in {"arrived", "failed"} /\ t \in Threads /\ thread[t].at \in Handling
  BY DEF Settle, Threads, Handling
<1>2. /\ thread[t] \in Tasks /\ queue \in Seq(Chats) /\ thread[t].hand = <<p>> /\ p \in Chats
      /\ thread[t].at = "arrived" => p.id \in acked
  BY <1>1, ThreadIs, HandIs
<1>3. UNCHANGED <<world, ledger, known, history, nextSeq, file, acked, given, slipped>>
  BY Zenon DEF Settle
<1>4. thread' = [thread EXCEPT ![t] = w]
  BY DEF Settle
<1>5. queue' = IF thread[t].at = "arrived" THEN queue ELSE PutBack(p)
  BY DEF Settle
<1>6. /\ queue' \in Seq(Chats) /\ Of(queue') \subseteq Of(queue) \cup {Core(p)}
      /\ Of(queue) \subseteq Of(queue')
      /\ thread[t].at = "arrived" \/ Core(p) \in Of(queue')
  BY <1>2, <1>5, PutBackIs
<1>7. w \in Tasks /\ w.at = "write" /\ w.hand = <<>> /\ w.snap = queue'
  <2>1. <<>> \in Seq(Chats)
    OBVIOUS
  <2> QED  BY <1>2, <1>6, <2>1 DEF Tasks
<1> HIDE DEF w
<1>8. WorkSound(w) /\ Grows
  BY <1>3, <1>7 DEF WorkSound, Handling, Grows
<1>9. /\ thread' \in [Threads -> Tasks] /\ HandsSound' /\ ControlSound'
      /\ thread'[t] = w /\ \A u \in Threads : u # t => thread'[u] = thread[u]
  BY <1>1, <1>4, <1>7, <1>8, OneMoves DEF Grows
<1>10. ChatTyped'
  BY <1>3, <1>6, <1>9 DEF ChatTyped, TypeWorld, TypeQueue, TypeHistory, world
<1>11. Of(thread[t].hand) = {Core(p)} /\ Ids(thread[t].hand) = {p.id} /\ Core(p).id = p.id
  BY <1>2, OfOne DEF Core
<1>12. Flows
  <2>1. \A c \in Of(queue') \cup Of(w.hand) \cup Of(w.snap) : Live(c) \/ Fresh(c)
    BY <1>1, <1>6, <1>7, <1>11, LiveIs, OfNone
  <2>2. \A i \in Ids(queue) : i \in Ids(queue')
    <3> TAKE i \in Ids(queue)
    <3>1. PICK c \in Of(queue) : i = c.id
      BY IdsAre
    <3> QED  BY <1>6, <3>1, IdsAre
  <2>3. p.id \in Ids(queue') \cup acked'
    BY <1>2, <1>3, <1>6, <1>11, IdsAre
  <2>4. \A i \in Ids(queue) \cup Ids(thread[t].hand) : i \in Ids(queue') \cup acked'
    BY <1>11, <2>2, <2>3
  <2> QED  BY <1>1, <1>3, <1>8, <1>9, <2>1, <2>4, MoveFlows DEF world, ChatTyped, TypeWorld
<1> QED  BY <1>1, <1>3, <1>9, <1>10, <1>12, FreeWork DEF OthersKept

\* A step that leaves the threads alone.
LEMMA StillFlows ==
    ASSUME ChatTyped, thread' = thread, Of(queue') = Of(queue),
           UNCHANGED <<file, former, written, acked, given, slipped, history>>
    PROVE  Flows
<1>1. Ids(queue') = Ids(queue)
  BY IdsAre
<1> QED  BY <1>1 DEF Flows, Grows, Live, Waits, InHand, ChatTyped, TypeWorld

LEMMA DueMoves == ASSUME ChatTyped, Due PROVE ChatTyped' /\ Flows /\ OthersKept
<1> DEFINE r == [i \in 1..Len(queue) |-> [queue[i] EXCEPT !.due = TRUE]]
<1>1. /\ UNCHANGED <<world, ledger, known, history, nextSeq, file, thread, acked, given, slipped>>
      /\ queue' = r
  BY DEF Due
<1>2. queue \in Seq(Chats) /\ Len(queue) \in Nat /\ \A i \in 1..Len(queue) : queue[i] \in Chats
  BY DEF ChatTyped, TypeQueue
<1>3. \A i \in 1..Len(queue) : [queue[i] EXCEPT !.due = TRUE] \in Chats
  BY <1>2 DEF Chats
<1>4. r \in Seq(Chats) /\ Len(r) = Len(queue)
  BY <1>2, <1>3
<1>5. \A i \in 1..Len(queue) : Core(r[i]) = Core(queue[i])
  BY <1>2 DEF Chats, Core
<1> HIDE DEF r
<1>6. Of(queue') = Of(queue)
  BY <1>1, <1>2, <1>4, <1>5, OfDue
<1>7. Flows
  BY <1>1, <1>6, StillFlows DEF world
<1>8. ChatTyped'
  BY <1>1, <1>4 DEF ChatTyped, TypeWorld, TypeQueue, TypeHistory, HandsSound, ControlSound, world
<1> QED  BY <1>1, <1>7, <1>8 DEF OthersKept

LEMMA HolderMoves == ASSUME ChatTyped, HolderChanges PROVE ChatTyped' /\ Flows /\ OthersKept
<1>1. UNCHANGED <<ledger, known, history, nextSeq, queue, file, thread, former, written, ops,
                  deaths, acked, given, slipped>>
  BY DEF HolderChanges
<1>2. Flows
  BY <1>1, StillFlows
<1>3. holders' \in Nat /\ holder' \in Nat
  BY DEF HolderChanges, ChatTyped, TypeWorld
<1>4. ChatTyped'
  BY <1>1, <1>3 DEF ChatTyped, TypeWorld, TypeQueue, TypeHistory, HandsSound, ControlSound
<1> QED  BY <1>1, <1>2, <1>4 DEF OthersKept

\* The file is replaced by the copy, or stays.
LEMMA WriteIs ==
    ASSUME ChatTyped, NEW t \in Threads, WriteFile(t)
    PROVE  /\ ChatTyped' /\ Flows /\ UNCHANGED <<known, former>>
           /\ \/ Of(file') \subseteq Of(thread[t].snap)
              \/ /\ file' = file
                 /\ t = "control" => Ids(file) \subseteq slipped'
           /\ thread'[t].at = thread[t].next /\ thread'[t].arg = thread[t].arg
           /\ \A u \in Threads : u # t => thread'[u] = thread[u]
           /\ \A c : Live(c)' => Live(c)
<1> DEFINE w == [thread[t] EXCEPT !.snap = <<>>, !.at = thread[t].next, !.next = "free"]
<1>1. thread[t].at = "write" /\ thread[t].at \notin Handling
  BY DEF WriteFile, Handling
<1>2. /\ thread[t] \in Tasks /\ thread[t].hand = <<>> /\ queue \in Seq(Chats)
      /\ thread[t].snap \in Seq(Chats) /\ file \in Seq(Chats) /\ ops \in Nat
  BY <1>1, ThreadIs DEF ChatTyped, TypeQueue, TypeWorld
<1>3. UNCHANGED <<holder, former, ledger, known, history, nextSeq, queue, holders, written, deaths,
                  acked, given>>
  BY Zenon DEF WriteFile
<1>4. /\ thread' = [thread EXCEPT ![t] = w]
      /\ file' \in {file, thread[t].snap} /\ ops' \in {ops, ops + 1}
      /\ file' = thread[t].snap \/ (file' = file /\ (t = "control" => Ids(file) \subseteq slipped'))
      /\ slipped \subseteq slipped'
  BY DEF WriteFile
<1>5. /\ w \in Tasks /\ w.at = thread[t].next /\ w.hand = <<>> /\ w.snap = <<>>
      /\ w.arg = thread[t].arg
  <2>1. <<>> \in Seq(Chats)
    OBVIOUS
  <2> QED  BY <1>2, <2>1 DEF Tasks
<1> HIDE DEF w
<1>6. WorkSound(w) /\ Grows /\ (t = "control" => ControlWork(w))
  <2>1. w.at \in {"free", "take", "erase", "remember"}
    BY <1>2, <1>5 DEF Tasks
  <2>2. t = "control" => w.at = "remember"
    BY <1>1, <1>5 DEF ChatTyped, ControlSound
  <2> QED  BY <1>3, <1>4, <1>5, <2>1, <2>2 DEF WorkSound, Handling, Grows, ControlWork
<1>7. /\ thread' \in [Threads -> Tasks] /\ HandsSound' /\ ControlSound'
      /\ thread'[t] = w /\ \A u \in Threads : u # t => thread'[u] = thread[u]
  BY <1>4, <1>5, <1>6, OneMoves DEF Grows
<1>8. ChatTyped'
  BY <1>2, <1>3, <1>4, <1>7 DEF ChatTyped, TypeWorld, TypeQueue, TypeHistory
<1>9. \A c : Live(c)' => Live(c)
  BY <1>3, <1>5, <1>7, OfNone DEF Live
<1>10. \A i : Waits(i) => Waits(i)'
  BY <1>2, <1>3, <1>7, OfNone DEF Waits, InHand
<1>11. \A c \in Of(file') : c \in Of(file) \/ Live(c)
  BY <1>4, LiveIs
<1>12. Flows
  BY <1>3, <1>6, <1>9, <1>10, <1>11 DEF Flows
<1>13. Of(file') \subseteq Of(thread[t].snap) \/ (file' = file /\ (t = "control" => Ids(file) \subseteq slipped'))
  BY <1>4
<1> QED  BY <1>3, <1>5, <1>7, <1>8, <1>9, <1>12, <1>13

-----------------------------------------------------------------------------
(* The control thread, and the start of the process.                       *)

LEMMA AnywhereTyped == ASSUME ChatTyped, NEW m, Anywhere(m) PROVE m.meant \in SUBSET (Nat \ {0})
<1>1. ASSUME NEW s \in Seq(Chats), NEW c \in Of(s) PROVE c.meant \in SUBSET (Nat \ {0})
  <2>1. PICK i \in 1..Len(s) : c = Core(s[i])
    BY DEF Of
  <2>2. s[i] \in Chats
    OBVIOUS
  <2> QED  BY <2>1, <2>2 DEF Core, Chats
<1>2. /\ queue \in Seq(Chats) /\ file \in Seq(Chats)
      /\ \A t \in Threads : thread[t].hand \in Seq(Chats) /\ thread[t].snap \in Seq(Chats)
  BY ThreadIs DEF ChatTyped, TypeQueue
<1>3. former.held \in Seq(Chats)
  BY DEF ChatTyped, TypeQueue, Sessions
<1> QED  BY <1>1, <1>2, <1>3 DEF Anywhere, Live

LEMMA LedgerMoves ==
    ASSUME ChatInv, LedgerArrives PROVE ChatTyped' /\ Flows /\ known' = known /\ ChatFits'
<1> DEFINE replaced == holder # 0 /\ known \notin {0, holder}
           departed == holder = 0 /\ known # 0
           w == [Free EXCEPT !.arg = holder,
                             !.at = IF replaced \/ departed THEN "note" ELSE "remember"]
<1>0. ChatTyped
  BY DEF ChatInv
<1>1. /\ thread["control"].at = "free" /\ thread' = [thread EXCEPT !["control"] = w]
      /\ history' = IF replaced THEN WithoutDirect ELSE history
      /\ given' = IF replaced THEN given \cup {e.id : e \in history} ELSE given
      /\ UNCHANGED <<world, ledger, known, nextSeq, queue, file, acked, slipped>>
  BY DEF LedgerArrives
<1>2. holder \in Nat /\ known \in Nat /\ thread["control"].hand = <<>> /\ queue \in Seq(Chats)
  BY <1>0, <1>1, FreeWork, ThreadIs DEF ChatTyped, TypeWorld, Handling
<1>3. /\ w \in Tasks /\ w.hand = <<>> /\ w.snap = <<>> /\ w.arg = holder
      /\ w.at = IF replaced \/ departed THEN "note" ELSE "remember"
  BY <1>2, FreeWork DEF Free, Tasks
<1> HIDE DEF w
<1>4. WorkSound(w) /\ ControlWork(w) /\ Grows
  BY <1>1, <1>3 DEF WorkSound, Handling, ControlWork, Grows
<1>5. /\ thread' \in [Threads -> Tasks] /\ HandsSound' /\ ControlSound'
      /\ thread'["control"] = w /\ \A u \in Threads : u # "control" => thread'[u] = thread[u]
  BY <1>0, <1>1, <1>3, <1>4, FreeWork, OneMoves DEF Grows
<1>6. TypeHistory' /\ \A e \in history : e \in history' \/ e.id \in given'
  BY <1>0, <1>1 DEF ChatTyped, TypeHistory, WithoutDirect
<1>7. ChatTyped'
  BY <1>0, <1>1, <1>5, <1>6 DEF ChatTyped, TypeWorld, TypeQueue, world
<1>8. Flows
  <2>1. \A c \in Of(queue') \cup Of(w.hand) \cup Of(w.snap) : Live(c) \/ Fresh(c)
    BY <1>1, <1>3, LiveIs, OfNone
  <2>2. \A i \in Ids(queue) \cup Ids(thread["control"].hand) : i \in Ids(queue')
    BY <1>1, <1>2, OfNone
  <2> QED  BY <1>0, <1>1, <1>4, <1>5, <1>6, <2>1, <2>2, FreeWork, MoveFlows
           DEF world, ChatTyped, TypeWorld
<1>9. \A m : Anywhere(m)' => MeantFor(m, known)'
  BY <1>1, <1>8, FlowsFit
<1>10. ASSUME NEW m, Anywhere(m)' PROVE Anywhere(m)
  BY <1>1, <1>3, <1>5, <1>10, OfNone DEF Anywhere, Live, world
<1>11. ASSUME w.at = "remember", NEW m, Anywhere(m)' PROVE MeantFor(m, holder)'
  <2>1. MeantFor(m, known) /\ m.meant \in SUBSET (Nat \ {0})
    BY <1>0, <1>10, <1>11, AnywhereTyped DEF ChatInv, ChatFits
  <2>2. known = 0 \/ known = holder
    BY <1>2, <1>3, <1>11
  <2>3. CASE m.id \in slipped
    BY <1>1, <2>3 DEF MeantFor
  <2>4. CASE m.meant = {} \/ known = holder
    BY <1>1, <2>1, <2>4 DEF MeantFor, world
  <2>5. CASE m.meant = {0}
    BY <2>1, <2>5
  <2> QED  BY <2>1, <2>2, <2>3, <2>4, <2>5 DEF MeantFor
<1>12. \A m : MeantFor(m, thread["control"].arg)' <=> MeantFor(m, holder)'
  BY <1>1, <1>3, <1>5 DEF MeantFor, world
<1> QED  BY <1>1, <1>3, <1>5, <1>7, <1>8, <1>9, <1>11, <1>12 DEF ChatFits

LEMMA NoteMoves ==
    ASSUME ChatInv, Note PROVE ChatTyped' /\ Flows /\ known' = known /\ ChatFits'
<1> DEFINE w == [thread["control"] EXCEPT !.at = "prune"]
<1>0. ChatTyped
  BY DEF ChatInv
<1>1. /\ thread["control"].at = "note" /\ thread' = [thread EXCEPT !["control"] = w] /\ Appended(0)
      /\ UNCHANGED <<world, ledger, known, queue, file, acked, given, slipped>>
  BY DEF Note, Goto
<1>2. /\ thread["control"] \in Tasks /\ thread["control"].hand = <<>>
      /\ thread["control"].snap = <<>>
  BY <1>0, <1>1, FreeWork, ThreadIs DEF Handling, ChatTyped, ControlSound
<1>3. w \in Tasks /\ w.hand = <<>> /\ w.snap = <<>> /\ w.at = "prune"
  BY <1>2 DEF Tasks
<1> HIDE DEF w
<1>4. WorkSound(w) /\ ControlWork(w) /\ Grows
  BY <1>1, <1>3 DEF WorkSound, Handling, ControlWork, Grows
<1>5. /\ thread' \in [Threads -> Tasks] /\ HandsSound' /\ ControlSound'
      /\ thread'["control"] = w /\ \A u \in Threads : u # "control" => thread'[u] = thread[u]
  BY <1>0, <1>1, <1>3, <1>4, FreeWork, OneMoves DEF Grows
<1>6. TypeHistory' /\ history \subseteq history'
  BY <1>0, <1>1, AppendedIs DEF ChatTyped
<1>7. ChatTyped'
  BY <1>0, <1>1, <1>5, <1>6 DEF ChatTyped, TypeWorld, TypeQueue, world
<1>8. Flows
  <2>1. \A c \in Of(queue') \cup Of(w.hand) \cup Of(w.snap) : Live(c) \/ Fresh(c)
    BY <1>1, <1>3, LiveIs, OfNone
  <2>2. \A i \in Ids(queue) \cup Ids(thread["control"].hand) : i \in Ids(queue')
    BY <1>1, <1>2, OfNone
  <2> QED  BY <1>0, <1>1, <1>4, <1>5, <1>6, <2>1, <2>2, FreeWork, MoveFlows
           DEF world, ChatTyped, TypeWorld
<1>9. \A m : Anywhere(m)' => MeantFor(m, known)'
  BY <1>1, <1>8, FlowsFit
<1> QED  BY <1>1, <1>3, <1>5, <1>7, <1>8, <1>9 DEF ChatFits

LEMMA PruneMoves ==
    ASSUME ChatInv, Prune PROVE ChatTyped' /\ Flows /\ known' = known /\ ChatFits'
<1> DEFINE w == [thread["control"] EXCEPT !.at = IF queue = <<>> THEN "remember" ELSE "write",
                                          !.next = "remember"]
<1>0. ChatTyped
  BY DEF ChatInv
<1>1. /\ thread["control"].at = "prune" /\ thread' = [thread EXCEPT !["control"] = w]
      /\ queue' = <<>> /\ given' = given \cup Ids(queue)
      /\ slipped' = slipped \cup InHand \cup InSnap \cup Ids(former.held)
                     \cup (Ids(file) \ Ids(queue))
      /\ UNCHANGED <<world, ledger, known, history, nextSeq, file, acked>>
  BY DEF Prune
<1>2. /\ thread["control"] \in Tasks /\ thread["control"].hand = <<>>
      /\ thread["control"].snap = <<>>
  BY <1>0, <1>1, FreeWork, ThreadIs DEF Handling, ChatTyped, ControlSound
<1>3. /\ w \in Tasks /\ w.hand = <<>> /\ w.snap = <<>> /\ w.next = "remember"
      /\ w.at = IF queue = <<>> THEN "remember" ELSE "write"
  BY <1>2 DEF Tasks
<1> HIDE DEF w
<1>4. WorkSound(w) /\ ControlWork(w) /\ Grows
  BY <1>1, <1>3 DEF WorkSound, Handling, ControlWork, Grows
<1>5. /\ thread' \in [Threads -> Tasks] /\ HandsSound' /\ ControlSound'
      /\ thread'["control"] = w /\ \A u \in Threads : u # "control" => thread'[u] = thread[u]
  BY <1>0, <1>1, <1>3, <1>4, FreeWork, OneMoves DEF Grows
<1>6. queue' \in Seq(Chats) /\ Of(queue') = {} /\ Ids(queue') = {}
  BY <1>1, OfNone
<1>7. ChatTyped'
  BY <1>0, <1>1, <1>5, <1>6 DEF ChatTyped, TypeWorld, TypeHistory, TypeQueue, world
<1>8. Flows
  <2>1. \A c \in Of(queue') \cup Of(w.hand) \cup Of(w.snap) : Live(c) \/ Fresh(c)
    BY <1>3, <1>6, OfNone
  <2>2. \A i \in Ids(queue) \cup Ids(thread["control"].hand) : i \in given'
    BY <1>1, <1>2, OfNone
  <2> QED  BY <1>0, <1>1, <1>4, <1>5, <2>1, <2>2, FreeWork, MoveFlows
           DEF world, ChatTyped, TypeWorld
<1>9. \A m : Anywhere(m)' => MeantFor(m, known)'
  BY <1>1, <1>8, FlowsFit
<1>10. ASSUME NEW m, Live(m)' PROVE m.id \in slipped'
  <2>1. CASE m \in Of(former'.held)
    <3>1. m.id \in Ids(former.held)
      BY <1>1, <2>1, IdsAre DEF world
    <3> QED  BY <1>1, <3>1
  <2>2. ASSUME NEW t \in Threads, m \in Of(thread'[t].hand) \cup Of(thread'[t].snap)
        PROVE  m.id \in slipped'
    <3>1. m \in Of(thread[t].hand) \cup Of(thread[t].snap)
      BY <1>3, <1>5, <2>2, OfNone
    <3>2. m.id \in Ids(thread[t].hand) \cup Ids(thread[t].snap)
      BY <3>1, IdsAre
    <3> QED  BY <1>1, <3>2 DEF InHand, InSnap
  <2> QED  BY <1>6, <1>10, <2>1, <2>2 DEF Live
<1>11. ASSUME queue = <<>>, NEW m \in Of(file') PROVE m.id \in slipped'
  <2>1. m.id \in Ids(file)
    BY <1>1, <1>11, IdsAre
  <2> QED  BY <1>1, <1>11, <2>1, OfNone
<1> QED  BY <1>1, <1>3, <1>5, <1>7, <1>8, <1>9, <1>10, <1>11 DEF ChatFits, MeantFor, Anywhere

LEMMA RememberMoves ==
    ASSUME ChatInv, Remember PROVE ChatTyped' /\ Flows /\ ChatFits'
<1>0. ChatTyped
  BY DEF ChatInv
<1>1. /\ thread["control"].at = "remember" /\ thread' = [thread EXCEPT !["control"] = Free]
      /\ known' = thread["control"].arg /\ ledger' = {known'}
      /\ UNCHANGED <<world, history, nextSeq, queue, file, acked, given, slipped>>
  BY DEF Remember
<1>2. /\ thread["control"] \in Tasks /\ thread["control"].hand = <<>>
      /\ thread["control"].snap = <<>>
  BY <1>0, <1>1, FreeWork, ThreadIs DEF Handling, ChatTyped, ControlSound
<1>3. WorkSound(Free) /\ ControlWork(Free) /\ Grows
  BY <1>1, FreeWork DEF WorkSound, Handling, ControlWork, Grows
<1>4. /\ thread' \in [Threads -> Tasks] /\ HandsSound' /\ ControlSound'
      /\ thread'["control"] = Free /\ \A u \in Threads : u # "control" => thread'[u] = thread[u]
  BY <1>0, <1>1, <1>3, FreeWork, OneMoves DEF Grows
<1>5. known' \in Nat /\ ledger' \in {{}, {known'}}
  BY <1>1, <1>2 DEF Tasks
<1>6. ChatTyped'
  BY <1>0, <1>1, <1>4, <1>5 DEF ChatTyped, TypeWorld, TypeHistory, TypeQueue, world
<1>7. Flows
  <2>1. \A c \in Of(queue') \cup Of(Free.hand) \cup Of(Free.snap) : Live(c) \/ Fresh(c)
    BY <1>1, FreeWork, LiveIs, OfNone
  <2>2. \A i \in Ids(queue) \cup Ids(thread["control"].hand) : i \in Ids(queue')
    BY <1>1, <1>2, OfNone
  <2> QED  BY <1>0, <1>1, <1>3, <1>4, <2>1, <2>2, FreeWork, MoveFlows
           DEF world, ChatTyped, TypeWorld
<1>8. ASSUME NEW m, Anywhere(m)' PROVE Anywhere(m)
  BY <1>1, <1>4, <1>8, FreeWork, OfNone DEF Anywhere, Live, world
<1>9. \A m : Anywhere(m)' => MeantFor(m, known)'
  BY <1>1, <1>8 DEF ChatInv, ChatFits, MeantFor
<1> QED  BY <1>4, <1>6, <1>7, <1>9, FreeWork DEF ChatFits

LEMMA ControlWrites ==
    ASSUME ChatInv, WriteFile("control") PROVE ChatTyped' /\ Flows /\ known' = known /\ ChatFits'
<1> DEFINE k == thread["control"]
<1>0. ChatTyped /\ k.at = "write" /\ k.next = "remember" /\ k.snap = <<>>
  BY DEF ChatInv, WriteFile, ChatTyped, ControlSound
<1>1. /\ ChatTyped' /\ Flows /\ known' = known
      /\ Of(file') \subseteq Of(k.snap) \/ (file' = file /\ Ids(file) \subseteq slipped')
      /\ thread'["control"].at = "remember" /\ thread'["control"].arg = k.arg
      /\ \A c : Live(c)' => Live(c)
  BY <1>0, FreeWork, WriteIs
<1>2. ASSUME NEW c \in Of(file') PROVE c.id \in slipped'
  <2>1. file' = file /\ Ids(file) \subseteq slipped'
    BY <1>0, <1>1, <1>2, OfNone
  <2>2. c.id \in Ids(file)
    BY <1>2, <2>1, IdsAre
  <2> QED  BY <2>1, <2>2
<1>3. \A m : Anywhere(m)' => MeantFor(m, known)'
  BY <1>1, FlowsFit
<1>4. ASSUME NEW m, Anywhere(m)' PROVE MeantFor(m, k.arg)'
  <2>1. CASE Live(m)
    BY <1>0, <1>1, <2>1 DEF ChatInv, ChatFits, MeantFor, Flows, Grows
  <2>2. CASE m \in Of(file')
    BY <1>2, <2>2 DEF MeantFor
  <2> QED  BY <1>1, <1>4, <2>1, <2>2 DEF Anywhere
<1>5. \A m : MeantFor(m, k.arg)' <=> MeantFor(m, thread["control"].arg)'
  BY <1>1 DEF MeantFor
<1> QED  BY <1>1, <1>3, <1>4, <1>5 DEF ChatFits

\* The numbers go on after the last line of the history.
LEMMA LastIs ==
    ASSUME TypeHistory PROVE LastSeq(history) \in Nat /\ \A e \in history : e.seq <= LastSeq(history)
<1>1. CASE history = {}
  BY <1>1 DEF LastSeq
<1>2. CASE history # {}
  <2> DEFINE Z == {nextSeq - e.seq : e \in history}
             Last(e) == \A f \in history : f.seq <= e.seq
  <2>1. nextSeq \in Nat /\ \A e \in history : e.seq \in Nat /\ e.seq < nextSeq
    BY DEF TypeHistory
  <2>2. Z \in SUBSET Nat /\ Z # {}
    BY <1>2, <2>1
  <2>3. PICK x \in Z : \A y \in Z : x <= y
    BY <2>2, LeastOf
  <2>4. PICK e \in history : x = nextSeq - e.seq
    BY <2>3
  <2>5. Last(e)
    <3> TAKE f \in history
    <3>1. x <= nextSeq - f.seq
      BY <2>3
    <3> QED  BY <2>1, <2>4, <3>1
  <2>6. \E d \in history : Last(d)
    BY <2>5
  <2> DEFINE l == CHOOSE d \in history : Last(d)
  <2>7. l \in history /\ Last(l)
    BY <2>6
  <2>8. LastSeq(history) = l.seq
    BY <1>2 DEF LastSeq
  <2> HIDE DEF l
  <2> QED  BY <2>1, <2>7, <2>8
<1> QED  BY <1>1, <1>2

\* A session starts from the files: what it has was in the file.
LEMMA FromFilesKeeps ==
    ASSUME ChatInv, FromFiles, ops' \in Nat, deaths' \in Nat, former' \in Sessions,
           \A c \in Of(former'.held) : Live(c)
    PROVE  ChatInv'
<1> DEFINE r == [i \in 1..Len(file) |-> [file[i] EXCEPT !.due = TRUE]]
<1>0. ChatTyped
  BY DEF ChatInv
<1>1. /\ nextSeq' = LastSeq(history) + 1 /\ queue' = r
      /\ given' = given \cup ((1..written) \ Ids(file)) /\ ledger' = {}
      /\ thread' = [t \in Threads |-> Free]
      /\ UNCHANGED <<holder, known, history, file, holders, written, acked, slipped>>
  BY DEF FromFiles
<1>2. file \in Seq(Chats) /\ Len(file) \in Nat /\ \A i \in 1..Len(file) : file[i] \in Chats
  BY <1>0 DEF ChatTyped, TypeQueue
<1>3. \A i \in 1..Len(file) : [file[i] EXCEPT !.due = TRUE] \in Chats
  BY <1>2 DEF Chats
<1>4. r \in Seq(Chats) /\ Len(r) = Len(file)
  BY <1>2, <1>3
<1>5. \A i \in 1..Len(file) : Core(r[i]) = Core(file[i])
  BY <1>2 DEF Chats, Core
<1> HIDE DEF r
<1>6. queue' \in Seq(Chats) /\ Of(queue') = Of(file)
  BY <1>1, <1>2, <1>4, <1>5, OfDue
<1>7. \A t \in Threads : thread'[t] = Free
  BY <1>1
<1>8. TypeHistory'
  <2>1. LastSeq(history) \in Nat /\ \A e \in history : e.seq <= LastSeq(history) /\ e.seq \in Nat
    BY <1>0, LastIs DEF ChatTyped, TypeHistory
  <2> QED  BY <1>0, <1>1, <2>1 DEF ChatTyped, TypeHistory
<1>9. thread' \in [Threads -> Tasks] /\ HandsSound' /\ ControlSound'
  BY <1>1, <1>7, FreeWork DEF HandsSound, ControlSound, Handling
<1>10. ChatTyped'
  BY <1>0, <1>1, <1>6, <1>8, <1>9 DEF ChatTyped, TypeWorld, TypeQueue
<1>11. \A m : Anywhere(m)' => Anywhere(m)
  BY <1>1, <1>6, <1>7, FreeWork, OfNone DEF Anywhere, Live
<1>12. Traced'
  BY <1>1, <1>11 DEF ChatInv, Traced
<1>13. NothingLost'
  <2>1. Ids(queue') = Ids(file)
    <3>1. Ids(queue') = {c.id : c \in Of(queue')} /\ Ids(file) = {c.id : c \in Of(file)}
      BY IdsAre
    <3> QED  BY <1>6, <3>1
  <2> QED  BY <1>1, <2>1 DEF NothingLost
<1>14. ChatFits'
  BY <1>1, <1>7, <1>11, FreeWork DEF ChatInv, ChatFits, MeantFor
<1> QED  BY <1>10, <1>12, <1>13, <1>14 DEF ChatInv

LEMMA RestartKeeps == ASSUME ChatInv, Restart PROVE ChatInv'
<1>1. FromFiles /\ former' = NoSession /\ ops' = ops /\ deaths' = deaths + 1
  BY DEF Restart
<1>2. ops \in Nat /\ deaths \in Nat
  BY DEF ChatInv, ChatTyped, TypeWorld
<1>3. NoSession \in Sessions /\ NoSession.held = <<>>
  <2>1. <<>> \in Seq(Chats)
    OBVIOUS
  <2> QED  BY <2>1 DEF NoSession, Sessions
<1> QED  BY <1>1, <1>2, <1>3, OfNone, FromFilesKeeps

LEMMA ReconnectKeeps == ASSUME ChatInv, Reconnect PROVE ChatInv'
<1> DEFINE u == thread["ui"]
           q == thread["queue"]
           h == queue \o u.hand \o q.hand \o u.snap \o q.snap
<1>0. ChatTyped
  BY DEF ChatInv
<1>1. FromFiles /\ former' = [on |-> TRUE, held |-> h, ledger |-> ledger]
  BY DEF Reconnect
<1>2. ops' = ops + 1 /\ deaths' = deaths /\ ops \in Nat /\ deaths \in Nat
      /\ ledger \in SUBSET Nat
  BY <1>0 DEF Reconnect, ChatTyped, TypeWorld
<1>3. /\ queue \in Seq(Chats) /\ u.hand \in Seq(Chats) /\ q.hand \in Seq(Chats)
      /\ u.snap \in Seq(Chats) /\ q.snap \in Seq(Chats)
  BY <1>0, FreeWork, ThreadIs
<1> DEFINE h1 == queue \o u.hand
           h2 == h1 \o q.hand
           h3 == h2 \o u.snap
<1>4. h1 \in Seq(Chats) /\ Of(h1) = Of(queue) \cup Of(u.hand)
  BY <1>3, OfConcat
<1> HIDE DEF h1
<1>5. h2 \in Seq(Chats) /\ Of(h2) = Of(h1) \cup Of(q.hand)
  BY <1>3, <1>4, OfConcat
<1> HIDE DEF h2
<1>6. h3 \in Seq(Chats) /\ Of(h3) = Of(h2) \cup Of(u.snap)
  BY <1>3, <1>5, OfConcat
<1> HIDE DEF h3
<1>7. h3 \o q.snap \in Seq(Chats) /\ Of(h3 \o q.snap) = Of(h3) \cup Of(q.snap)
  BY <1>3, <1>6, OfConcat
<1>8. h = h3 \o q.snap
  BY DEF h1, h2, h3
<1> HIDE DEF h
<1>9. former'.held = h /\ former' \in Sessions
  BY <1>1, <1>2, <1>7, <1>8 DEF Sessions
<1>10. \A c \in Of(h) : Live(c)
  BY <1>4, <1>5, <1>6, <1>7, <1>8, FreeWork, LiveIs
<1> QED  BY <1>1, <1>2, <1>9, <1>10, FromFilesKeeps

\* What is picked of a queue is of the queue.
LEMMA OfPicked ==
    ASSUME NEW q \in Seq(Chats), NEW K \in SUBSET (1..Len(q))
    PROVE  Picked(q, K) \in Seq(Chats) /\ Of(Picked(q, K)) \subseteq Of(q)
<1>1. Picked(q, K) \in Seq(Chats) /\ Selects(Picked(q, K), q, K)
  BY PickedIs
<1>2. Of(Picked(q, K)) = {Core(q[k]) : k \in K}
  BY <1>1, OfSelects
<1> QED  BY <1>1, <1>2 DEF Of

LEMMA FormerMoves ==
    ASSUME ChatTyped, former' \in Sessions, Of(former'.held) \subseteq Of(former.held),
           file' \in Seq(Chats), \A c \in Of(file') : c \in Of(file) \/ Live(c),
           acked \subseteq acked',
           UNCHANGED <<holder, ledger, known, history, nextSeq, queue, thread, holders, written, ops,
                       deaths, given, slipped>>
    PROVE  ChatTyped' /\ Flows /\ OthersKept
<1>1. ChatTyped'
  BY DEF ChatTyped, TypeWorld, TypeHistory, TypeQueue, HandsSound, ControlSound
<1>2. \A c : Live(c)' => Live(c)
  BY DEF Live
<1>3. \A i : Waits(i) => Waits(i)'
  BY DEF Waits, InHand
<1>4. Flows
  BY <1>2, <1>3 DEF Flows, Grows
<1> QED  BY <1>1, <1>4 DEF OthersKept

LEMMA DeliversMoves ==
    ASSUME ChatTyped, NEW k \in 1..Len(former.held), FormerDelivers(k)
    PROVE  ChatTyped' /\ Flows /\ OthersKept
<1>1. former \in Sessions /\ former.held \in Seq(Chats) /\ file \in Seq(Chats)
  BY DEF ChatTyped, TypeQueue, Sessions
<1> DEFINE K == DOMAIN former.held \ {k}
           h == Picked(former.held, K)
<1>2. K \in SUBSET (1..Len(former.held))
  BY <1>1
<1>3. h \in Seq(Chats) /\ Of(h) \subseteq Of(former.held)
  BY <1>1, <1>2, OfPicked
<1>4. /\ former' = [former EXCEPT !.held = h] /\ acked \subseteq acked'
      /\ UNCHANGED <<holder, ledger, known, history, nextSeq, queue, file, thread, holders,
                     written, ops, deaths, given, slipped>>
  BY DEF FormerDelivers
<1> HIDE DEF h
<1>5. former' \in Sessions /\ former'.held = h
  BY <1>1, <1>3, <1>4 DEF Sessions
<1> QED  BY <1>1, <1>3, <1>4, <1>5, FormerMoves

LEMMA SavesMoves == ASSUME ChatTyped, FormerSaves PROVE ChatTyped' /\ Flows /\ OthersKept
<1>1. former \in Sessions /\ former.held \in Seq(Chats)
  BY DEF ChatTyped, TypeQueue, Sessions
<1>2. /\ former' \in {former, NoSession}
      /\ UNCHANGED <<holder, ledger, known, history, nextSeq, queue, thread, holders,
                     written, ops, deaths, acked, given, slipped>>
  BY DEF FormerSaves
<1>3. PICK K \in SUBSET DOMAIN former.held : file' = Picked(former.held, K)
  BY DEF FormerSaves
<1>4. K \in SUBSET (1..Len(former.held))
  BY <1>1
<1>5. file' \in Seq(Chats) /\ \A c \in Of(file') : Live(c)
  BY <1>1, <1>3, <1>4, OfPicked, LiveIs
<1>6. former' \in Sessions /\ Of(former'.held) \subseteq Of(former.held)
  <2>1. <<>> \in Seq(Chats)
    OBVIOUS
  <2>2. NoSession \in Sessions /\ NoSession.held = <<>>
    BY <2>1 DEF NoSession, Sessions
  <2> QED  BY <1>1, <1>2, <2>2, OfNone
<1> QED  BY <1>2, <1>5, <1>6, FormerMoves

-----------------------------------------------------------------------------
(* The whole.                                                              *)

LEMMA ChatStarts == Init => ChatInv
<1> SUFFICES ASSUME Init PROVE ChatInv
  OBVIOUS
<1>1. \A t \in Threads : thread[t] = Free
  BY DEF Init
<1>2. /\ queue \in Seq(Chats) /\ file \in Seq(Chats) /\ Of(queue) = {} /\ Of(file) = {}
      /\ former \in Sessions /\ Of(former.held) = {}
  <2>1. <<>> \in Seq(Chats) /\ former = NoSession
    BY DEF Init
  <2> QED  BY <2>1, OfNone DEF Init, NoSession, Sessions
<1>3. TypeWorld /\ TypeHistory
  BY DEF Init, TypeWorld, TypeHistory
<1>4. ChatTyped
  BY <1>1, <1>2, <1>3, FreeWork DEF Init, ChatTyped, TypeQueue, HandsSound, ControlSound, Handling
<1>5. \A m : ~Anywhere(m)
  BY <1>1, <1>2, FreeWork, OfNone DEF Anywhere, Live
<1>6. NothingLost
  BY DEF Init, NothingLost
<1>7. thread["control"].at = "free"
  BY <1>1, FreeWork
<1> QED  BY <1>4, <1>5, <1>6, <1>7 DEF ChatInv, Traced, ChatFits

LEMMA ChatKeeps == ChatInv /\ [Next]_chatState => ChatInv'
<1> SUFFICES ASSUME ChatInv, [Next]_chatState PROVE ChatInv'
  OBVIOUS
<1>0. ChatTyped /\ Traced
  BY DEF ChatInv
<1>1. ASSUME ChatTyped' /\ Flows /\ OthersKept PROVE ChatInv'
  BY <1>1, OtherKeeps DEF ChatInv, OthersKept
<1>2. ASSUME ChatTyped' /\ Flows /\ ChatFits' PROVE ChatInv'
  BY <1>2, FlowsKeep DEF ChatInv
<1>3. CASE UNCHANGED chatState
  <2>0. UNCHANGED <<holder, ledger, known, history, nextSeq, queue, file, thread, former, holders,
                    written, ops, deaths, acked, given, slipped>>
    BY <1>3 DEF chatState
  <2>1. ChatTyped'
    BY <1>0, <2>0 DEF ChatTyped, TypeWorld, TypeHistory, TypeQueue, HandsSound, ControlSound
  <2>2. Flows /\ OthersKept
    BY <1>0, <2>0, StillFlows DEF OthersKept
  <2> QED  BY <1>1, <2>1, <2>2
<1>4. CASE Send
  BY <1>0, <1>1, <1>4, SendMoves
<1>5. CASE Push
  BY <1>0, <1>1, <1>5, PushMoves
<1>6. CASE Erase
  BY <1>0, <1>1, <1>6, EraseMoves
<1>7. CASE EraseHistory
  BY <1>0, <1>1, <1>7, EraseHistoryMoves
<1>8. CASE Wake
  BY <1>0, <1>1, <1>8, WakeMoves
<1>9. CASE Due
  BY <1>0, <1>1, <1>9, DueMoves
<1>10. ASSUME NEW s \in 1..MaxMsgs, Resend(s) \/ Cancel(s) PROVE ChatInv'
  <2>1. s \in Nat
    OBVIOUS
  <2> QED  BY <1>0, <1>1, <1>10, <2>1, ResendMoves, CancelMoves
<1>11. ASSUME NEW t \in {"ui", "queue"}, Collect(t) \/ Take(t) \/ Connect(t) \/ Settle(t)
       PROVE  ChatInv'
  BY <1>0, <1>1, <1>11, CollectMoves, TakeMoves, ConnectMoves, SettleMoves
<1>12. ASSUME NEW t \in Threads, WriteFile(t) PROVE ChatInv'
  <2>1. CASE t = "control"
    BY <1>2, <1>12, <2>1, ControlWrites
  <2>2. CASE t # "control"
    BY <1>0, <1>1, <1>12, <2>2, FreeWork, WriteIs DEF OthersKept
  <2> QED  BY <2>1, <2>2
<1>13. CASE HolderChanges
  BY <1>0, <1>1, <1>13, HolderMoves
<1>14. CASE LedgerArrives
  BY <1>2, <1>14, LedgerMoves
<1>15. CASE Note
  BY <1>2, <1>15, NoteMoves
<1>16. CASE Prune
  BY <1>2, <1>16, PruneMoves
<1>17. CASE Remember
  BY <1>2, <1>17, RememberMoves
<1>18. CASE Restart \/ Reconnect
  BY <1>18, RestartKeeps, ReconnectKeeps
<1>19. ASSUME NEW k \in 1..Len(former.held), FormerDelivers(k) PROVE ChatInv'
  BY <1>0, <1>1, <1>19, DeliversMoves
<1>20. CASE FormerSaves
  BY <1>0, <1>1, <1>20, SavesMoves
<1> QED  BY Zenon, <1>3, <1>4, <1>5, <1>6, <1>7, <1>8, <1>9, <1>10, <1>11, <1>12, <1>13, <1>14,
         <1>15, <1>16, <1>17, <1>18, <1>19, <1>20 DEF Next

LEMMA ChatGives == ChatInv => PhoneSound
<1> SUFFICES ASSUME ChatInv PROVE PhoneSound
  OBVIOUS
<1>1. ASSUME NEW i \in 1..Len(queue)
      PROVE  queue[i].meant \in {{}, {known}} \/ queue[i].id \in slipped
  <2>1. Core(queue[i]) \in Of(queue)
    BY DEF Of
  <2>2. MeantFor(Core(queue[i]), known)
    BY <2>1, LiveIs DEF ChatInv, ChatFits, Anywhere
  <2> QED  BY <2>2 DEF MeantFor, Core
<1> QED  BY <1>1 DEF ChatInv, PhoneSound, DiscardedForGood

\* A message of the phone's queue that nobody cancelled, erased or discarded,
\* and that was in the file whenever a session started, waits until it is
\* acknowledged, also while threads of the former session are still at theirs;
\* and none waits for one who is known to hold the address no more, but those
\* that slipped past the pruning (pump_chat_queue, reconcile_identities).
THEOREM PhoneChatSound == Spec => []PhoneSound
<1> QED  BY ChatStarts, ChatKeeps, ChatGives, PTL DEF Spec

-----------------------------------------------------------------------------
(* The relay: an entry of a table expires a lifetime after the packet that *)
(* paid for it, and outlives the next pruning.                             *)

RelayTyped ==
  /\ peers \subseteq Nodes /\ apart \subseteq Nodes /\ allowed \subseteq Pairs
  /\ sessions \in [Pairs -> Nat] /\ marks \in [Pairs -> Nat]
  /\ pruneAt \in Nat /\ now \in Nat \ {0} /\ pruneAt <= now + 1
  /\ opened \in [Pairs -> Nat] /\ passed \in [Pairs -> Nat]
  /\ \A p \in Pairs : opened[p] <= now /\ passed[p] <= now

\* paid[p] is when a packet last paid for the entry of p.
PaidBy(table, paid) == \A p \in Pairs :
  table[p] # 0 => /\ paid[p] # 0 /\ table[p] <= paid[p] + Lifetime
                  /\ table[p] >= pruneAt
Reverse(f) == [p \in Pairs |-> f[Back(p)]]
RelayInv == /\ RelayAssumption /\ RelayTyped /\ RelaySound
            /\ PaidBy(sessions, Reverse(opened)) /\ PaidBy(marks, passed)

LEMMA BackIs == ASSUME NEW p \in Pairs PROVE Back(p) \in Pairs /\ Back(Back(p)) = p /\ Back(p) # p
BY DEF Pairs, Back

LEMMA ReverseIs ==
    ASSUME NEW f \in [Pairs -> Nat]
    PROVE  Reverse(f) \in [Pairs -> Nat] /\ \A p \in Pairs : Reverse(f)[p] = f[Back(p)]
BY BackIs DEF Reverse

\* What pruning leaves is not expired, and what paid for it is recent.
LEMMA PrunedIs ==
    ASSUME RelayAssumption, RelayTyped, NEW table \in [Pairs -> Nat], NEW paid \in [Pairs -> Nat],
           PaidBy(table, paid)
    PROVE  /\ Pruned(table) \in [Pairs -> Nat]
           /\ \A p \in Pairs : Pruned(table)[p] # 0 =>
                 Pruned(table)[p] = table[p] /\ table[p] > now /\ Recent(paid[p])
<1>1. Lifetime \in Nat \ {0} /\ now \in Nat /\ pruneAt \in Nat
  BY DEF RelayAssumption, RelayTyped
<1>2. Pruned(table) \in [Pairs -> Nat]
  BY DEF Pruned
<1>3. ASSUME NEW p \in Pairs, Pruned(table)[p] # 0
      PROVE  Pruned(table)[p] = table[p] /\ table[p] > now /\ Recent(paid[p])
  <2>1. Pruned(table)[p] = table[p] /\ (PruneDue => table[p] > now)
    BY <1>1, <1>3 DEF Pruned
  <2>2. paid[p] # 0 /\ table[p] <= paid[p] + Lifetime /\ table[p] >= pruneAt
    BY <1>3, <2>1 DEF PaidBy
  <2>3. table[p] \in Nat /\ paid[p] \in Nat
    OBVIOUS
  <2>4. table[p] > now
    BY <1>1, <2>1, <2>2, <2>3 DEF PruneDue
  <2> QED  BY <1>1, <2>1, <2>2, <2>3, <2>4 DEF Recent
<1> QED  BY <1>2, <1>3

\* A table whose entries are those that pruning leaves, or paid for now.
LEMMA PaidAgain ==
    ASSUME RelayAssumption, RelayTyped, NEW table \in [Pairs -> Nat], NEW paid \in [Pairs -> Nat],
           PaidBy(table, paid), NEW new \in [Pairs -> Nat], NEW pay \in [Pairs -> Nat], Noted,
           \A p \in Pairs : \/ new[p] = Pruned(table)[p] /\ pay[p] >= paid[p]
                            \/ new[p] = now + Lifetime /\ pay[p] = now
    PROVE  \A p \in Pairs : new[p] # 0 =>
              pay[p] # 0 /\ new[p] <= pay[p] + Lifetime /\ new[p] >= pruneAt'
<1>1. Lifetime \in Nat \ {0} /\ now \in Nat \ {0} /\ pruneAt \in Nat /\ pruneAt <= now + 1
  BY DEF RelayAssumption, RelayTyped
<1>2. pruneAt' \in Nat /\ pruneAt' <= now + 1
  BY <1>1 DEF Noted
<1>3. ASSUME NEW p \in Pairs, new[p] # 0
      PROVE  pay[p] # 0 /\ new[p] <= pay[p] + Lifetime /\ new[p] >= pruneAt'
  <2>1. CASE new[p] = now + Lifetime /\ pay[p] = now
    BY <1>1, <1>2, <2>1
  <2>2. CASE new[p] = Pruned(table)[p] /\ pay[p] >= paid[p]
    <3>1. new[p] = table[p] /\ table[p] > now
      BY <1>3, <2>2, PrunedIs
    <3>2. paid[p] # 0 /\ table[p] <= paid[p] + Lifetime
      BY <1>3, <3>1 DEF PaidBy
    <3>3. table[p] \in Nat /\ paid[p] \in Nat /\ pay[p] \in Nat
      OBVIOUS
    <3> QED  BY <1>1, <1>2, <2>2, <3>1, <3>2, <3>3
  <2> QED  BY <1>3, <2>1, <2>2
<1> QED  BY <1>3

\* A packet that passes may only make what it paid for more recent.
LEMMA ForwardedPays ==
    ASSUME RelayAssumption, RelayTyped, NEW pkt \in Packets, NEW fate, NEW since,
           Forwarded(pkt, fate, since)
    PROVE  /\ opened' \in [Pairs -> Nat] /\ passed' \in [Pairs -> Nat]
           /\ \A p \in Pairs : /\ opened'[p] >= opened[p] /\ opened'[p] <= now
                               /\ passed'[p] >= passed[p] /\ passed'[p] <= now
           /\ pkt.part # "later" =>
                /\ pkt.starts \/ Recent(opened[pkt.way]) => opened'[pkt.way] = now
                /\ Recent(opened[Back(pkt.way)]) => opened'[Back(pkt.way)] = now
           /\ pkt.part = "first" => passed'[pkt.way] = now
           /\ UNCHANGED <<peers, allowed, apart, now, changes>>
           /\ last' = [way |-> pkt.way, fate |-> fate, since |-> since]
<1> DEFINE p == pkt.way
           a == IF pkt.starts THEN now ELSE Extended(p)
           b == Extended(Back(p))
<1>1. p \in Pairs /\ Back(p) \in Pairs /\ Back(p) # p
  BY BackIs DEF Packets
<1>2. /\ now \in Nat /\ opened \in [Pairs -> Nat] /\ passed \in [Pairs -> Nat]
      /\ \A q \in Pairs : opened[q] <= now /\ passed[q] <= now
  BY DEF RelayTyped
<1>3. /\ a \in Nat /\ a >= opened[p] /\ a <= now
      /\ b \in Nat /\ b >= opened[Back(p)] /\ b <= now
      /\ (pkt.starts \/ Recent(opened[p])) => a = now
      /\ Recent(opened[Back(p)]) => b = now
  BY <1>1, <1>2 DEF Extended
<1>4. opened' = IF pkt.part = "later" THEN opened
                ELSE [opened EXCEPT ![p] = a, ![Back(p)] = b]
  BY DEF Forwarded
<1> HIDE DEF a, b
<1>5. CASE pkt.part = "later"
  BY <1>1, <1>2, <1>4, <1>5 DEF Forwarded
<1>6. CASE pkt.part # "later"
  <2>1. opened' = [opened EXCEPT ![p] = a, ![Back(p)] = b]
    BY <1>4, <1>6
  <2>2. opened' \in [Pairs -> Nat] /\ opened'[p] = a /\ opened'[Back(p)] = b
    BY <1>1, <1>2, <1>3, <2>1
  <2>3. \A q \in Pairs : q # p /\ q # Back(p) => opened'[q] = opened[q]
    BY <1>1, <1>2, <2>1
  <2>4. ASSUME NEW q \in Pairs PROVE opened'[q] >= opened[q] /\ opened'[q] <= now
    <3>1. opened[q] \in Nat /\ opened[q] <= now /\ now \in Nat
      BY <1>2
    <3> QED  BY <1>3, <2>2, <2>3, <3>1
  <2>5. /\ passed' \in [Pairs -> Nat]
        /\ \A q \in Pairs : passed'[q] >= passed[q] /\ passed'[q] <= now
        /\ pkt.part = "first" => passed'[p] = now
    <3>1. passed' = IF pkt.part = "first" THEN [passed EXCEPT ![p] = now] ELSE passed
      BY DEF Forwarded
    <3>2. CASE pkt.part = "first"
      BY <1>1, <1>2, <3>1, <3>2
    <3>3. CASE pkt.part # "first"
      BY <1>1, <1>2, <3>1, <3>3
    <3> QED  BY <3>2, <3>3
  <2> QED  BY <1>3, <1>6, <2>2, <2>4, <2>5 DEF Forwarded
<1> QED  BY <1>5, <1>6

LEMMA InsertedIs ==
    ASSUME RelayAssumption, RelayTyped, NEW table \in [Pairs -> Nat], NEW q \in Pairs
    PROVE  /\ Inserted(table, q) \in [Pairs -> Nat]
           /\ \A p \in Pairs : \/ Inserted(table, q)[p] = table[p]
                               \/ p = q /\ Inserted(table, q)[p] = now + Lifetime
BY DEF Inserted, RelayAssumption, RelayTyped

LEMMA MarkedPays ==
    ASSUME RelayInv, NEW pkt \in Packets, NEW fate, NEW since, Forwarded(pkt, fate, since), Noted,
           marks' = MarkedFirst(pkt) \/ (pkt.part = "later" /\ marks' = Pruned(marks))
    PROVE  marks' \in [Pairs -> Nat] /\ PaidBy(marks, passed)'
<1>1. /\ RelayAssumption /\ RelayTyped /\ PaidBy(marks, passed) /\ marks \in [Pairs -> Nat]
      /\ passed \in [Pairs -> Nat] /\ pkt.way \in Pairs
  BY DEF RelayInv, RelayTyped, Packets
<1>2. Pruned(marks) \in [Pairs -> Nat]
  BY <1>1, PrunedIs
<1>3. /\ passed' \in [Pairs -> Nat] /\ \A p \in Pairs : passed'[p] >= passed[p]
      /\ pkt.part = "first" => passed'[pkt.way] = now
  BY <1>1, ForwardedPays
<1>4. /\ marks' \in [Pairs -> Nat]
      /\ \A p \in Pairs : \/ marks'[p] = Pruned(marks)[p]
                          \/ /\ p = pkt.way /\ pkt.part = "first"
                             /\ marks'[p] = now + Lifetime
  BY <1>1, <1>2, InsertedIs DEF MarkedFirst
<1>5. \A p \in Pairs : \/ marks'[p] = Pruned(marks)[p] /\ passed'[p] >= passed[p]
                       \/ marks'[p] = now + Lifetime /\ passed'[p] = now
  BY <1>3, <1>4
<1>6. \A p \in Pairs : marks'[p] # 0 =>
         passed'[p] # 0 /\ marks'[p] <= passed'[p] + Lifetime /\ marks'[p] >= pruneAt'
  BY <1>1, <1>3, <1>4, <1>5, PaidAgain
<1> QED  BY <1>4, <1>6 DEF PaidBy

\* The sessions after a packet that passes under the policy, as a reply or as a later fragment.
LEMMA SessionsPaid ==
    ASSUME RelayInv, NEW pkt \in Packets, NEW fate, NEW since, Forwarded(pkt, fate, since), Noted,
           \/ pkt.part # "later" /\ sessions' = Observed(pkt)
           \/ /\ pkt.part # "later" /\ Pruned(sessions)[pkt.way] # 0
              /\ sessions' = [Pruned(sessions) EXCEPT ![pkt.way] = now + Lifetime]
           \/ sessions' = Pruned(sessions)
    PROVE  sessions' \in [Pairs -> Nat] /\ PaidBy(sessions, Reverse(opened))'
<1> DEFINE w == pkt.way
           old == Reverse(opened)
           new == Reverse(opened')
<1>1. /\ RelayAssumption /\ RelayTyped /\ PaidBy(sessions, old) /\ sessions \in [Pairs -> Nat]
      /\ opened \in [Pairs -> Nat] /\ w \in Pairs /\ Back(w) \in Pairs /\ Back(Back(w)) = w
      /\ now \in Nat /\ Lifetime \in Nat
  BY BackIs DEF RelayInv, RelayTyped, RelayAssumption, Packets
<1>2. /\ opened' \in [Pairs -> Nat] /\ \A p \in Pairs : opened'[p] >= opened[p]
      /\ pkt.part # "later" => /\ pkt.starts \/ Recent(opened[w]) => opened'[w] = now
                               /\ Recent(opened[Back(w)]) => opened'[Back(w)] = now
  BY <1>1, ForwardedPays
<1>3. /\ old \in [Pairs -> Nat] /\ \A p \in Pairs : old[p] = opened[Back(p)]
      /\ new \in [Pairs -> Nat] /\ \A p \in Pairs : new[p] = opened'[Back(p)]
  BY <1>1, <1>2, ReverseIs
<1>4. \A p \in Pairs : new[p] >= old[p]
  BY <1>2, <1>3, BackIs
<1> HIDE DEF old, new
<1>5. /\ Pruned(sessions) \in [Pairs -> Nat]
      /\ \A p \in Pairs : Pruned(sessions)[p] # 0 => Recent(old[p])
  BY <1>1, <1>3, PrunedIs
<1>6. /\ sessions' \in [Pairs -> Nat]
      /\ \A p \in Pairs : \/ sessions'[p] = Pruned(sessions)[p] /\ new[p] >= old[p]
                          \/ sessions'[p] = now + Lifetime /\ new[p] = now
  <2>1. CASE pkt.part # "later" /\ sessions' = Observed(pkt)
    <3>1. CASE pkt.starts \/ Pruned(sessions)[Back(w)] # 0
      <4>1. sessions' = Inserted(Pruned(sessions), Back(w))
        BY <2>1, <3>1 DEF Observed
      <4>2. Recent(opened[w]) \/ pkt.starts
        BY <1>1, <1>3, <1>5, <3>1
      <4>3. new[Back(w)] = now
        BY <1>1, <1>2, <1>3, <2>1, <4>2
      <4> QED  BY <1>1, <1>4, <1>5, <4>1, <4>3, InsertedIs
    <3>2. CASE ~(pkt.starts \/ Pruned(sessions)[Back(w)] # 0)
      <4>1. sessions' = Pruned(sessions)
        BY <2>1, <3>2 DEF Observed
      <4> QED  BY <1>4, <1>5, <4>1
    <3> QED  BY <3>1, <3>2
  <2>2. CASE /\ pkt.part # "later" /\ Pruned(sessions)[w] # 0
             /\ sessions' = [Pruned(sessions) EXCEPT ![w] = now + Lifetime]
    <3>1. Recent(opened[Back(w)])
      BY <1>1, <1>3, <1>5, <2>2
    <3>2. new[w] = now
      BY <1>1, <1>2, <1>3, <2>2, <3>1
    <3> QED  BY <1>1, <1>4, <1>5, <2>2, <3>2
  <2>3. CASE sessions' = Pruned(sessions)
    BY <1>4, <1>5, <2>3
  <2> QED  BY <2>1, <2>2, <2>3
<1>7. \A p \in Pairs : sessions'[p] # 0 =>
         new[p] # 0 /\ sessions'[p] <= new[p] + Lifetime /\ sessions'[p] >= pruneAt'
  BY <1>1, <1>3, <1>6, PaidAgain
<1> QED  BY <1>6, <1>7 DEF PaidBy, new, Reverse

\* A packet that passes keeps the invariant when what it relies on is recent.
LEMMA PassedKeeps ==
    ASSUME RelayInv, NEW pkt \in Packets, NEW fate, NEW since, Forwarded(pkt, fate, since), Noted,
           Recent(since), Arrives(pkt), ~KeptApart(pkt),
           sessions' \in [Pairs -> Nat], PaidBy(sessions, Reverse(opened))',
           marks' \in [Pairs -> Nat], PaidBy(marks, passed)'
    PROVE  RelayInv'
<1>1. RelayAssumption /\ RelayTyped
  BY DEF RelayInv
<1>2. /\ opened' \in [Pairs -> Nat] /\ passed' \in [Pairs -> Nat]
      /\ \A p \in Pairs : opened'[p] <= now /\ passed'[p] <= now
      /\ UNCHANGED <<peers, allowed, apart, now, changes>>
      /\ last' = [way |-> pkt.way, fate |-> fate, since |-> since]
  BY <1>1, ForwardedPays
<1>3. RelayTyped'
  BY <1>1, <1>2 DEF RelayTyped, Noted
<1>4. RelaySound'
  BY <1>2 DEF RelaySound, Earned, ApartHolds, Relayed, Recent, Arrives, KeptApart
<1> QED  BY <1>1, <1>3, <1>4 DEF RelayInv, RelayAssumption

\* A packet that is dropped leaves the tables as they are, or prunes them.
LEMMA DroppedKeeps ==
    ASSUME RelayInv, NEW pkt \in Packets, NEW fate, Dropped(pkt, fate),
           fate \notin {"allowed", "reply", "later"},
           \/ UNCHANGED <<sessions, marks, pruneAt>>
           \/ sessions' = Pruned(sessions) /\ marks' = Pruned(marks) /\ Noted
    PROVE  RelayInv'
<1>1. /\ RelayAssumption /\ RelayTyped /\ PaidBy(sessions, Reverse(opened))
      /\ PaidBy(marks, passed) /\ UNCHANGED <<peers, allowed, apart, now, changes, opened, passed>>
      /\ sessions \in [Pairs -> Nat] /\ marks \in [Pairs -> Nat]
      /\ opened \in [Pairs -> Nat] /\ passed \in [Pairs -> Nat] /\ now \in Nat
  BY DEF RelayInv, RelayTyped, Dropped
<1>2. RelaySound'
  BY DEF RelaySound, Earned, ApartHolds, Relayed, Dropped
<1>3. CASE UNCHANGED <<sessions, marks, pruneAt>>
  BY <1>1, <1>2, <1>3 DEF RelayInv, RelayTyped, RelayAssumption, PaidBy, Reverse
<1>4. CASE sessions' = Pruned(sessions) /\ marks' = Pruned(marks) /\ Noted
  <2>1. Reverse(opened) \in [Pairs -> Nat]
    BY <1>1, ReverseIs
  <2>2. sessions' \in [Pairs -> Nat] /\ marks' \in [Pairs -> Nat]
    BY <1>1, <1>4, <2>1, PrunedIs
  <2>3. \A p \in Pairs : sessions'[p] # 0 =>
           /\ Reverse(opened)[p] # 0 /\ sessions'[p] <= Reverse(opened)[p] + Lifetime
           /\ sessions'[p] >= pruneAt'
    <3>1. \A p \in Pairs : sessions'[p] = Pruned(sessions)[p]
                           /\ Reverse(opened)[p] >= Reverse(opened)[p]
      BY <1>4, <2>1
    <3> QED  BY <1>1, <1>4, <2>1, <2>2, <3>1, PaidAgain
  <2>4. \A p \in Pairs : marks'[p] # 0 =>
           passed[p] # 0 /\ marks'[p] <= passed[p] + Lifetime /\ marks'[p] >= pruneAt'
    <3>1. \A p \in Pairs : marks'[p] = Pruned(marks)[p] /\ passed[p] >= passed[p]
      BY <1>1, <1>4
    <3> QED  BY <1>1, <1>4, <2>2, <3>1, PaidAgain
  <2>5. PaidBy(sessions, Reverse(opened))' /\ PaidBy(marks, passed)'
    BY <1>1, <2>3, <2>4 DEF PaidBy, Reverse
  <2>6. RelayTyped'
    BY <1>1, <1>4, <2>2 DEF RelayTyped, Noted
  <2> QED  BY <1>1, <1>2, <2>5, <2>6 DEF RelayInv, RelayAssumption
<1> QED  BY <1>3, <1>4

LEMMA DeliverKeeps == ASSUME RelayInv, NEW pkt \in Packets, Deliver(pkt) PROVE RelayInv'
<1>1. /\ RelayAssumption /\ RelayTyped /\ PaidBy(sessions, Reverse(opened))
      /\ PaidBy(marks, passed) /\ sessions \in [Pairs -> Nat] /\ marks \in [Pairs -> Nat]
      /\ opened \in [Pairs -> Nat] /\ passed \in [Pairs -> Nat] /\ now \in Nat \ {0}
      /\ Lifetime \in Nat /\ pkt.way \in Pairs
  BY DEF RelayInv, RelayTyped, RelayAssumption, Packets
<1>2. CASE DropApart(pkt)
  BY <1>2, DroppedKeeps DEF DropApart
<1>3. CASE RelayAllowed(pkt)
  <2>1. Recent(now)
    BY <1>1 DEF Recent
  <2>2. sessions' \in [Pairs -> Nat] /\ PaidBy(sessions, Reverse(opened))'
    BY <1>3, SessionsPaid DEF RelayAllowed
  <2>3. marks' \in [Pairs -> Nat] /\ PaidBy(marks, passed)'
    BY <1>3, MarkedPays DEF RelayAllowed
  <2> QED  BY <1>3, <2>1, <2>2, <2>3, PassedKeeps DEF RelayAllowed
<1>4. CASE RelayReply(pkt)
  <2>1. Recent(opened[Back(pkt.way)])
    BY <1>1, <1>4, PrunedIs, ReverseIs DEF RelayReply
  <2>2. sessions' \in [Pairs -> Nat] /\ PaidBy(sessions, Reverse(opened))'
    BY <1>4, SessionsPaid DEF RelayReply
  <2>3. marks' \in [Pairs -> Nat] /\ PaidBy(marks, passed)'
    BY <1>4, MarkedPays DEF RelayReply
  <2> QED  BY <1>4, <2>1, <2>2, <2>3, PassedKeeps DEF RelayReply
<1>5. CASE DropDenied(pkt)
  BY <1>5, DroppedKeeps DEF DropDenied
<1>6. CASE RelayFragment(pkt)
  <2>1. Recent(passed[pkt.way])
    BY <1>1, <1>6, PrunedIs DEF RelayFragment
  <2>2. sessions' \in [Pairs -> Nat] /\ PaidBy(sessions, Reverse(opened))'
    BY <1>6, SessionsPaid DEF RelayFragment
  <2>3. marks' \in [Pairs -> Nat] /\ PaidBy(marks, passed)'
    BY <1>6, MarkedPays DEF RelayFragment
  <2> QED  BY <1>6, <2>1, <2>2, <2>3, PassedKeeps DEF RelayFragment
<1>7. CASE DropFragment(pkt)
  BY <1>7, DroppedKeeps DEF DropFragment
<1> QED  BY <1>2, <1>3, <1>4, <1>5, <1>6, <1>7 DEF Deliver

\* A change of the policy, of the isolation or of the peers, and a second, forget the last packet.
LEMMA OthersKeep ==
    ASSUME RelayInv,
           SetAcl \/ SetIsolated \/ Second \/ \E n \in Nodes : AddPeer(n) \/ RemovePeer(n)
    PROVE  RelayInv'
<1>1. RelayAssumption /\ RelayTyped /\ PaidBy(sessions, Reverse(opened)) /\ PaidBy(marks, passed)
  BY DEF RelayInv
<1>2. /\ last' = NoPacket /\ UNCHANGED <<sessions, marks, pruneAt, opened, passed>>
      /\ now' = now \/ now' = now + 1
      /\ peers' \subseteq Nodes /\ apart' \subseteq Nodes /\ allowed' \subseteq Pairs
  BY <1>1 DEF RelayTyped, SetAcl, SetIsolated, Second, AddPeer, RemovePeer, Change
<1>3. RelayTyped'
  BY <1>1, <1>2 DEF RelayTyped
<1>4. RelaySound'
  BY <1>2 DEF RelaySound, Earned, ApartHolds, Relayed, NoPacket
<1>5. PaidBy(sessions, Reverse(opened))' /\ PaidBy(marks, passed)'
  BY <1>1, <1>2 DEF PaidBy, Reverse
<1> QED  BY <1>1, <1>3, <1>4, <1>5 DEF RelayInv, RelayAssumption

(* What the relay lets through against the policy was opened by a packet   *)
(* that passed no longer ago than a lifetime and the second the pruning    *)
(* may lag, and nothing passes from or to a device kept apart or no longer *)
(* a peer: the session table of deliver_inbound, for every number of       *)
(* devices, every lifetime and every size of the table.                    *)
THEOREM RelayIsSound == ASSUME RelayAssumption PROVE RelaySpec => []RelaySound
<1>1. RelayInit => RelayInv
  BY DEF RelayInit, RelayInv, RelayAssumption, RelayTyped, RelaySound, Earned, ApartHolds,
         Relayed, NoPacket, PaidBy
<1>2. RelayInv /\ [RelayNext]_relayVars => RelayInv'
  <2> SUFFICES ASSUME RelayInv, [RelayNext]_relayVars PROVE RelayInv'
    OBVIOUS
  <2>1. CASE UNCHANGED relayVars
    BY <2>1 DEF relayVars, RelayInv, RelayTyped, RelayAssumption, RelaySound, Earned, ApartHolds,
                Relayed, Recent, PaidBy, Reverse
  <2>2. CASE \E pkt \in Packets : Deliver(pkt)
    BY <2>2, DeliverKeeps
  <2>3. CASE SetAcl \/ SetIsolated \/ Second \/ \E n \in Nodes : AddPeer(n) \/ RemovePeer(n)
    BY <2>3, OthersKeep
  <2> QED  BY <2>1, <2>2, <2>3 DEF RelayNext
<1>3. RelayInv => RelaySound
  BY DEF RelayInv
<1> QED  BY <1>1, <1>2, <1>3, PTL DEF RelaySpec
=============================================================================
