----------------------------- MODULE StoreOpen -----------------------------
(***************************************************************************)
(* Opening a memo database: the host's store and the member's cache keep   *)
(* the version of their schema in user_version and bring an older file up  *)
(* to date when it is opened.  The daemon keeps one connection; the        *)
(* diagnosis of the host and every call of the Android application open    *)
(* connections of their own, so that two openers may meet one old file.    *)
(* The version is read before the transaction that migrates begins.        *)
(***************************************************************************)
EXTENDS Naturals, FiniteSets

CONSTANTS Openers,        \* tasks that open the file
          MaxOpens,       \* opens in a behaviour
          MaxDeaths       \* processes that end while a file is being opened

VARIABLES kind,           \* the store, "shared" or "cache"
          version,        \* user_version of the committed file
          schema,         \* the steps whose tables and columns the committed file has
          writes,         \* commits so far: tells a reader that the file has moved on
          at,             \* where each opener is
          seen,           \* the version it read
          draft,          \* its transaction: the schema it works on, the commit it
                          \* started from, and the step it is to take next
          writer,         \* who has the write lock of the file
          opens, deaths

vars == <<kind, version, schema, writes, at, seen, draft, writer, opens, deaths>>

Nobody == "nobody"

(***************************************************************************)
(* The steps of the two schemas.  Most say IF NOT EXISTS or ask            *)
(* table_has_column before an ALTER TABLE; those of Bare do neither.       *)
(***************************************************************************)
SharedTables == 1..6        \* tables and their indexes
SharedColumns == 7..10      \* columns added to them, and the sheets' layout
CacheTables == 1..4
CacheColumns == 5..8

Latest == IF kind = "shared" THEN 10 ELSE 8
Steps == IF kind = "shared" THEN SharedTables \cup SharedColumns
                            ELSE CacheTables \cup CacheColumns
Bare == IF kind = "shared" THEN {1} ELSE {1, 2}

NoDraft == [schema |-> {}, from |-> 0, next |-> 0]

Places == {"out", "opened", "begun", "ready", "busy", "refused"}

TypeOK == /\ kind \in {"shared", "cache"} /\ version \in 0..11 /\ schema \subseteq 1..11
          /\ writes \in Nat /\ at \in [Openers -> Places] /\ seen \in [Openers -> 0..11]
          /\ draft \in [Openers -> [schema : SUBSET (1..11), from : Nat, next : 0..11]]
          /\ writer \in Openers \cup {Nobody}
          /\ opens \in 0..MaxOpens /\ deaths \in 0..MaxDeaths

(* A file of any release: none yet, an older one, or a newer one's.        *)
Init == /\ kind \in {"shared", "cache"}
        /\ version \in {0, 1, 2, 5, Latest - 1, Latest, Latest + 1}
        /\ schema = 1..version
        /\ writes = 0 /\ writer = Nobody /\ opens = 0 /\ deaths = 0
        /\ at = [o \in Openers |-> "out"] /\ seen = [o \in Openers |-> 0]
        /\ draft = [o \in Openers |-> NoDraft]

fileVars == <<version, schema, writes>>

(***************************************************************************)
(* The handlers                                                            *)
(***************************************************************************)
(* open_db and the read of user_version at the head of migrate.  Setting   *)
(* up the connection may meet another's lock.                              *)
Open(o) == /\ at[o] \in {"out", "busy", "refused"} /\ opens < MaxOpens
           /\ opens' = opens + 1
           /\ \/ at' = [at EXCEPT ![o] = "opened"] /\ seen' = [seen EXCEPT ![o] = version]
              \/ writer # Nobody /\ at' = [at EXCEPT ![o] = "busy"] /\ UNCHANGED seen
           /\ UNCHANGED <<kind, fileVars, draft, writer, deaths>>

(* What migrate finds to do with the version it read: nothing, or all the  *)
(* steps after it in one transaction, deferred until a statement needs it. *)
Migrate(o) ==
  /\ at[o] = "opened"
  /\ IF seen[o] >= Latest
     THEN at' = [at EXCEPT ![o] = "ready"] /\ UNCHANGED draft
     ELSE /\ at' = [at EXCEPT ![o] = "begun"]
          /\ draft' = [draft EXCEPT ![o] = [schema |-> {}, from |-> writes,
                                            next |-> seen[o] + 1]]
  /\ UNCHANGED <<kind, fileVars, seen, writer, opens, deaths>>

Next1(o) == draft[o].next
(* Whether the transaction has read the file yet: its first step has run.  *)
Started(o) == Next1(o) > seen[o] + 1

Fail(o, how) == /\ at' = [at EXCEPT ![o] = how]
                /\ draft' = [draft EXCEPT ![o] = NoDraft]
                /\ writer' = IF writer = o THEN Nobody ELSE writer

(* One step of the migration.  The first statement fixes the version of    *)
(* the file the transaction sees.  A step that was taken writes nothing if *)
(* it asks first and is an error if it does not; one that writes waits for *)
(* the holder of the lock at most the busy timeout, and fails if the file  *)
(* has moved on.                                                           *)
Step(o) ==
  /\ at[o] = "begun" /\ Next1(o) \in Steps
  /\ LET from == IF Started(o) THEN draft[o].from ELSE writes
         base == IF Started(o) THEN draft[o].schema ELSE schema
         taken == Next1(o) \in base
         Work(after) == draft' = [draft EXCEPT ![o] = [schema |-> after, from |-> from,
                                                       next |-> Next1(o) + 1]]
     IN \/ taken /\ Next1(o) \in Bare /\ Fail(o, "refused")
        \/ taken /\ Next1(o) \notin Bare /\ Work(base) /\ UNCHANGED <<at, writer>>
        \/ /\ ~taken /\ writer \in {Nobody, o} /\ from = writes
           /\ Work(base \cup {Next1(o)}) /\ writer' = o /\ UNCHANGED at
        \/ /\ ~taken /\ (writer \notin {Nobody, o} \/ from # writes)
           /\ Fail(o, "busy")
  /\ UNCHANGED <<kind, fileVars, seen, opens, deaths>>

(* The version is set in the same transaction, and all of it committed.    *)
Commit(o) ==
  /\ at[o] = "begun" /\ Next1(o) \notin Steps
  /\ \/ /\ writer \in {Nobody, o} /\ draft[o].from = writes
        /\ version' = Latest /\ schema' = draft[o].schema /\ writes' = writes + 1
        /\ at' = [at EXCEPT ![o] = "ready"]
        /\ draft' = [draft EXCEPT ![o] = NoDraft]
        /\ writer' = Nobody
     \/ /\ writer \notin {Nobody, o} \/ draft[o].from # writes
        /\ Fail(o, "busy") /\ UNCHANGED fileVars
  /\ UNCHANGED <<kind, seen, opens, deaths>>

(* with_store: an error of locking makes the caller try again (at most     *)
(* five times, 50 ms apart), any other is the answer; the connection is    *)
(* closed by invalidate_db_cache or at the end of its scope.               *)
Close(o) == /\ at[o] = "ready" /\ at' = [at EXCEPT ![o] = "out"]
            /\ UNCHANGED <<kind, fileVars, seen, draft, writer, opens, deaths>>

(* A mutant: user_version is set before the steps, in a commit of its own. *)
DieAfterVersion(o) == /\ at[o] = "begun" /\ deaths < MaxDeaths
                      /\ deaths' = deaths + 1 /\ version' = Latest
                      /\ Fail(o, "out")
                      /\ UNCHANGED <<kind, schema, writes, seen, opens>>

(* The process ends: what was not committed is gone.                       *)
Die(o) == /\ at[o] = "begun" /\ deaths < MaxDeaths
          /\ deaths' = deaths + 1
          /\ Fail(o, "out")
          /\ UNCHANGED <<kind, fileVars, seen, opens>>

Next == \E o \in Openers : \/ Open(o) \/ Migrate(o) \/ Step(o) \/ Commit(o)
                           \/ Close(o) \/ Die(o)

Spec == Init /\ [][Next]_vars

(***************************************************************************)
(* Properties                                                              *)
(***************************************************************************)
(* A connection that is handed out finds every table and column of its     *)
(* release (open returns only after migrate).                              *)
OpenedWhole == \A o \in Openers : at[o] = "ready" => Steps \subseteq schema

(* Whatever is committed is a whole release: the version never promises a  *)
(* step the file does not have (one transaction for steps and version).    *)
VersionTrue == 1..version \subseteq schema

(* An open that fails for good has been overtaken by another that brought  *)
(* the file up to date, so that the next one succeeds.                     *)
RefusedRecovers == \A o \in Openers : at[o] = "refused" => version >= Latest

StoreSound == OpenedWhole /\ VersionTrue /\ RefusedRecovers

(* Two openers of one old file both succeed: refuted, the loser of the race*)
(* meets a CREATE TABLE or ALTER TABLE that is not repeatable.             *)
NeverRefused == \A o \in Openers : at[o] # "refused"
=============================================================================
