--------------------------- MODULE DatabaseMigration ---------------------------
(***************************************************************************)
(* The start of a replica: entry.sh runs Django's migrate and then         *)
(* gunicorn, whatever migrate's exit code was.  Several replicas may start *)
(* at once, on a new database or on one of the version before, which other *)
(* replicas may still be using.  Migration 0002 is one transaction, and    *)
(* that it has been applied is recorded after its COMMIT.                  *)
(***************************************************************************)
EXTENDS Naturals, FiniteSets

CONSTANTS
    Replicas,
    Discoveries,    \* ids in discovery_history and in legacy rows
    Links,          \* ids of discovery_certificate
    Contents,       \* certificates in base64; also stand for their fingerprints
    MaxCrashes,     \* bound: how often a replica dies or the database fails in migrate
    NoValue         \* NULL

ASSUME MigrationAssumption ==
    /\ Replicas # {} /\ IsFiniteSet(Replicas) /\ MaxCrashes \in Nat
    /\ NoValue \notin Contents

VARIABLES
    pc,             \* where each replica is
    plan,           \* the migrations it found not to be recorded
    exit,           \* how its migrate ended: "failed" is an error of the database's own
    made,           \* the schema and django_migrations, once they are there
    schema,         \* the last migration whose tables are committed
    recorded,       \* rows of django_migrations
    history,        \* discovery_history, by id
    links, certificates, states,    \* the other tables as committed
    work,           \* ... and as the transaction of migration 0002 has them
    legacy,         \* history: the links of the start
    crashes,
    disturbed       \* history: a discovery was deleted under the backfill

tables == <<links, certificates, states>>
vars == <<pc, plan, exit, made, schema, recorded, history, tables, work, legacy, crashes, disturbed>>

Link == [id : Links, discovery : Discoveries, content : Contents \union {NoValue},
         certificate : Contents \union {NoValue}]

LegacyRows(ids) ==
    {{[id |-> l, discovery |-> at[l][1], content |-> at[l][2], certificate |-> NoValue] : l \in ids} :
        at \in [ids -> Discoveries \X Contents]}

(* The operations of migration 0002 up to its COMMIT, in order; a replica at *)
(* one of them is in the transaction, and from "insert" on it has the links  *)
(* locked, from "commit" on discovery_history too.                           *)
Transaction == {"seed", "addField", "insert", "point", "dropDangling", "notNull",
                "dropContent", "foreignKey", "commit"}
Locked == Transaction \ {"seed", "addField"}
SomeoneAt(places) == \E r \in Replicas : pc[r] \in places

NoTables == [links |-> {}, certificates |-> {}, states |-> 0]

Init ==
    /\ pc = [r \in Replicas |-> "start"]
    /\ plan = [r \in Replicas |-> {}]
    /\ exit = [r \in Replicas |-> "none"]
    /\ \/ made = {} /\ schema = 0 /\ recorded = {} /\ history = {} /\ links = {}
       \/ /\ made = {"schema", "django_migrations"} /\ schema = 1 /\ recorded = {1}
          /\ history \in SUBSET Discoveries
          /\ \E ids \in SUBSET Links : links \in LegacyRows(ids)
    /\ certificates = {} /\ states = 0
    /\ work = NoTables
    /\ legacy = links
    /\ crashes = 0 /\ disturbed = FALSE

-------------------------------------------------------------------------------
Goto(r, place) == pc' = [pc EXCEPT ![r] = place] /\ UNCHANGED exit
Exit(r, code) == /\ pc' = [pc EXCEPT ![r] = "serving"]
                 /\ exit' = [exit EXCEPT ![r] = code]

(* The next migration of the plan after one, or the end. *)
After(r, migration) ==
    IF migration < 1 /\ 1 \in plan[r] THEN "initial"
    ELSE IF migration < 2 /\ 2 \in plan[r] THEN "tables" ELSE "end"

(* MigrationExecutor: what is recorded is read once. *)
Plan(r) ==
    /\ pc[r] = "start"
    /\ plan' = [plan EXCEPT ![r] = {1, 2} \ recorded]
    /\ Goto(r, "checkSchema")
    /\ UNCHANGED <<made, schema, recorded, history, tables, work, legacy, crashes, disturbed>>

(* create_schema, then ensure_schema of django_migrations: each looks first, *)
(* and fails if another replica makes it in between.                         *)
Check(r, object) ==
    /\ pc[r] = (IF object = "schema" THEN "checkSchema" ELSE "checkMigrations")
    /\ Goto(r, IF object \notin made
               THEN IF object = "schema" THEN "makeSchema" ELSE "makeMigrations"
               ELSE IF object = "schema" THEN "checkMigrations" ELSE After(r, 0))
    /\ UNCHANGED <<plan, made, schema, recorded, history, tables, work, legacy, crashes, disturbed>>

Make(r, object) ==
    /\ pc[r] = (IF object = "schema" THEN "makeSchema" ELSE "makeMigrations")
    /\ IF object \in made
       THEN Exit(r, "error") /\ UNCHANGED made
       ELSE /\ made' = made \union {object}
            /\ Goto(r, IF object = "schema" THEN "checkMigrations" ELSE After(r, 0))
    /\ UNCHANGED <<plan, schema, recorded, history, tables, work, legacy, crashes, disturbed>>

(* Migration 0001: recorded in its transaction, nothing being deferred. *)
Initial(r) ==
    /\ pc[r] = "initial"
    /\ IF schema > 0
       THEN Exit(r, "error") /\ UNCHANGED <<schema, recorded>>
       ELSE schema' = 1 /\ recorded' = recorded \union {1} /\ Goto(r, After(r, 1))
    /\ UNCHANGED <<plan, made, history, tables, work, legacy, crashes, disturbed>>

-------------------------------------------------------------------------------
(* Mutant: CREATE TABLE IF NOT EXISTS. *)
CreateTables_IfNotExists(r) ==
    /\ pc[r] = "tables"
    /\ ~SomeoneAt(Transaction)
    /\ Goto(r, "seed")
    /\ work' = NoTables
    /\ UNCHANGED <<plan, made, schema, recorded, history, tables, legacy, crashes, disturbed>>

(* Migration 0002.  CREATE TABLE certificate waits for a transaction that    *)
(* has just created it, and fails once that is committed.                    *)
CreateTables(r) ==
    /\ pc[r] = "tables"
    /\ ~SomeoneAt(Transaction)
    /\ IF schema = 2 THEN Exit(r, "error") ELSE Goto(r, "seed")
    /\ work' = NoTables
    /\ UNCHANGED <<plan, made, schema, recorded, history, tables, legacy, crashes, disturbed>>

(* An operation inside the transaction. *)
Step(r, from, to, w) ==
    /\ pc[r] = from
    /\ Goto(r, to)
    /\ work' = w
    /\ UNCHANGED <<plan, made, schema, recorded, history, tables, legacy, crashes, disturbed>>

seed_certificate_cleanup_state(r) == Step(r, "seed", "addField", [work EXCEPT !.states = @ + 1])

(* ALTER TABLE: from here on nobody else reads or writes the links. *)
AddCertificate(r) == Step(r, "addField", "insert", [work EXCEPT !.links = links])

(* Mutant: the contents of all rows are copied. *)
InsertCertificates_All(r) ==
    Step(r, "insert", "point", [work EXCEPT !.certificates = {l.content : l \in work.links}])

(* INSERT: one row per content, of rows whose discovery exists. *)
InsertCertificates(r) ==
    Step(r, "insert", "point", [work EXCEPT !.certificates =
        {l.content : l \in {l \in work.links : l.discovery \in history}}])

(* UPDATE: a row whose content was not inserted keeps its NULL. *)
PointLinks(r) ==
    Step(r, "point", "dropDangling", [work EXCEPT !.links =
        {IF l.content \in work.certificates THEN [l EXCEPT !.certificate = l.content] ELSE l :
            l \in work.links}])

(* Mutant: rows without a certificate are dropped, for the sake of NOT NULL. *)
DropDangling_Null(r) ==
    Step(r, "dropDangling", "notNull", [work EXCEPT !.links =
        {l \in work.links : l.certificate # NoValue}])

DropDangling(r) ==
    Step(r, "dropDangling", "notNull", [work EXCEPT !.links =
        {l \in work.links : l.discovery \in history}])

(* An exception: ROLLBACK, migrate exits, gunicorn starts. *)
Rollback(r, from) ==
    /\ pc[r] = from
    /\ Exit(r, "error")
    /\ work' = NoTables
    /\ UNCHANGED <<plan, made, schema, recorded, history, tables, legacy, crashes, disturbed>>

SetNotNull(r) ==
    IF \A l \in work.links : l.certificate # NoValue
    THEN Step(r, "notNull", "dropContent", work) ELSE Rollback(r, "notNull")

DropContent(r) ==
    Step(r, "dropContent", "foreignKey", [work EXCEPT !.links =
        {[l EXCEPT !.content = NoValue] : l \in work.links}])

(* ADD CONSTRAINT checks every row against discovery_history as it is now. *)
AddForeignKey(r) ==
    IF \A l \in work.links : l.discovery \in history
    THEN Step(r, "foreignKey", "commit", work) ELSE Rollback(r, "foreignKey")

(* The index on uuid, the deferred SQL, COMMIT. *)
CommitMigration(r) ==
    /\ pc[r] = "commit"
    /\ Goto(r, "record")
    /\ schema' = 2
    /\ links' = work.links /\ certificates' = work.certificates /\ states' = work.states
    /\ work' = NoTables
    /\ UNCHANGED <<plan, made, recorded, history, legacy, crashes, disturbed>>

(* record_migration, in a transaction of its own. *)
Record(r) ==
    /\ pc[r] = "record"
    /\ recorded' = recorded \union {2}
    /\ Goto(r, "end")
    /\ UNCHANGED <<plan, made, schema, history, tables, work, legacy, crashes, disturbed>>

Finish(r) ==
    /\ pc[r] = "end"
    /\ Exit(r, "ok")
    /\ UNCHANGED <<plan, made, schema, recorded, history, tables, work, legacy, crashes, disturbed>>

-------------------------------------------------------------------------------
(* A statement fails: the connection is lost, or a timeout.  What is not     *)
(* committed is rolled back, migrate exits, gunicorn starts.                 *)
Fails(r) ==
    /\ pc[r] # "serving" /\ crashes < MaxCrashes
    /\ Exit(r, "failed")
    /\ crashes' = crashes + 1
    /\ work' = IF pc[r] \in Transaction THEN NoTables ELSE work
    /\ UNCHANGED <<plan, made, schema, recorded, history, tables, legacy, disturbed>>

(* The container is killed in migrate and started again. *)
Restart(r) ==
    /\ pc[r] \notin {"start", "serving"} /\ crashes < MaxCrashes
    /\ Goto(r, "start")
    /\ crashes' = crashes + 1
    /\ work' = IF pc[r] \in Transaction THEN NoTables ELSE work
    /\ UNCHANGED <<plan, made, schema, recorded, history, tables, legacy, disturbed>>

(* A replica of the version before deletes a discovery and leaves its rows,  *)
(* as legacy databases have them; it waits for the lock of ADD CONSTRAINT.   *)
(* What it stores before the links are locked is like a row of the start.    *)
OldDelete ==
    /\ schema = 1 /\ ~SomeoneAt({"commit"})
    /\ \E d \in history : history' = history \ {d}
    /\ disturbed' = (disturbed \/ SomeoneAt(Locked))
    /\ UNCHANGED <<pc, plan, exit, made, schema, recorded, tables, work, legacy, crashes>>

Next ==
    \/ \E r \in Replicas :
        \/ Plan(r) \/ \E object \in {"schema", "django_migrations"} : Check(r, object) \/ Make(r, object)
        \/ Initial(r) \/ CreateTables(r) \/ seed_certificate_cleanup_state(r)
        \/ AddCertificate(r) \/ InsertCertificates(r) \/ PointLinks(r) \/ DropDangling(r)
        \/ SetNotNull(r) \/ DropContent(r) \/ AddForeignKey(r) \/ CommitMigration(r)
        \/ Record(r) \/ Finish(r) \/ Fails(r) \/ Restart(r)
    \/ OldDelete

Spec == Init /\ [][Next]_vars

-------------------------------------------------------------------------------
(* Every variable has its type, and at most one replica is in migration 0002. *)
TypeOK ==
    /\ plan \in [Replicas -> SUBSET {1, 2}]
    /\ exit \in [Replicas -> {"none", "ok", "error", "failed"}]
    /\ made \subseteq {"schema", "django_migrations"}
    /\ schema \in 0..2 /\ recorded \subseteq 1..2
    /\ history \subseteq Discoveries
    /\ links \union work.links \union legacy \subseteq Link
    /\ certificates \union work.certificates \subseteq Contents
    /\ Cardinality({r \in Replicas : pc[r] \in Transaction}) <= 1
    /\ schema = 2 => ~SomeoneAt(Transaction)

(* However many replicas start at once, and are killed and started again,    *)
(* one of them brings the database to the schema the code needs, unless an   *)
(* old replica deleted a discovery under the backfill or the database failed *)
(* one of them; it records that, unless it is killed after the COMMIT; and   *)
(* migrate reports success for nothing less, whatever happened.              *)
OneSucceeds ==
    /\ (\A r \in Replicas : pc[r] = "serving" /\ exit[r] # "failed") /\ ~disturbed =>
           /\ schema = 2
           /\ crashes = 0 => recorded = {1, 2} /\ \E r \in Replicas : exit[r] = "ok"
    /\ \A r \in Replicas : exit[r] = "ok" => schema = 2 /\ recorded = {1, 2}

(* After the upgrade every link whose discovery exists is there with its     *)
(* discovery and content and no other is; no certificate is without a link,  *)
(* unless its discovery was deleted under the backfill, and none is of no    *)
(* link of the start; and there is one row of cleanup state.  Until then,    *)
(* and for good when no replica gets there, the old replicas' links are as   *)
(* they were.                                                                *)
NothingLost ==
    IF schema < 2 THEN links = legacy /\ certificates = {} /\ states = 0
    ELSE /\ {<<l.id, l.discovery, l.certificate>> : l \in links} =
            {<<l.id, l.discovery, l.content>> : l \in {l \in legacy : l.discovery \in history}}
         /\ {l.certificate : l \in links} \subseteq certificates
         /\ certificates \subseteq {l.content : l \in legacy}
         /\ disturbed \/ certificates = {l.certificate : l \in links}
         /\ \A l \in links : l.content = NoValue
         /\ states = 1
================================================================================
