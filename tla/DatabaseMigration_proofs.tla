----------------------- MODULE DatabaseMigration_proofs -----------------------
(***************************************************************************)
(* Any number of replicas of any two versions, on any legacy database: the *)
(* invariant that DatabaseMigration keeps, and what follows from it.       *)
(***************************************************************************)
EXTENDS DatabaseMigration, FiniteSetTheorems, TLAPS

Before == {"checkSchema", "makeSchema", "checkMigrations", "makeMigrations", "initial"}
Places == {"start", "tables", "record", "end", "serving"} \union Before \union Transaction

Objects == {"schema", "django_migrations"}

Types ==
    /\ pc \in [Replicas -> Places]
    /\ plan \in [Replicas -> SUBSET {1, 2}]
    /\ exit \in [Replicas -> {"none", "ok", "error", "failed"}]
    /\ made \subseteq Objects
    /\ schema \in 0..2 /\ recorded \subseteq {1, 2}
    /\ history \subseteq Discoveries
    /\ links \subseteq Link /\ certificates \subseteq Contents /\ states \in Nat
    /\ work \in [links : SUBSET Link, certificates : SUBSET Contents, states : Nat]
    /\ legacy \subseteq Link
    /\ crashes \in Nat /\ disturbed \in BOOLEAN

-------------------------------------------------------------------------------
(* Where the replicas are, against what is committed and recorded. *)
OneInTransaction ==
    \A r, s \in Replicas : pc[r] \in Transaction /\ pc[s] \in Transaction => r = s

RecordsAreTrue ==
    /\ 2 \in recorded => schema = 2
    /\ 1 \in recorded <=> schema > 0
    /\ schema > 0 => made = Objects

PlaceFits(r) ==
    /\ pc[r] # "start" /\ exit[r] # "failed" => (1 \in plan[r] \union recorded) /\ (2 \in plan[r] \union recorded)
    /\ pc[r] \in {"checkMigrations", "makeMigrations"} => "schema" \in made
    /\ pc[r] = "initial" => made = Objects /\ 1 \in plan[r]
    /\ pc[r] = "tables" => schema > 0
    /\ pc[r] \in Transaction => schema = 1
    /\ pc[r] = "record" => schema = 2
    /\ pc[r] = "end" => 2 \in recorded
    /\ exit[r] = "ok" => 2 \in recorded
    /\ exit[r] # "none" => pc[r] = "serving"

Control == OneInTransaction /\ RecordsAreTrue /\ \A r \in Replicas : PlaceFits(r)

-------------------------------------------------------------------------------
(* The tables, against the rows of the start, operation by operation. *)
Pointed(l) == [id |-> l.id, discovery |-> l.discovery, content |-> l.content,
               certificate |-> l.content]
Moved(l) == [id |-> l.id, discovery |-> l.discovery, content |-> NoValue,
             certificate |-> l.content]

Live == {l \in legacy : l.discovery \in history}
LiveContents == {l.content : l \in Live}

Covers(some) ==
    /\ LiveContents \subseteq some /\ some \subseteq {l.content : l \in legacy}
    /\ disturbed \/ some = LiveContents

AllLive == disturbed \/ \A k \in work.links : k.discovery \in history
IsPointed(k) == \E l \in legacy : k = Pointed(l)

Stage(place) ==
    /\ place = "seed" => work = NoTables
    /\ place \in Transaction \ {"seed"} => work.states = 1
    /\ place \in {"insert", "point"} => work.links = legacy
    /\ place \in Locked \ {"insert"} => Covers(work.certificates)
    /\ place \in {"dropDangling", "notNull", "dropContent"} =>
           \A l \in Live : Pointed(l) \in work.links
    /\ place \in {"dropDangling", "notNull"} =>
           \A k \in work.links : IsPointed(k) \/ (k \in legacy /\ k.content \notin work.certificates)
    /\ place \in {"notNull", "dropContent", "foreignKey"} => AllLive
    /\ place = "dropContent" => \A k \in work.links : IsPointed(k)
    /\ place = "foreignKey" =>
           /\ \A l \in Live : Moved(l) \in work.links
           /\ \A k \in work.links : \E l \in legacy : k = Moved(l)
    /\ place = "commit" => work.links = {Moved(l) : l \in Live}

Rows ==
    /\ \A l \in legacy : l.content # NoValue /\ l.certificate = NoValue
    /\ schema < 2 => links = legacy /\ certificates = {} /\ states = 0
    /\ schema = 2 => links = {Moved(l) : l \in Live} /\ Covers(certificates) /\ states = 1

Data == Rows /\ \A r \in Replicas : Stage(pc[r])

-------------------------------------------------------------------------------
(* Some replica will not fail: what it has yet to make is not there. *)
Doomed(r) ==
    \/ pc[r] = "makeSchema" /\ "schema" \in made
    \/ pc[r] = "makeMigrations" /\ "django_migrations" \in made
    \/ pc[r] \in Before /\ 1 \in plan[r] /\ schema > 0

NoneFailed == \A r \in Replicas : exit[r] # "failed"

SomeoneArrives ==
    schema < 2 /\ ~disturbed /\ NoneFailed => \E r \in Replicas : pc[r] # "serving" /\ ~Doomed(r)

SomeoneRecords ==
    crashes = 0 /\ schema = 2 =>
        \E r \in Replicas : \/ pc[r] = "record"
                            \/ (2 \in recorded /\ (pc[r] = "end" \/ exit[r] = "ok"))

IInv == Types /\ Control /\ Data /\ SomeoneArrives /\ SomeoneRecords

-------------------------------------------------------------------------------
(* The initial states: a new database, or one with legacy rows. *)
LEMMA InitIInv == Init => IInv
<1> SUFFICES ASSUME Init PROVE IInv
  OBVIOUS
<1> USE DEF Init
<1>1. links \subseteq Link /\ \A l \in links : l.content # NoValue /\ l.certificate = NoValue
  <2>1. CASE links = {}
    BY <2>1
  <2>2. ASSUME NEW ids \in SUBSET Links, links \in LegacyRows(ids)
        PROVE  links \subseteq Link /\ \A l \in links : l.content # NoValue /\ l.certificate = NoValue
    <3>1. PICK at \in [ids -> Discoveries \X Contents] :
              links = {[id |-> l, discovery |-> at[l][1], content |-> at[l][2],
                        certificate |-> NoValue] : l \in ids}
      BY <2>2 DEF LegacyRows
    <3>2. ASSUME NEW k \in links PROVE k \in Link /\ k.content # NoValue /\ k.certificate = NoValue
      <4>1. PICK l \in ids : k = [id |-> l, discovery |-> at[l][1], content |-> at[l][2],
                                  certificate |-> NoValue]
        BY <3>1
      <4>2. at[l] \in Discoveries \X Contents
        OBVIOUS
      <4>3. at[l][1] \in Discoveries /\ at[l][2] \in Contents
        BY <4>2
      <4>4. at[l][2] # NoValue
        BY <4>3, MigrationAssumption
      <4> QED
        BY <4>1, <4>3, <4>4 DEF Link
    <3> QED
      BY <3>2
  <2> QED
    BY <2>1, <2>2
<1>2. Types
  <2>1. work \in [links : SUBSET Link, certificates : SUBSET Contents, states : Nat]
    BY DEF NoTables
  <2>2. made \subseteq Objects /\ schema \in 0..2 /\ recorded \subseteq {1, 2}
        /\ history \subseteq Discoveries
    BY DEF Objects
  <2>3. pc \in [Replicas -> Places] /\ plan \in [Replicas -> SUBSET {1, 2}]
        /\ exit \in [Replicas -> {"none", "ok", "error", "failed"}]
    BY DEF Places
  <2> QED
    BY <1>1, <2>1, <2>2, <2>3 DEF Types
<1>3. Control
  BY DEF Control, OneInTransaction, RecordsAreTrue, PlaceFits, Transaction, Objects
<1>4. Data
  BY <1>1 DEF Data, Rows, Stage, Transaction, Locked
<1>5. SomeoneArrives /\ SomeoneRecords
  BY MigrationAssumption DEF SomeoneArrives, SomeoneRecords, Doomed, Before
<1> QED
  BY <1>2, <1>3, <1>4, <1>5 DEF IInv

(* A step outside the transaction of 0002 does not disturb the tables. *)
LEMMA OutsideKeeps ==
    ASSUME Data, Types,
           UNCHANGED <<links, certificates, states, work, legacy, history, disturbed>>,
           schema' = schema \/ (schema' < 2 /\ schema < 2),
           \A r \in Replicas : pc'[r] \in Transaction => pc'[r] = pc[r]
    PROVE  Data'
<1>1. Rows'
  BY DEF Data, Rows, Live, LiveContents, Covers, Types
<1>2. ASSUME NEW r \in Replicas PROVE Stage(pc[r])'
  <2>1. CASE pc'[r] \in Transaction
    BY <2>1 DEF Data, Stage, Live, LiveContents, Covers, AllLive, IsPointed
  <2>2. CASE pc'[r] \notin Transaction
    BY <2>2 DEF Stage, Transaction, Locked
  <2> QED
    BY <2>1, <2>2
<1> QED
  BY <1>1, <1>2 DEF Data

-------------------------------------------------------------------------------
(* A replica that moves outside the transaction only has to fit its new place. *)
LEMMA MoveKeeps ==
    ASSUME Types, Control, Data, made' \subseteq Objects,
           NEW r \in Replicas, pc'[r] \notin Transaction,
           \A s \in Replicas : s # r =>
               pc'[s] = pc[s] /\ plan'[s] = plan[s] /\ exit'[s] = exit[s],
           UNCHANGED <<links, certificates, states, work, legacy, history, disturbed>>,
           schema' = schema \/ (schema = 0 /\ schema' = 1),
           made \subseteq made', recorded \subseteq recorded'
    PROVE  OneInTransaction' /\ (\A s \in Replicas : s # r => PlaceFits(s)') /\ Data'
<1>1. OneInTransaction'
  BY DEF Control, OneInTransaction
<1>2. ASSUME NEW s \in Replicas, s # r PROVE PlaceFits(s)'
  <2>1. pc'[s] = pc[s] /\ plan'[s] = plan[s] /\ exit'[s] = exit[s] /\ PlaceFits(s)
    BY <1>2 DEF Control
  <2>2. made' = Objects \/ made # Objects
    BY DEF Types
  <2>3. schema = 0 => pc[s] \notin Transaction
    BY <2>1 DEF PlaceFits
  <2> QED
    BY <2>1, <2>2, <2>3 DEF PlaceFits, Types
<1>3. Data'
  BY OutsideKeeps DEF Types
<1> QED
  BY <1>1, <1>2, <1>3

(* Where the plan leads. *)
LEMMA AfterIsNext ==
    ASSUME NEW r \in Replicas, NEW m \in {0, 1}
    PROVE  /\ After(r, m) \in {"initial", "tables", "end"}
           /\ After(r, m) = "initial" => m = 0 /\ 1 \in plan[r]
           /\ After(r, m) = "tables" => m = 1 \/ 1 \notin plan[r]
           /\ After(r, m) = "end" => 2 \notin plan[r]
BY DEF After

(* What a replica does before migration 0002. *)
LEMMA PlanKeeps == ASSUME IInv, NEW r \in Replicas, Plan(r) PROVE IInv'
<1>0. Types /\ Control /\ Data /\ SomeoneArrives /\ SomeoneRecords
  BY DEF IInv
<1>1. /\ pc' = [pc EXCEPT ![r] = "checkSchema"] /\ pc[r] = "start"
      /\ plan' = [plan EXCEPT ![r] = {1, 2} \ recorded]
      /\ UNCHANGED <<exit, made, schema, recorded, history, links, certificates, states, work,
                     legacy, crashes, disturbed>>
  BY DEF Plan, Goto, tables
<1>2. Types'
  BY <1>0, <1>1 DEF Types, Places, Before
<1>3. pc'[r] = "checkSchema" /\ plan'[r] = {1, 2} \ recorded /\ exit'[r] = exit[r]
  BY <1>0, <1>1 DEF Types
<1>4. Control' /\ Data'
  <2>1. RecordsAreTrue'
    BY <1>0, <1>1 DEF Control, RecordsAreTrue
  <2>2. \A s \in Replicas : s # r =>
            pc'[s] = pc[s] /\ plan'[s] = plan[s] /\ exit'[s] = exit[s]
    BY <1>0, <1>1 DEF Types
  <2>3. pc'[r] \notin Transaction
    BY <1>3 DEF Transaction
  <2>4. /\ UNCHANGED <<links, certificates, states, work, legacy, history, disturbed>>
        /\ made' \subseteq Objects /\ made \subseteq made' /\ recorded \subseteq recorded'
        /\ schema' = schema \/ (schema = 0 /\ schema' = 1)
    BY <1>0, <1>1 DEF Types
  <2>5. OneInTransaction' /\ (\A s \in Replicas : s # r => PlaceFits(s)') /\ Data'
    BY <1>0, <2>2, <2>3, <2>4, MoveKeeps
  <2>6. PlaceFits(r)'
    BY <1>0, <1>1, <1>3 DEF Control, PlaceFits, Transaction
  <2> QED
    BY <2>1, <2>5, <2>6 DEF Control
<1>5. SomeoneArrives'
  <2>1. ~Doomed(r)'
    BY <1>0, <1>1, <1>3 DEF Doomed, Control, RecordsAreTrue
  <2> QED
    BY <1>3, <2>1 DEF SomeoneArrives
<1>6. SomeoneRecords'
  BY <1>0, <1>1, <1>3 DEF Types, Control, PlaceFits, SomeoneRecords
<1> QED
  BY <1>2, <1>4, <1>5, <1>6 DEF IInv

LEMMA CheckKeeps ==
    ASSUME IInv, NEW r \in Replicas, NEW object \in Objects, Check(r, object) PROVE IInv'
<1> USE DEF IInv, Check, Goto
<1>1. PICK place \in {"makeSchema", "checkMigrations", "makeMigrations", "initial", "tables", "end"} :
          /\ pc' = [pc EXCEPT ![r] = place]
          /\ pc[r] \in {"checkSchema", "checkMigrations"}
          /\ place = "makeSchema" => "schema" \notin made
          /\ place = "checkMigrations" => "schema" \in made
          /\ place = "makeMigrations" => "schema" \in made /\ "django_migrations" \notin made
          /\ place = "initial" => made = Objects /\ 1 \in plan[r]
          /\ place = "tables" => 1 \notin plan[r]
          /\ place = "end" => 2 \notin plan[r]
  <2>1. CASE object \notin made
    BY <2>1 DEF Objects, Types, Control, PlaceFits
  <2>2. CASE object \in made /\ object = "schema"
    BY <2>2
  <2>3. CASE object \in made /\ object = "django_migrations"
    <3>1. pc[r] = "checkMigrations" /\ pc' = [pc EXCEPT ![r] = After(r, 0)]
      BY <2>3
    <3>2. made = Objects
      BY <2>3, <3>1 DEF Objects, Types, Control, PlaceFits
    <3>3. /\ After(r, 0) \in {"initial", "tables", "end"}
          /\ After(r, 0) = "initial" => 1 \in plan[r]
          /\ After(r, 0) = "tables" => 1 \notin plan[r]
          /\ After(r, 0) = "end" => 2 \notin plan[r]
      BY AfterIsNext
    <3> QED
      BY <3>1, <3>2, <3>3
  <2> QED
    BY <2>1, <2>2, <2>3 DEF Objects
<1>2. Types'
  BY <1>1 DEF Types, Places, Before, tables
<1>3. pc'[r] = place /\ UNCHANGED <<plan, exit, made, schema, recorded, history, tables, work,
                                    legacy, crashes, disturbed>>
  BY <1>1 DEF Types
<1>4. PlaceFits(r)'
  BY <1>1, <1>3 DEF Types, Control, RecordsAreTrue, PlaceFits, Transaction
<1>5. Control' /\ Data'
  <2>1. RecordsAreTrue'
    BY <1>3 DEF Control, RecordsAreTrue
  <2>2. \A s \in Replicas : s # r =>
               pc'[s] = pc[s] /\ plan'[s] = plan[s] /\ exit'[s] = exit[s]
    BY <1>1, <1>3 DEF Types
  <2>3. pc'[r] \notin Transaction
    BY <1>3 DEF Transaction
  <2>4. /\ UNCHANGED <<links, certificates, states, work, legacy, history, disturbed>>
        /\ made' \subseteq Objects /\ made \subseteq made' /\ recorded \subseteq recorded'
        /\ schema' = schema \/ (schema = 0 /\ schema' = 1)
    BY DEF Types, tables
  <2>5. OneInTransaction' /\ (\A s \in Replicas : s # r => PlaceFits(s)') /\ Data'
    BY <2>2, <2>3, <2>4, MoveKeeps
  <2> QED
    BY <1>4, <2>1, <2>5 DEF Control
<1>6. SomeoneArrives'
  BY <1>1, <1>3 DEF Types, Control, RecordsAreTrue, PlaceFits, SomeoneArrives, NoneFailed, Doomed, Before, Objects
<1>7. SomeoneRecords'
  BY <1>1, <1>3 DEF Types, Control, PlaceFits, SomeoneRecords
<1> QED
  BY <1>2, <1>5, <1>6, <1>7

LEMMA MakeKeeps ==
    ASSUME IInv, NEW r \in Replicas, NEW object \in Objects, Make(r, object) PROVE IInv'
<1>0. Types /\ Control /\ Data /\ SomeoneArrives /\ SomeoneRecords
  BY DEF IInv
<1>1. UNCHANGED <<plan, schema, recorded, history, links, certificates, states, work,
                  legacy, crashes, disturbed>>
  BY DEF Make, tables
<1>2. PICK place \in {"checkMigrations", "initial", "tables", "end", "serving"} :
          /\ pc' = [pc EXCEPT ![r] = place]
          /\ pc[r] \in {"makeSchema", "makeMigrations"}
          /\ made' \subseteq Objects /\ made \subseteq made'
          /\ IF place = "serving"
             THEN made' = made /\ exit' = [exit EXCEPT ![r] = "error"] /\ Doomed(r)
             ELSE exit' = exit /\ "schema" \in made' /\ made # made'
          /\ place \in {"initial", "tables", "end"} => made' = Objects
          /\ place = "initial" => 1 \in plan[r]
          /\ place = "tables" => 1 \notin plan[r]
          /\ place = "end" => 2 \notin plan[r]
  <2>1. CASE object \in made
    <3>1. pc[r] \in {"makeSchema", "makeMigrations"} /\ pc' = [pc EXCEPT ![r] = "serving"]
          /\ made' = made /\ exit' = [exit EXCEPT ![r] = "error"] /\ made' \subseteq Objects
      BY <1>0, <2>1 DEF Make, Exit, Types
    <3>2. Doomed(r)
      BY <2>1 DEF Make, Doomed, Objects
    <3> QED
      BY <3>1, <3>2
  <2>2. CASE object \notin made /\ object = "schema"
    <3>1. pc[r] = "makeSchema" /\ pc' = [pc EXCEPT ![r] = "checkMigrations"]
          /\ made' = made \union {object} /\ exit' = exit
      BY <2>2 DEF Make, Goto
    <3>2. made' \subseteq Objects /\ "schema" \in made' /\ made # made'
      BY <1>0, <2>2, <3>1 DEF Types, Objects
    <3> QED
      BY <3>1, <3>2
  <2>3. CASE object \notin made /\ object = "django_migrations"
    <3>1. pc[r] = "makeMigrations" /\ pc' = [pc EXCEPT ![r] = After(r, 0)]
          /\ made' = made \union {object} /\ exit' = exit
      BY <2>3 DEF Make, Goto
    <3>2. made' = Objects
      BY <1>0, <2>3, <3>1 DEF Objects, Types, Control, PlaceFits
    <3>3. /\ After(r, 0) \in {"initial", "tables", "end"}
          /\ After(r, 0) = "initial" => 1 \in plan[r]
          /\ After(r, 0) = "tables" => 1 \notin plan[r]
          /\ After(r, 0) = "end" => 2 \notin plan[r]
      BY AfterIsNext
    <3> QED
      BY <2>3, <3>1, <3>2, <3>3, <1>0 DEF Objects, Types
  <2> QED
    BY <2>1, <2>2, <2>3 DEF Objects
<1>3. pc'[r] = place /\ \A s \in Replicas : s # r =>
          pc'[s] = pc[s] /\ plan'[s] = plan[s] /\ exit'[s] = exit[s]
  BY <1>0, <1>1, <1>2 DEF Types
<1>4. Types'
  BY <1>0, <1>1, <1>2 DEF Types, Places, Before
<1>5. Control' /\ Data'
  <2>1. RecordsAreTrue'
    BY <1>0, <1>1, <1>2 DEF Control, RecordsAreTrue
  <2>2. pc'[r] \notin Transaction
    BY <1>3 DEF Transaction
  <2>3. schema' = schema \/ (schema = 0 /\ schema' = 1)
    BY <1>1
  <2>4. OneInTransaction' /\ (\A s \in Replicas : s # r => PlaceFits(s)') /\ Data'
    BY <1>0, <1>1, <1>2, <1>3, <2>2, <2>3, MoveKeeps
  <2>5. exit'[r] = "error" \/ (exit'[r] = exit[r] /\ place # "serving")
    BY <1>0, <1>2 DEF Types
  <2>6. PlaceFits(r)'
    BY <1>0, <1>1, <1>2, <1>3, <2>5 DEF Types, Control, RecordsAreTrue, PlaceFits, Transaction
  <2> QED
    BY <2>1, <2>4, <2>6 DEF Control
<1>6. SomeoneArrives'
  <2>1. CASE place = "serving"
    <3>1. NoneFailed' => NoneFailed
      BY <1>0, <1>2, <1>3 DEF NoneFailed, Control, PlaceFits
    <3> QED
      BY <1>0, <1>1, <1>2, <1>3, <2>1, <3>1 DEF SomeoneArrives, Doomed
  <2>2. CASE place # "serving"
    <3>1. schema = 0
      BY <1>0, <1>2, <2>2 DEF Types, Control, RecordsAreTrue
    <3>2. ~Doomed(r)'
      BY <1>1, <1>3, <3>1 DEF Doomed
    <3> QED
      BY <1>3, <2>2, <3>2 DEF SomeoneArrives
  <2> QED
    BY <2>1, <2>2
<1>7. SomeoneRecords'
  <2>1. \A s \in Replicas : pc[s] \in {"record", "end"} \/ exit[s] = "ok" => s # r
    BY <1>0, <1>2 DEF Control, PlaceFits
  <2> QED
    BY <1>0, <1>1, <1>3, <2>1 DEF SomeoneRecords
<1> QED
  BY <1>4, <1>5, <1>6, <1>7 DEF IInv

LEMMA InitialKeeps == ASSUME IInv, NEW r \in Replicas, Initial(r) PROVE IInv'
<1>0. Types /\ Control /\ Data /\ SomeoneArrives /\ SomeoneRecords
  BY DEF IInv
<1>1. /\ pc[r] = "initial" /\ made = Objects
      /\ UNCHANGED <<plan, made, history, links, certificates, states, work,
                     legacy, crashes, disturbed>>
  BY <1>0 DEF Initial, tables, Control, PlaceFits
<1>2. PICK place \in {"tables", "end", "serving"} :
          /\ pc' = [pc EXCEPT ![r] = place]
          /\ IF place = "serving"
             THEN /\ schema > 0 /\ schema' = schema /\ recorded' = recorded
                  /\ exit' = [exit EXCEPT ![r] = "error"]
             ELSE /\ schema = 0 /\ schema' = 1 /\ recorded' = recorded \union {1}
                  /\ exit' = exit
          /\ place = "end" => 2 \notin plan[r]
  <2>1. CASE schema > 0
    BY <2>1 DEF Initial, Exit
  <2>2. CASE ~(schema > 0)
    <3>1. /\ After(r, 1) \in {"tables", "end"}
          /\ After(r, 1) = "end" => 2 \notin plan[r]
      BY AfterIsNext
    <3> QED
      BY <1>0, <2>2, <3>1 DEF Initial, Goto, Types
  <2> QED
    BY <2>1, <2>2
<1>3. pc'[r] = place /\ \A s \in Replicas : s # r =>
          pc'[s] = pc[s] /\ plan'[s] = plan[s] /\ exit'[s] = exit[s]
  BY <1>0, <1>1, <1>2 DEF Types
<1>4. Types'
  <2>1. schema' \in 0..2 /\ recorded' \subseteq {1, 2}
    <3>1. CASE place = "serving"
      BY <1>0, <1>2, <3>1 DEF Types
    <3>2. CASE place # "serving"
      <4>1. schema' = 1 /\ recorded' = recorded \union {1}
        BY <1>2, <3>2
      <4> QED
        BY <1>0, <4>1 DEF Types
    <3> QED
      BY <3>1, <3>2
  <2>3. exit' \in [Replicas -> {"none", "ok", "error", "failed"}]
    <3>1. CASE place = "serving"
      BY <1>0, <1>2, <3>1 DEF Types
    <3>2. CASE place # "serving"
      BY <1>0, <1>2, <3>2 DEF Types
    <3> QED
      BY <3>1, <3>2
  <2>2. pc' \in [Replicas -> Places]
    BY <1>0, <1>2 DEF Types, Places
  <2> QED
    BY <1>0, <1>1, <2>1, <2>2, <2>3 DEF Types
<1>5. Control' /\ Data'
  <2>1. RecordsAreTrue'
    BY <1>0, <1>1, <1>2 DEF Control, RecordsAreTrue
  <2>2. pc'[r] \notin Transaction
    BY <1>3 DEF Transaction
  <2>3. /\ schema' = schema \/ (schema = 0 /\ schema' = 1)
        /\ made' \subseteq Objects /\ made \subseteq made' /\ recorded \subseteq recorded'
    BY <1>1, <1>2
  <2>4. OneInTransaction' /\ (\A s \in Replicas : s # r => PlaceFits(s)') /\ Data'
    BY <1>0, <1>1, <1>3, <2>2, <2>3, MoveKeeps
  <2>5. exit'[r] = "error" \/ (exit'[r] = exit[r] /\ place # "serving")
    BY <1>0, <1>2 DEF Types
  <2>6. PlaceFits(r)'
    BY <1>0, <1>1, <1>2, <1>3, <2>5 DEF Types, Control, RecordsAreTrue, PlaceFits, Transaction
  <2> QED
    BY <2>1, <2>4, <2>6 DEF Control
<1>6. SomeoneArrives'
  <2>1. CASE place = "serving"
    <3>1. 1 \in plan[r] => Doomed(r)
      BY <1>1, <1>2, <2>1 DEF Doomed, Before
    <3>2. 1 \in plan[r]
      BY <1>0, <1>1 DEF Control, PlaceFits
    <3>3. NoneFailed' => NoneFailed
      BY <1>0, <1>1, <1>3 DEF NoneFailed, Control, PlaceFits
    <3> QED
      BY <1>0, <1>1, <1>2, <1>3, <2>1, <3>1, <3>2, <3>3 DEF SomeoneArrives, Doomed
  <2>2. CASE place # "serving"
    <3>1. ~Doomed(r)'
      BY <1>2, <1>3, <2>2 DEF Doomed, Before
    <3> QED
      BY <1>3, <2>2, <3>1 DEF SomeoneArrives
  <2> QED
    BY <2>1, <2>2
<1>7. SomeoneRecords'
  <2>1. \A s \in Replicas : pc[s] \in {"record", "end"} \/ exit[s] = "ok" => s # r
    BY <1>0, <1>1 DEF Control, PlaceFits
  <2> QED
    BY <1>0, <1>1, <1>2, <1>3, <2>1 DEF SomeoneRecords, Types
<1> QED
  BY <1>4, <1>5, <1>6, <1>7 DEF IInv

-------------------------------------------------------------------------------
(* An operation inside the transaction of 0002. *)
LEMMA StepKeeps ==
    ASSUME IInv, NEW r \in Replicas, NEW to \in Transaction, pc[r] \in Transaction,
           pc' = [pc EXCEPT ![r] = to],
           work' \in [links : SUBSET Link, certificates : SUBSET Contents, states : Nat],
           UNCHANGED <<plan, exit, made, schema, recorded, history, links, certificates, states,
                       legacy, crashes, disturbed>>,
           Stage(to)'
    PROVE  IInv'
<1>0. Types /\ Control /\ Data /\ SomeoneArrives /\ SomeoneRecords
  BY DEF IInv
<1>1. Types'
  BY <1>0 DEF Types, Places
<1>2. pc'[r] = to /\ \A s \in Replicas : s # r => pc'[s] = pc[s] /\ pc[s] \notin Transaction
  BY <1>0 DEF Types, Control, OneInTransaction
<1>3. OneInTransaction' /\ RecordsAreTrue'
  BY <1>0, <1>2 DEF Control, OneInTransaction, RecordsAreTrue
<1>4. ASSUME NEW s \in Replicas PROVE PlaceFits(s)'
  <2>1. CASE s = r
    BY <1>0, <1>2, <2>1 DEF Control, PlaceFits, Transaction
  <2>2. CASE s # r
    BY <1>0, <1>2, <2>2 DEF Control, PlaceFits
  <2> QED
    BY <2>1, <2>2
<1>5. Data'
  <2>1. Rows'
    BY <1>0 DEF Data, Rows, Live, LiveContents, Covers
  <2>2. ASSUME NEW s \in Replicas PROVE Stage(pc[s])'
    <3>1. CASE s = r
      BY <1>2, <3>1
    <3>2. CASE s # r
      BY <1>2, <3>2 DEF Stage, Transaction, Locked
    <3> QED
      BY <3>1, <3>2
  <2> QED
    BY <2>1, <2>2 DEF Data
<1>6. SomeoneArrives'
  <2>1. ~Doomed(r)'
    BY <1>2 DEF Doomed, Transaction, Before
  <2>2. to # "serving"
    BY DEF Transaction
  <2> QED
    BY <1>2, <2>1, <2>2 DEF SomeoneArrives
<1>7. SomeoneRecords'
  BY <1>0 DEF SomeoneRecords, Control, PlaceFits
<1> QED
  BY <1>1, <1>3, <1>4, <1>5, <1>6, <1>7 DEF IInv, Control

(* A replica fails, in the transaction or before it: that is only allowed to *)
(* matter when another is on its way or a discovery was deleted.             *)
LEMMA ExitKeeps ==
    ASSUME IInv, NEW r \in Replicas, schema = 2 \/ disturbed,
           pc[r] \in Transaction \union {"tables"},
           pc' = [pc EXCEPT ![r] = "serving"], exit' = [exit EXCEPT ![r] = "error"],
           work' = NoTables, \A s \in Replicas : s # r => pc[s] \notin Transaction,
           UNCHANGED <<plan, made, schema, recorded, history, links, certificates, states,
                       legacy, crashes, disturbed>>
    PROVE  IInv'
<1>0. Types /\ Control /\ Data /\ SomeoneArrives /\ SomeoneRecords
  BY DEF IInv
<1>1. Types'
  BY <1>0 DEF Types, Places, NoTables
<1>2. pc'[r] = "serving" /\ exit'[r] = "error" /\ \A s \in Replicas : s # r =>
          pc'[s] = pc[s] /\ exit'[s] = exit[s] /\ pc'[s] \notin Transaction
  BY <1>0 DEF Types
<1>3. \A s \in Replicas : pc'[s] \notin Transaction
  BY <1>2 DEF Transaction
<1>4. OneInTransaction' /\ RecordsAreTrue'
  BY <1>0, <1>3 DEF Control, OneInTransaction, RecordsAreTrue
<1>5. ASSUME NEW s \in Replicas PROVE PlaceFits(s)'
  <2>1. CASE s = r
    BY <1>0, <1>2, <1>3, <2>1 DEF Control, PlaceFits, Transaction
  <2>2. CASE s # r
    BY <1>0, <1>2, <1>3, <2>2 DEF Control, PlaceFits
  <2> QED
    BY <2>1, <2>2
<1>6. Data'
  <2>1. Rows'
    BY <1>0 DEF Data, Rows, Live, LiveContents, Covers
  <2>2. ASSUME NEW s \in Replicas PROVE Stage(pc[s])'
    BY <1>3 DEF Stage, Transaction, Locked
  <2> QED
    BY <2>1, <2>2 DEF Data
<1>7. SomeoneArrives'
  BY DEF SomeoneArrives, NoneFailed
<1>8. SomeoneRecords'
  <2>1. \A s \in Replicas : pc[s] \in {"record", "end"} \/ exit[s] = "ok" => s # r
    BY <1>0 DEF Control, PlaceFits, Transaction
  <2> QED
    BY <1>0, <1>2, <2>1 DEF SomeoneRecords
<1> QED
  BY <1>1, <1>4, <1>5, <1>6, <1>7, <1>8 DEF IInv, Control

LEMMA CreateTablesKeeps == ASSUME IInv, NEW r \in Replicas, CreateTables(r) PROVE IInv'
<1>0. Types /\ Control /\ Data /\ SomeoneArrives /\ SomeoneRecords
  BY DEF IInv
<1>1. /\ pc[r] = "tables" /\ work' = NoTables
      /\ \A s \in Replicas : pc[s] \notin Transaction
      /\ UNCHANGED <<plan, made, schema, recorded, history, links, certificates, states,
                     legacy, crashes, disturbed>>
  BY DEF CreateTables, tables, SomeoneAt
<1>2. CASE schema = 2
  <2>1. pc' = [pc EXCEPT ![r] = "serving"] /\ exit' = [exit EXCEPT ![r] = "error"]
    BY <1>2 DEF CreateTables, Exit
  <2> QED
    BY <1>1, <1>2, <2>1, ExitKeeps
<1>3. CASE schema # 2
  <2>1. pc' = [pc EXCEPT ![r] = "seed"] /\ exit' = exit
    BY <1>3 DEF CreateTables, Goto
  <2>2. pc'[r] = "seed" /\ \A s \in Replicas : s # r => pc'[s] = pc[s] /\ pc[s] \notin Transaction
    BY <1>0, <1>1, <2>1 DEF Types
  <2>3. Types'
    BY <1>0, <1>1, <2>1 DEF Types, Places, Transaction, NoTables
  <2>4. OneInTransaction' /\ RecordsAreTrue'
    BY <1>0, <1>1, <2>2 DEF Control, OneInTransaction, RecordsAreTrue
  <2>5. ASSUME NEW s \in Replicas PROVE PlaceFits(s)'
    <3>1. CASE s = r
      BY <1>0, <1>1, <1>3, <2>1, <2>2, <3>1 DEF Types, Control, PlaceFits, Transaction
    <3>2. CASE s # r
      BY <1>0, <1>1, <2>1, <2>2, <3>2 DEF Control, PlaceFits
    <3> QED
      BY <3>1, <3>2
  <2>6. Data'
    <3>1. Rows'
      BY <1>0, <1>1 DEF Data, Rows, Live, LiveContents, Covers
    <3>2. ASSUME NEW s \in Replicas PROVE Stage(pc[s])'
      <4>1. CASE s = r
        BY <1>1, <2>2, <4>1 DEF Stage, Locked
      <4>2. CASE s # r
        BY <2>2, <4>2 DEF Stage, Transaction, Locked
      <4> QED
        BY <4>1, <4>2
    <3> QED
      BY <3>1, <3>2 DEF Data
  <2>7. SomeoneArrives'
    <3>1. ~Doomed(r)'
      BY <2>2 DEF Doomed, Before
    <3> QED
      BY <2>2, <3>1 DEF SomeoneArrives
  <2>8. SomeoneRecords'
    BY <1>1, <1>3 DEF SomeoneRecords
  <2> QED
    BY <2>3, <2>4, <2>5, <2>6, <2>7, <2>8 DEF IInv, Control
<1> QED
  BY <1>2, <1>3

-------------------------------------------------------------------------------
(* The rows of the start, and what the migration makes of them. *)
LEMMA LegacyRow ==
    ASSUME Types, Rows, NEW l \in legacy
    PROVE  /\ l \in Link /\ l.content \in Contents
           /\ Pointed(l) \in Link /\ Moved(l) \in Link
           /\ [l EXCEPT !.certificate = l.content] = Pointed(l)
           /\ [Pointed(l) EXCEPT !.content = NoValue] = Moved(l)
<1>1. l \in Link /\ l.content \in Contents
  BY DEF Types, Rows, Link
<1> QED
  BY <1>1 DEF Link, Pointed, Moved

(* What a replica in the transaction knows. *)
LEMMA InTransaction ==
    ASSUME IInv, NEW r \in Replicas, pc[r] \in Transaction
    PROVE  /\ Types /\ Rows /\ Stage(pc[r]) /\ schema = 1
           /\ links = legacy
           /\ \A s \in Replicas : s # r => pc[s] \notin Transaction
BY DEF IInv, Control, OneInTransaction, PlaceFits, Data, Rows

LEMMA SeedKeeps ==
    ASSUME IInv, NEW r \in Replicas, seed_certificate_cleanup_state(r) PROVE IInv'
<1>1. /\ pc[r] = "seed" /\ pc' = [pc EXCEPT ![r] = "addField"]
      /\ work' = [work EXCEPT !.states = @ + 1]
      /\ UNCHANGED <<plan, exit, made, schema, recorded, history, links, certificates, states,
                     legacy, crashes, disturbed>>
  BY DEF seed_certificate_cleanup_state, Step, Goto, tables
<1>2. "seed" \in Transaction /\ "addField" \in Transaction
  BY DEF Transaction
<1>3. work = NoTables
  BY <1>1, <1>2, InTransaction DEF Stage
<1>4. work' = [links |-> {}, certificates |-> {}, states |-> 1]
  BY <1>1, <1>3 DEF NoTables
<1>5. Stage("addField")'
  BY <1>4 DEF Stage, Locked, Transaction
<1>6. work' \in [links : SUBSET Link, certificates : SUBSET Contents, states : Nat]
  BY <1>4
<1> QED
  BY <1>1, <1>2, <1>5, <1>6, StepKeeps

LEMMA AddCertificateKeeps ==
    ASSUME IInv, NEW r \in Replicas, AddCertificate(r) PROVE IInv'
<1>1. /\ pc[r] = "addField" /\ pc' = [pc EXCEPT ![r] = "insert"]
      /\ work' = [work EXCEPT !.links = links]
      /\ UNCHANGED <<plan, exit, made, schema, recorded, history, links, certificates, states,
                     legacy, crashes, disturbed>>
  BY DEF AddCertificate, Step, Goto, tables
<1>2. "addField" \in Transaction /\ "insert" \in Transaction
  BY DEF Transaction
<1>3. Types /\ links = legacy /\ work.states = 1
  BY <1>1, <1>2, InTransaction DEF Stage
<1>4. /\ work' \in [links : SUBSET Link, certificates : SUBSET Contents, states : Nat]
      /\ work'.links = legacy /\ work'.states = 1
  BY <1>1, <1>3 DEF Types
<1>5. Stage("insert")'
  BY <1>1, <1>4 DEF Stage, Locked, Transaction
<1> QED
  BY <1>1, <1>2, <1>4, <1>5, StepKeeps

LEMMA InsertKeeps ==
    ASSUME IInv, NEW r \in Replicas, InsertCertificates(r) PROVE IInv'
<1>1. /\ pc[r] = "insert" /\ pc' = [pc EXCEPT ![r] = "point"]
      /\ work' = [work EXCEPT !.certificates =
                     {l.content : l \in {l \in work.links : l.discovery \in history}}]
      /\ UNCHANGED <<plan, exit, made, schema, recorded, history, links, certificates, states,
                     legacy, crashes, disturbed>>
  BY DEF InsertCertificates, Step, Goto, tables
<1>2. "insert" \in Transaction /\ "point" \in Transaction
  BY DEF Transaction
<1>3. Types /\ Rows /\ work.links = legacy /\ work.states = 1
  BY <1>1, <1>2, InTransaction DEF Stage
<1>4. work' = [work EXCEPT !.certificates = LiveContents]
  BY <1>1, <1>3 DEF Live, LiveContents
<1>5. LiveContents \subseteq Contents
  BY <1>3, LegacyRow DEF Live, LiveContents
<1>6. /\ work' \in [links : SUBSET Link, certificates : SUBSET Contents, states : Nat]
      /\ work'.links = legacy /\ work'.certificates = LiveContents /\ work'.states = 1
  BY <1>3, <1>4, <1>5 DEF Types
<1>7. LiveContents' = LiveContents
  BY <1>1 DEF Live, LiveContents
<1>8. Stage("point")'
  BY <1>1, <1>6, <1>7 DEF Stage, Locked, Transaction, Covers
<1> QED
  BY <1>1, <1>2, <1>6, <1>8, StepKeeps

LEMMA PointKeeps ==
    ASSUME IInv, NEW r \in Replicas, PointLinks(r) PROVE IInv'
<1> DEFINE Point(l) == IF l.content \in work.certificates
                       THEN [l EXCEPT !.certificate = l.content] ELSE l
<1>1. /\ pc[r] = "point" /\ pc' = [pc EXCEPT ![r] = "dropDangling"]
      /\ work' = [work EXCEPT !.links = {Point(l) : l \in work.links}]
      /\ UNCHANGED <<plan, exit, made, schema, recorded, history, links, certificates, states,
                     legacy, crashes, disturbed>>
  BY DEF PointLinks, Step, Goto, tables
<1>2. "point" \in Transaction /\ "dropDangling" \in Transaction
  BY DEF Transaction
<1>3. Types /\ Rows /\ work.links = legacy /\ work.states = 1 /\ Covers(work.certificates)
  BY <1>1, <1>2, InTransaction DEF Stage, Locked
<1>4. \A l \in legacy : Point(l) = IF l.content \in work.certificates THEN Pointed(l) ELSE l
  BY <1>3, LegacyRow
<1>5. {Point(l) : l \in work.links} \subseteq Link
  BY <1>3, <1>4, LegacyRow
<1>6. /\ work' \in [links : SUBSET Link, certificates : SUBSET Contents, states : Nat]
      /\ work'.links = {Point(l) : l \in legacy}
      /\ work'.certificates = work.certificates /\ work'.states = 1
  BY <1>1, <1>3, <1>5 DEF Types
<1>7. Live' = Live /\ LiveContents' = LiveContents /\ Live \subseteq legacy
  BY <1>1 DEF Live, LiveContents
<1>8. \A l \in Live : Pointed(l) \in work'.links
  BY <1>3, <1>4, <1>6, <1>7 DEF Covers, LiveContents
<1>9. \A k \in work'.links : IsPointed(k) \/ (k \in legacy /\ k.content \notin work'.certificates)
  BY <1>4, <1>6 DEF IsPointed
<1>10. Stage("dropDangling")'
  BY <1>1, <1>3, <1>6, <1>7, <1>8, <1>9 DEF Stage, Locked, Transaction, Covers, IsPointed
<1> QED
  BY <1>1, <1>2, <1>6, <1>10, StepKeeps

LEMMA DropDanglingKeeps ==
    ASSUME IInv, NEW r \in Replicas, DropDangling(r) PROVE IInv'
<1>1. /\ pc[r] = "dropDangling" /\ pc' = [pc EXCEPT ![r] = "notNull"]
      /\ work' = [work EXCEPT !.links = {l \in work.links : l.discovery \in history}]
      /\ UNCHANGED <<plan, exit, made, schema, recorded, history, links, certificates, states,
                     legacy, crashes, disturbed>>
  BY DEF DropDangling, Step, Goto, tables
<1>2. "dropDangling" \in Transaction /\ "notNull" \in Transaction
  BY DEF Transaction
<1>3. Types /\ Rows /\ Stage("dropDangling")
  BY <1>1, <1>2, InTransaction
<1>4. /\ work' \in [links : SUBSET Link, certificates : SUBSET Contents, states : Nat]
      /\ work'.links = {l \in work.links : l.discovery \in history}
      /\ work'.certificates = work.certificates /\ work'.states = 1
  BY <1>1, <1>3 DEF Types, Stage, Transaction
<1>5. Live' = Live /\ LiveContents' = LiveContents
  BY <1>1 DEF Live, LiveContents
<1>6. \A l \in Live : Pointed(l) \in work'.links
  <2>1. ASSUME NEW l \in Live PROVE Pointed(l) \in work.links /\ Pointed(l).discovery \in history
    BY <1>3 DEF Live, Pointed, Stage
  <2> QED
    BY <1>4, <2>1
<1>7. \A k \in work'.links : IsPointed(k) \/ (k \in legacy /\ k.content \notin work'.certificates)
  BY <1>3, <1>4 DEF Stage
<1>8. \A k \in work'.links : k.discovery \in history
  BY <1>4
<1>9. Covers(work.certificates)
  BY <1>3 DEF Stage, Locked, Transaction
<1>10. Stage("notNull")'
  BY <1>1, <1>4, <1>5, <1>6, <1>7, <1>8, <1>9 DEF Stage, Locked, Transaction, Covers, IsPointed, AllLive
<1> QED
  BY <1>1, <1>2, <1>4, <1>10, StepKeeps

(* Nothing the migration has done itself leaves a link without a certificate. *)
LEMMA NotNullKeeps ==
    ASSUME IInv, NEW r \in Replicas, SetNotNull(r) PROVE IInv'
<1>1. "notNull" \in Transaction /\ "dropContent" \in Transaction
  BY DEF Transaction
<1>2. pc[r] = "notNull"
  BY DEF SetNotNull, Step, Rollback
<1>3. /\ Types /\ Rows /\ Stage("notNull")
      /\ \A s \in Replicas : s # r => pc[s] \notin Transaction
  BY <1>1, <1>2, InTransaction
<1>4. CASE \A l \in work.links : l.certificate # NoValue
  <2>1. /\ pc' = [pc EXCEPT ![r] = "dropContent"] /\ work' = work
        /\ UNCHANGED <<plan, exit, made, schema, recorded, history, links, certificates, states,
                     legacy, crashes, disturbed>>
    BY <1>4 DEF SetNotNull, Step, Goto, tables
  <2>2. \A k \in work.links : IsPointed(k)
    BY <1>3, <1>4 DEF Stage, Rows
  <2>3. Live' = Live /\ LiveContents' = LiveContents
    BY <2>1 DEF Live, LiveContents
  <2>4. Stage("dropContent")'
    BY <1>3, <2>1, <2>2, <2>3 DEF Stage, Locked, Transaction, Covers, IsPointed, AllLive
  <2> QED
    BY <1>1, <1>2, <1>3, <2>1, <2>4, StepKeeps DEF Types
<1>5. CASE ~(\A l \in work.links : l.certificate # NoValue)
  <2>1. /\ pc' = [pc EXCEPT ![r] = "serving"] /\ exit' = [exit EXCEPT ![r] = "error"]
        /\ work' = NoTables
        /\ UNCHANGED <<plan, made, schema, recorded, history, links, certificates, states,
                       legacy, crashes, disturbed>>
    BY <1>5 DEF SetNotNull, Rollback, Exit, tables
  <2>2. PICK k \in work.links : k.certificate = NoValue
    BY <1>5
  <2>3. ~IsPointed(k)
    <3>1. ASSUME NEW l \in legacy, k = Pointed(l) PROVE FALSE
      <4>1. k.certificate = l.content
        BY <3>1 DEF Pointed
      <4> QED
        BY <1>3, <2>2, <4>1 DEF Rows
    <3> QED
      BY <3>1 DEF IsPointed
  <2>4. k \in legacy /\ k.content \notin work.certificates
    BY <1>3, <2>3 DEF Stage
  <2>5. ~disturbed => k.discovery \in history
    BY <1>3 DEF Stage, AllLive
  <2>6. ~disturbed => k.content \in work.certificates
    BY <1>3, <2>4, <2>5 DEF Stage, Locked, Transaction, Covers, LiveContents, Live
  <2>7. disturbed
    BY <2>4, <2>6
  <2> QED
    BY <1>1, <1>2, <1>3, <2>1, <2>7, ExitKeeps
<1> QED
  BY <1>4, <1>5

LEMMA DropContentKeeps ==
    ASSUME IInv, NEW r \in Replicas, DropContent(r) PROVE IInv'
<1>1. /\ pc[r] = "dropContent" /\ pc' = [pc EXCEPT ![r] = "foreignKey"]
      /\ work' = [work EXCEPT !.links = {[l EXCEPT !.content = NoValue] : l \in work.links}]
      /\ UNCHANGED <<plan, exit, made, schema, recorded, history, links, certificates, states,
                     legacy, crashes, disturbed>>
  BY DEF DropContent, Step, Goto, tables
<1>2. "dropContent" \in Transaction /\ "foreignKey" \in Transaction
  BY DEF Transaction
<1>3. Types /\ Rows /\ Stage("dropContent")
  BY <1>1, <1>2, InTransaction
<1>4. \A k \in work.links : \E l \in legacy :
          k = Pointed(l) /\ [k EXCEPT !.content = NoValue] = Moved(l) /\ Moved(l) \in Link
  BY <1>3, LegacyRow DEF Stage, IsPointed
<1>5. {[l EXCEPT !.content = NoValue] : l \in work.links} \subseteq Link
  BY <1>4
<1>6. /\ work' \in [links : SUBSET Link, certificates : SUBSET Contents, states : Nat]
      /\ work'.links = {[l EXCEPT !.content = NoValue] : l \in work.links}
      /\ work'.certificates = work.certificates /\ work'.states = 1
  BY <1>1, <1>3, <1>5 DEF Types, Stage, Transaction
<1>7. Live' = Live /\ LiveContents' = LiveContents /\ Live \subseteq legacy
  BY <1>1 DEF Live, LiveContents
<1>8. \A l \in Live : Moved(l) \in work'.links
  <2>1. ASSUME NEW l \in Live PROVE Moved(l) \in work'.links
    <3>1. Pointed(l) \in work.links /\ [Pointed(l) EXCEPT !.content = NoValue] = Moved(l)
      BY <1>3, <1>7, LegacyRow DEF Stage
    <3> QED
      BY <1>6, <3>1
  <2> QED
    BY <2>1
<1>9. \A k \in work'.links : \E l \in legacy : k = Moved(l)
  BY <1>4, <1>6
<1>10. AllLive'
  <2>1. ASSUME ~disturbed, NEW k \in work'.links PROVE k.discovery \in history
    <3>1. PICK j \in work.links : k = [j EXCEPT !.content = NoValue]
      BY <1>6
    <3>2. PICK l \in legacy : j = Pointed(l) /\ k = Moved(l)
      BY <1>4, <3>1
    <3>3. j.discovery \in history
      BY <1>3, <2>1 DEF Stage, AllLive
    <3> QED
      BY <3>2, <3>3 DEF Pointed, Moved
  <2> QED
    BY <1>1, <2>1 DEF AllLive
<1>11. Covers(work.certificates)
  BY <1>3 DEF Stage, Locked, Transaction
<1>12. Stage("foreignKey")'
  BY <1>1, <1>6, <1>7, <1>8, <1>9, <1>10, <1>11 DEF Stage, Locked, Transaction, Covers
<1> QED
  BY <1>1, <1>2, <1>6, <1>12, StepKeeps

(* Nor does it leave a link whose discovery is gone. *)
LEMMA ForeignKeyKeeps ==
    ASSUME IInv, NEW r \in Replicas, AddForeignKey(r) PROVE IInv'
<1>1. "foreignKey" \in Transaction /\ "commit" \in Transaction
  BY DEF Transaction
<1>2. pc[r] = "foreignKey"
  BY DEF AddForeignKey, Step, Rollback
<1>3. /\ Types /\ Rows /\ Stage("foreignKey")
      /\ \A s \in Replicas : s # r => pc[s] \notin Transaction
  BY <1>1, <1>2, InTransaction
<1>4. CASE \A l \in work.links : l.discovery \in history
  <2>1. /\ pc' = [pc EXCEPT ![r] = "commit"] /\ work' = work
        /\ UNCHANGED <<plan, exit, made, schema, recorded, history, links, certificates, states,
                     legacy, crashes, disturbed>>
    BY <1>4 DEF AddForeignKey, Step, Goto, tables
  <2>2. work.links = {Moved(l) : l \in Live}
    <3>1. ASSUME NEW k \in work.links PROVE \E l \in Live : k = Moved(l)
      <4>1. PICK l \in legacy : k = Moved(l)
        BY <1>3 DEF Stage
      <4>2. l.discovery \in history
        BY <1>4, <4>1 DEF Moved
      <4> QED
        BY <4>1, <4>2 DEF Live
    <3>2. \A l \in Live : Moved(l) \in work.links
      BY <1>3 DEF Stage
    <3> QED
      BY <3>1, <3>2
  <2>3. Live' = Live /\ LiveContents' = LiveContents
    BY <2>1 DEF Live, LiveContents
  <2>4. work.states = 1 /\ Covers(work.certificates)
    BY <1>3 DEF Stage, Locked, Transaction
  <2>5. Stage("commit")'
    BY <2>1, <2>2, <2>3, <2>4 DEF Stage, Locked, Transaction, Covers
  <2> QED
    BY <1>1, <1>2, <1>3, <2>1, <2>5, StepKeeps DEF Types
<1>5. CASE ~(\A l \in work.links : l.discovery \in history)
  <2>1. /\ pc' = [pc EXCEPT ![r] = "serving"] /\ exit' = [exit EXCEPT ![r] = "error"]
        /\ work' = NoTables
        /\ UNCHANGED <<plan, made, schema, recorded, history, links, certificates, states,
                       legacy, crashes, disturbed>>
    BY <1>5 DEF AddForeignKey, Rollback, Exit, tables
  <2>2. disturbed
    BY <1>3, <1>5 DEF Stage, AllLive
  <2> QED
    BY <1>1, <1>2, <1>3, <2>1, <2>2, ExitKeeps
<1> QED
  BY <1>4, <1>5

LEMMA CommitKeeps ==
    ASSUME IInv, NEW r \in Replicas, CommitMigration(r) PROVE IInv'
<1>0. Types /\ Control /\ Data /\ SomeoneArrives /\ SomeoneRecords
  BY DEF IInv
<1>1. /\ pc[r] = "commit" /\ pc' = [pc EXCEPT ![r] = "record"] /\ schema' = 2
      /\ links' = work.links /\ certificates' = work.certificates /\ states' = work.states
      /\ work' = NoTables
      /\ UNCHANGED <<plan, exit, made, recorded, history, legacy, crashes, disturbed>>
  BY DEF CommitMigration, Goto
<1>2. "commit" \in Transaction
  BY DEF Transaction
<1>3. /\ Rows /\ Stage("commit") /\ schema = 1
      /\ \A s \in Replicas : s # r => pc[s] \notin Transaction
  BY <1>1, <1>2, InTransaction
<1>4. pc'[r] = "record" /\ \A s \in Replicas : s # r => pc'[s] = pc[s]
  BY <1>0, <1>1 DEF Types
<1>5. \A s \in Replicas : pc'[s] \notin Transaction
  BY <1>3, <1>4 DEF Transaction
<1>6. Types'
  BY <1>0, <1>1 DEF Types, Places, NoTables
<1>7. OneInTransaction' /\ RecordsAreTrue'
  BY <1>0, <1>1, <1>3, <1>5 DEF Control, OneInTransaction, RecordsAreTrue
<1>8. ASSUME NEW s \in Replicas PROVE PlaceFits(s)'
  <2>1. CASE s = r
    BY <1>0, <1>1, <1>4, <1>5, <2>1 DEF Control, PlaceFits
  <2>2. CASE s # r
    BY <1>0, <1>1, <1>3, <1>4, <1>5, <2>2 DEF Control, PlaceFits
  <2> QED
    BY <2>1, <2>2
<1>9. Data'
  <2>1. Live' = Live /\ LiveContents' = LiveContents
    BY <1>1 DEF Live, LiveContents
  <2>2. links' = {Moved(l) : l \in Live} /\ states' = 1
    BY <1>1, <1>3 DEF Stage, Transaction
  <2>3. Covers(certificates)'
    BY <1>1, <1>3, <2>1 DEF Stage, Locked, Transaction, Covers
  <2>4. Rows'
    BY <1>1, <1>3, <2>1, <2>2, <2>3 DEF Rows
  <2>5. ASSUME NEW s \in Replicas PROVE Stage(pc[s])'
    BY <1>5 DEF Stage, Transaction, Locked
  <2> QED
    BY <2>4, <2>5 DEF Data
<1>10. SomeoneArrives' /\ SomeoneRecords'
  BY <1>1, <1>4 DEF SomeoneArrives, SomeoneRecords
<1> QED
  BY <1>6, <1>7, <1>8, <1>9, <1>10 DEF IInv, Control

LEMMA RecordKeeps ==
    ASSUME IInv, NEW r \in Replicas, Record(r) PROVE IInv'
<1>0. Types /\ Control /\ Data /\ SomeoneArrives /\ SomeoneRecords
  BY DEF IInv
<1>1. /\ pc[r] = "record" /\ pc' = [pc EXCEPT ![r] = "end"]
      /\ recorded' = recorded \union {2}
      /\ UNCHANGED <<plan, exit, made, schema, history, links, certificates, states, work,
                     legacy, crashes, disturbed>>
  BY DEF Record, Goto, tables
<1>2. schema = 2
  BY <1>0, <1>1 DEF Control, PlaceFits
<1>3. pc'[r] = "end" /\ \A s \in Replicas : s # r =>
          pc'[s] = pc[s] /\ plan'[s] = plan[s] /\ exit'[s] = exit[s]
  BY <1>0, <1>1 DEF Types
<1>4. Types'
  BY <1>0, <1>1 DEF Types, Places
<1>5. Control' /\ Data'
  <2>1. RecordsAreTrue'
    BY <1>0, <1>1, <1>2 DEF Control, RecordsAreTrue
  <2>2. /\ schema' = schema \/ (schema = 0 /\ schema' = 1)
        /\ made' \subseteq Objects /\ made \subseteq made' /\ recorded \subseteq recorded'
        /\ pc'[r] \notin Transaction
    BY <1>0, <1>1, <1>3 DEF Types, Transaction
  <2>3. OneInTransaction' /\ (\A s \in Replicas : s # r => PlaceFits(s)') /\ Data'
    BY <1>0, <1>1, <1>3, <2>2, MoveKeeps
  <2>4. PlaceFits(r)'
    BY <1>0, <1>1, <1>2, <1>3, <2>2 DEF Types, Control, PlaceFits
  <2> QED
    BY <2>1, <2>3, <2>4 DEF Control
<1>6. SomeoneArrives'
  BY <1>1, <1>2 DEF SomeoneArrives
<1>7. SomeoneRecords'
  BY <1>1, <1>3 DEF SomeoneRecords
<1> QED
  BY <1>4, <1>5, <1>6, <1>7 DEF IInv

LEMMA FinishKeeps ==
    ASSUME IInv, NEW r \in Replicas, Finish(r) PROVE IInv'
<1>0. Types /\ Control /\ Data /\ SomeoneArrives /\ SomeoneRecords
  BY DEF IInv
<1>1. /\ pc[r] = "end" /\ pc' = [pc EXCEPT ![r] = "serving"] /\ exit' = [exit EXCEPT ![r] = "ok"]
      /\ UNCHANGED <<plan, made, schema, recorded, history, links, certificates, states, work,
                     legacy, crashes, disturbed>>
  BY DEF Finish, Exit, tables
<1>2. 2 \in recorded /\ schema = 2
  BY <1>0, <1>1 DEF Control, PlaceFits, RecordsAreTrue
<1>3. pc'[r] = "serving" /\ exit'[r] = "ok" /\ \A s \in Replicas : s # r =>
          pc'[s] = pc[s] /\ plan'[s] = plan[s] /\ exit'[s] = exit[s]
  BY <1>0, <1>1 DEF Types
<1>4. Types'
  BY <1>0, <1>1 DEF Types, Places
<1>5. Control' /\ Data'
  <2>1. RecordsAreTrue'
    BY <1>0, <1>1 DEF Control, RecordsAreTrue
  <2>2. /\ schema' = schema \/ (schema = 0 /\ schema' = 1)
        /\ made' \subseteq Objects /\ made \subseteq made' /\ recorded \subseteq recorded'
        /\ pc'[r] \notin Transaction
    BY <1>0, <1>1, <1>3 DEF Types, Transaction
  <2>3. OneInTransaction' /\ (\A s \in Replicas : s # r => PlaceFits(s)') /\ Data'
    BY <1>0, <1>1, <1>3, <2>2, MoveKeeps
  <2>4. PlaceFits(r)'
    BY <1>0, <1>1, <1>2, <1>3, <2>2 DEF Types, Control, PlaceFits
  <2> QED
    BY <2>1, <2>3, <2>4 DEF Control
<1>6. SomeoneArrives'
  BY <1>1, <1>2 DEF SomeoneArrives
<1>7. SomeoneRecords'
  BY <1>1, <1>2, <1>3 DEF SomeoneRecords
<1> QED
  BY <1>4, <1>5, <1>6, <1>7 DEF IInv

(* A replica that ends in the transaction leaves nothing of it. *)
LEMMA EndKeeps ==
    ASSUME IInv, NEW r \in Replicas, pc'[r] \notin Transaction,
           \A s \in Replicas : s # r => pc'[s] = pc[s],
           work' = (IF pc[r] \in Transaction THEN NoTables ELSE work),
           UNCHANGED <<schema, links, certificates, states, history, legacy, disturbed>>
    PROVE  OneInTransaction' /\ Data'
<1>0. Types /\ Control /\ Data
  BY DEF IInv
<1>1. OneInTransaction'
  BY <1>0 DEF Control, OneInTransaction
<1>2. Live' = Live /\ LiveContents' = LiveContents
  BY DEF Live, LiveContents
<1>3. Rows'
  BY <1>0, <1>2 DEF Data, Rows, Covers
<1>4. ASSUME NEW s \in Replicas PROVE Stage(pc[s])'
  <2>1. CASE pc'[s] \notin Transaction
    BY <2>1 DEF Stage, Transaction, Locked
  <2>2. CASE pc'[s] \in Transaction
    <3>1. pc'[s] = pc[s] /\ pc[r] \notin Transaction
      BY <1>0, <2>2 DEF Control, OneInTransaction
    <3>2. Stage(pc[s])
      BY <1>0 DEF Data
    <3> QED
      BY <1>2, <3>1, <3>2 DEF Stage, Covers, AllLive, IsPointed
  <2> QED
    BY <2>1, <2>2
<1> QED
  BY <1>1, <1>3, <1>4 DEF Data

(* A replica that an error of the database ends. *)
LEMMA FailsKeeps ==
    ASSUME IInv, NEW r \in Replicas, Fails(r) PROVE IInv'
<1>0. Types /\ Control /\ Data /\ SomeoneArrives /\ SomeoneRecords
  BY DEF IInv
<1>1. /\ pc' = [pc EXCEPT ![r] = "serving"] /\ exit' = [exit EXCEPT ![r] = "failed"]
      /\ crashes' = crashes + 1
      /\ work' = IF pc[r] \in Transaction THEN NoTables ELSE work
      /\ UNCHANGED <<plan, made, schema, recorded, history, links, certificates, states,
                     legacy, disturbed>>
  BY DEF Fails, Exit, tables
<1>2. pc'[r] = "serving" /\ exit'[r] = "failed" /\ \A s \in Replicas : s # r =>
          pc'[s] = pc[s] /\ exit'[s] = exit[s]
  BY <1>0, <1>1 DEF Types
<1>3. Types'
  BY <1>0, <1>1 DEF Types, Places, NoTables
<1>4. RecordsAreTrue'
  BY <1>0, <1>1 DEF Control, RecordsAreTrue
<1>5. OneInTransaction' /\ Data'
  <2>1. pc'[r] \notin Transaction
    BY <1>2 DEF Transaction
  <2> QED
    BY <1>1, <1>2, <2>1, EndKeeps
<1>6. ASSUME NEW s \in Replicas PROVE PlaceFits(s)'
  <2>1. CASE s = r
    BY <1>0, <1>1, <1>2, <2>1 DEF Control, PlaceFits, Transaction
  <2>2. CASE s # r
    BY <1>0, <1>1, <1>2, <2>2 DEF Control, PlaceFits
  <2> QED
    BY <2>1, <2>2
<1>7. SomeoneArrives'
  BY <1>2 DEF SomeoneArrives, NoneFailed
<1>8. SomeoneRecords'
  BY <1>0, <1>1 DEF Types, SomeoneRecords
<1> QED
  BY <1>3, <1>4, <1>5, <1>6, <1>7, <1>8 DEF IInv, Control

(* A replica that is killed and started again. *)
LEMMA RestartKeeps ==
    ASSUME IInv, NEW r \in Replicas, Restart(r) PROVE IInv'
<1>0. Types /\ Control /\ Data /\ SomeoneArrives /\ SomeoneRecords
  BY DEF IInv
<1>1. /\ pc[r] # "serving" /\ pc' = [pc EXCEPT ![r] = "start"] /\ crashes' = crashes + 1
      /\ work' = IF pc[r] \in Transaction THEN NoTables ELSE work
      /\ UNCHANGED <<plan, exit, made, schema, recorded, history, links, certificates, states,
                     legacy, disturbed>>
  BY DEF Restart, Goto, tables
<1>2. pc'[r] = "start" /\ \A s \in Replicas : s # r => pc'[s] = pc[s]
  BY <1>0, <1>1 DEF Types
<1>3. Types'
  BY <1>0, <1>1 DEF Types, Places, NoTables
<1>4. RecordsAreTrue'
  BY <1>0, <1>1 DEF Control, RecordsAreTrue
<1>5. OneInTransaction' /\ Data'
  <2>1. pc'[r] \notin Transaction
    BY <1>2 DEF Transaction
  <2> QED
    BY <1>1, <1>2, <2>1, EndKeeps
<1>6. ASSUME NEW s \in Replicas PROVE PlaceFits(s)'
  <2>1. CASE s = r
    BY <1>0, <1>1, <1>2, <2>1 DEF Control, PlaceFits, Transaction
  <2>2. CASE s # r
    BY <1>0, <1>1, <1>2, <2>2 DEF Control, PlaceFits
  <2> QED
    BY <2>1, <2>2
<1>7. SomeoneArrives'
  <2>1. ~Doomed(r)'
    BY <1>2 DEF Doomed, Before
  <2> QED
    BY <1>2, <2>1 DEF SomeoneArrives
<1>8. SomeoneRecords'
  BY <1>0, <1>1 DEF Types, SomeoneRecords
<1> QED
  BY <1>3, <1>4, <1>5, <1>6, <1>7, <1>8 DEF IInv, Control

(* A discovery that is deleted under the backfill is remembered as that. *)
LEMMA OldDeleteKeeps == ASSUME IInv, OldDelete PROVE IInv'
<1>0. Types /\ Control /\ Data /\ SomeoneArrives /\ SomeoneRecords
  BY DEF IInv
<1>1. /\ schema = 1 /\ \A s \in Replicas : pc[s] # "commit"
      /\ history' \subseteq history
      /\ disturbed' = (disturbed \/ SomeoneAt(Locked))
      /\ UNCHANGED <<pc, plan, exit, made, schema, recorded, links, certificates, states, work,
                     legacy, crashes>>
  BY DEF OldDelete, tables, SomeoneAt
<1>2. Types'
  BY <1>0, <1>1 DEF Types, SomeoneAt
<1>3. Control'
  BY <1>0, <1>1 DEF Control, OneInTransaction, RecordsAreTrue, PlaceFits
<1>4. Data'
  <2>1. Live' \subseteq Live /\ LiveContents' \subseteq LiveContents
    BY <1>1 DEF Live, LiveContents
  <2>2. Rows'
    BY <1>0, <1>1 DEF Data, Rows
  <2>3. ASSUME NEW s \in Replicas PROVE Stage(pc[s])'
    <3>1. Stage(pc[s])
      BY <1>0 DEF Data
    <3>2. CASE pc[s] \notin Locked
      BY <1>1, <3>1, <3>2 DEF Stage, Transaction, Locked
    <3>3. CASE pc[s] \in Locked
      <4>1. disturbed' /\ pc'[s] # "commit"
        BY <1>1, <3>3 DEF SomeoneAt
      <4> QED
        BY <1>1, <2>1, <3>1, <4>1 DEF Stage, Covers, AllLive, IsPointed
    <3> QED
      BY <3>2, <3>3
  <2> QED
    BY <2>2, <2>3 DEF Data
<1>5. SomeoneArrives' /\ SomeoneRecords'
  BY <1>0, <1>1 DEF SomeoneArrives, SomeoneRecords, NoneFailed, Doomed, Types
<1> QED
  BY <1>2, <1>3, <1>4, <1>5 DEF IInv

-------------------------------------------------------------------------------
(* Every step keeps the invariant. *)
LEMMA NextIInv == IInv /\ [Next]_vars => IInv'
<1> SUFFICES ASSUME IInv, [Next]_vars PROVE IInv'
  OBVIOUS
<1>1. ASSUME NEW r \in Replicas, NEW object \in Objects, Check(r, object) \/ Make(r, object)
      PROVE  IInv'
  BY <1>1, CheckKeeps, MakeKeeps
<1>2. ASSUME NEW r \in Replicas,
             \/ Plan(r) \/ Initial(r) \/ CreateTables(r) \/ seed_certificate_cleanup_state(r)
             \/ AddCertificate(r) \/ InsertCertificates(r) \/ PointLinks(r) \/ DropDangling(r)
      PROVE  IInv'
  BY <1>2, PlanKeeps, InitialKeeps, CreateTablesKeeps, SeedKeeps, AddCertificateKeeps,
     InsertKeeps, PointKeeps, DropDanglingKeeps
<1>3. ASSUME NEW r \in Replicas,
             \/ SetNotNull(r) \/ DropContent(r) \/ AddForeignKey(r) \/ CommitMigration(r)
             \/ Record(r) \/ Finish(r) \/ Fails(r) \/ Restart(r)
      PROVE  IInv'
  BY <1>3, NotNullKeeps, DropContentKeeps, ForeignKeyKeeps, CommitKeeps, RecordKeeps,
     FinishKeeps, FailsKeeps, RestartKeeps
<1>4. CASE OldDelete
  BY <1>4, OldDeleteKeeps
<1>5. CASE UNCHANGED vars
  BY <1>5 DEF IInv, Types, Control, OneInTransaction, RecordsAreTrue, PlaceFits, Data, Rows,
     Stage, Covers, Live, LiveContents, AllLive, IsPointed, SomeoneArrives, NoneFailed,
     SomeoneRecords, Doomed, vars, tables
<1> QED
  BY <1>1, <1>2, <1>3, <1>4, <1>5 DEF Next, Objects

(* Every behaviour of the replicas satisfies the inductive invariant. *)
THEOREM Invariant == Spec => []IInv
BY InitIInv, NextIInv, PTL DEF Spec

-------------------------------------------------------------------------------
(* Every variable has its type, and one replica at most is in migration 0002. *)
THEOREM TypeCorrect == Spec => []TypeOK
<1>1. IInv => TypeOK
  <2> SUFFICES ASSUME IInv PROVE TypeOK
    OBVIOUS
  <2> DEFINE Busy == {r \in Replicas : pc[r] \in Transaction}
  <2>1. Cardinality(Busy) <= 1
    <3>1. CASE Busy = {}
      BY <3>1, FS_EmptySet
    <3>2. ASSUME NEW r \in Busy PROVE Cardinality(Busy) <= 1
      <4>1. Busy = {r}
        BY DEF IInv, Control, OneInTransaction
      <4>2. Cardinality({r}) = 1
        BY FS_Singleton
      <4> QED
        BY <4>1, <4>2
    <3> QED
      BY <3>1, <3>2
  <2>2. schema = 2 => ~SomeoneAt(Transaction)
    BY DEF IInv, Control, PlaceFits, SomeoneAt
  <2>3. recorded \subseteq 1..2 /\ made \subseteq {"schema", "django_migrations"}
    BY DEF IInv, Types, Objects
  <2> QED
    BY <2>1, <2>2, <2>3 DEF IInv, Types, TypeOK
<1> QED
  BY <1>1, Invariant, PTL

(* The upgrade loses no link whose discovery exists, keeps no other, and     *)
(* leaves every link with its certificate; until it is done, also when it    *)
(* failed, the links are as they were.                                       *)
THEOREM UpgradeKeepsLinks == Spec => []NothingLost
<1>1. IInv => NothingLost
  <2> SUFFICES ASSUME IInv, schema = 2 PROVE NothingLost
    BY DEF NothingLost, IInv, Types, Data, Rows
  <2>1. links = {Moved(l) : l \in Live} /\ Covers(certificates) /\ states = 1
    BY DEF IInv, Data, Rows
  <2>2. {<<l.id, l.discovery, l.certificate>> : l \in links} =
        {<<l.id, l.discovery, l.content>> : l \in {l \in legacy : l.discovery \in history}}
    <3>1. ASSUME NEW k \in links
          PROVE  \E l \in Live : <<k.id, k.discovery, k.certificate>> = <<l.id, l.discovery, l.content>>
      BY <2>1 DEF Moved
    <3>2. ASSUME NEW l \in Live
          PROVE  \E k \in links : <<k.id, k.discovery, k.certificate>> = <<l.id, l.discovery, l.content>>
      <4>1. Moved(l) \in links
        BY <2>1
      <4> QED
        BY <4>1 DEF Moved
    <3> QED
      BY <3>1, <3>2 DEF Live
  <2>3. {l.certificate : l \in links} = LiveContents
    <3>1. ASSUME NEW k \in links PROVE k.certificate \in LiveContents
      BY <2>1 DEF Moved, LiveContents
    <3>2. ASSUME NEW l \in Live PROVE \E k \in links : k.certificate = l.content
      <4>1. Moved(l) \in links
        BY <2>1
      <4> QED
        BY <4>1 DEF Moved
    <3> QED
      BY <3>1, <3>2 DEF LiveContents
  <2>4. \A l \in links : l.content = NoValue
    BY <2>1 DEF Moved
  <2> QED
    BY <2>1, <2>2, <2>3, <2>4 DEF NothingLost, Covers
<1> QED
  BY <1>1, Invariant, PTL

(* However many replicas start together and are killed, one brings the       *)
(* database to the new schema, unless the database fails one of them or a    *)
(* discovery is deleted under the backfill; and success is reported for      *)
(* nothing less.                                                             *)
THEOREM SomeoneSucceeds == Spec => []OneSucceeds
<1>1. IInv => OneSucceeds
  <2> SUFFICES ASSUME IInv PROVE OneSucceeds
    OBVIOUS
  <2>1. schema = 2 /\ 2 \in recorded => recorded = {1, 2}
    <3>1. recorded \subseteq {1, 2} /\ (schema = 2 => 1 \in recorded)
      BY DEF IInv, Types, Control, RecordsAreTrue
    <3> QED
      BY <3>1
  <2>2. ASSUME \A r \in Replicas : pc[r] = "serving" /\ exit[r] # "failed", ~disturbed
        PROVE  schema = 2
    BY <2>2 DEF IInv, Types, SomeoneArrives, NoneFailed
  <2>3. ASSUME \A r \in Replicas : pc[r] = "serving", schema = 2, crashes = 0
        PROVE  recorded = {1, 2} /\ \E r \in Replicas : exit[r] = "ok"
    BY <2>1, <2>3 DEF IInv, SomeoneRecords
  <2>4. \A r \in Replicas : exit[r] = "ok" => schema = 2 /\ recorded = {1, 2}
    BY <2>1 DEF IInv, Control, PlaceFits, RecordsAreTrue
  <2> QED
    BY <2>2, <2>3, <2>4 DEF OneSucceeds
<1> QED
  BY <1>1, Invariant, PTL
===============================================================================
