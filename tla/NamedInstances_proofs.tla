------------------------ MODULE NamedInstances_proofs ------------------------
(***************************************************************************)
(* Any number of requests on any names: the invariant that NamedInstances  *)
(* keeps, and what follows from it.                                        *)
(***************************************************************************)
EXTENDS NamedInstances, Counting_proofs

Kinds == {"none", "create", "discover", "update", "delete"}
Answers == {"none", "200", "204", "400", "404", "500"}
Holding == {"update", "verify", "save", "insert", "delete"}
Places == Holding \union {"idle", "begun", "insertDiscovery", "done"}

Types ==
    /\ op \in [Requests -> [kind : Kinds, name : Names \union {NoValue}, id : Ids \union {NoValue}]]
    /\ pc \in [Requests -> Places]
    /\ answer \in [Requests -> Answers]
    /\ before \in [Requests -> SUBSET Requests]
    /\ instance = [r \in Requests |-> instance[r]]
    /\ revived \subseteq Ids

Row(row) ==
    /\ row = [id |-> row.id, name |-> row.name, attributes |-> row.attributes,
              columns |-> row.columns]
    /\ row.id \in Ids /\ row.name \in Names /\ DOMAIN row.columns = Columns

(* An id is that of a row once its creator was answered for it. *)
Known(id) == id = Existing \/ (id \in Requests /\ op[id].kind = "create" /\ answer[id] = "200")
NameOf(id) == IF id = Existing THEN CHOOSE n \in Names : TRUE ELSE op[id].name

-------------------------------------------------------------------------------
(* Where a request is, and the object it holds. *)
Place(r) ==
    /\ answer[r] # "none" => pc[r] = "done"
    /\ pc[r] \in {"update", "verify", "save"} => op[r].kind \in {"create", "update"}
    /\ pc[r] = "insert" => op[r].kind = "update"
    /\ pc[r] = "delete" => op[r].kind = "delete"
    /\ pc[r] = "insertDiscovery" => op[r].kind = "discover" /\ op[r].name \in Names
    /\ pc[r] = "begun" /\ op[r].kind \in {"create", "discover"} => op[r].name \in Names
    /\ \A s \in before[r] : answer[s] # "none"
    /\ op[r].kind \in {"update", "delete"} /\ answer[r] \in {"200", "204"} => Known(op[r].id)

Holds(r, row) ==
    /\ Row(row)
    /\ op[r].kind = "create" => row.id = r /\ row.name = op[r].name
    /\ op[r].kind # "create" => row.id = op[r].id /\ Known(row.id) /\ row.name = NameOf(row.id)
    /\ pc[r] \in {"verify", "save", "insert"} => row.columns = ColumnsOf(row.attributes)
    /\ pc[r] \in {"save", "insert"} => row.columns \in verified

Object(r) ==
    /\ instance[r] # {} <=> pc[r] \in Holding
    /\ \A a, b \in instance[r] : a = b
    /\ \A row \in instance[r] : Holds(r, row)

(* What is committed. *)
Committed ==
    /\ \A a, b \in authorities : a.id = b.id => a = b
    /\ \A row \in authorities :
           /\ Row(row) /\ Known(row.id) /\ row.name = NameOf(row.id)
           /\ row.columns \in verified /\ row.columns = ColumnsOf(row.attributes)
    /\ \A d, e \in discoveries : d.id = e.id => d = e
    /\ \A d \in discoveries :
           d.id \in Requests /\ d.name \in Names /\ d.name = op[d.id].name /\ answer[d.id] = "200"

-------------------------------------------------------------------------------
(* A deleted row that is there, or in the hands of an update that came in    *)
(* after the DELETE, was brought back by another.                            *)
Returned(r, id) == \E s \in Requests : Wrote(s, "update", id) /\ Overlapped(r, s)

Deletions(s) ==
    op[s].kind = "update" => \A row \in instance[s], r \in before[s] :
        Wrote(r, "delete", row.id) => Returned(r, row.id)

(* A request that has found its name to be free came in before the row was   *)
(* committed, or the row has come back.                                      *)
FreeName(s) ==
    /\ op[s].kind = "create" /\ instance[s] # {} =>
           \A a \in authorities : a.name = op[s].name => a.id \in revived \/ ~Precedes(a.id, s)
    /\ pc[s] = "insertDiscovery" =>
           \A d \in discoveries : d.name = op[s].name => ~Precedes(d.id, s)

Request(r) == Place(r) /\ Object(r) /\ Deletions(r) /\ FreeName(r)

IInv ==
    /\ Types /\ Committed /\ DeletedStaysAway /\ NamesAreTaken
    /\ \A r \in Requests : Request(r)

-------------------------------------------------------------------------------
(* update_authority_instance keeps the row's identity, and its columns are   *)
(* those of its attributes.                                                  *)
LEMMA FilledRow ==
    ASSUME NEW row, Row(row), NEW r, NEW gap
    PROVE  /\ Row(Filled(row, r, gap))
           /\ Filled(row, r, gap).id = row.id /\ Filled(row, r, gap).name = row.name
           /\ Filled(row, r, gap).columns = ColumnsOf(Filled(row, r, gap).attributes)
<1> DEFINE merged == merge_attributes(RequestAttributes(r, gap), get_all_authority_attributes_list)
<1>1. Filled(row, r, gap) = [row EXCEPT !.attributes = merged, !.columns = ColumnsOf(merged)]
  BY DEF Filled
<1> HIDE DEF merged
<1>2. Filled(row, r, gap) = [id |-> row.id, name |-> row.name, attributes |-> merged,
                             columns |-> ColumnsOf(merged)]
  BY <1>1 DEF Row
<1>3. DOMAIN ColumnsOf(merged) = Columns
  BY DEF ColumnsOf
<1> QED
  BY <1>2, <1>3 DEF Row

LEMMA InitIInv == Init => IInv
<1> SUFFICES ASSUME Init PROVE IInv
  OBVIOUS
<1> DEFINE n == CHOOSE n \in Names : TRUE
<1>1. n \in Names
  BY InstancesAssumption
<1>2. Row(NewRow(Existing, n))
  BY <1>1 DEF Row, NewRow, Ids
<1>3. ASSUME NEW row \in authorities
      PROVE  /\ row = Filled(NewRow(Existing, n), Existing, {})
             /\ Row(row) /\ row.id = Existing /\ row.name = n
             /\ row.columns = ColumnsOf(row.attributes)
  <2>1. row = Filled(NewRow(Existing, n), Existing, {})
    BY DEF Init
  <2> HIDE DEF n
  <2> QED
    BY <1>2, <2>1, FilledRow DEF NewRow
<1>4. Types
  BY DEF Init, Types, Kinds, Answers, Places
<1>5. Committed
  <2>1. \A a, b \in authorities : a = b
    BY <1>3
  <2>2. \A row \in authorities : row.columns \in verified
    BY DEF Init
  <2>3. discoveries = {}
    BY DEF Init
  <2> QED
    BY <1>3, <2>1, <2>2, <2>3 DEF Committed, Known, NameOf
<1>6. DeletedStaysAway /\ NamesAreTaken
  <2>1. \A a, b \in authorities : a = b
    BY <1>3
  <2> QED
    BY <2>1 DEF Init, DeletedStaysAway, NamesAreTaken, Wrote
<1>7. ASSUME NEW r \in Requests PROVE Request(r)
  BY DEF Init, Request, Place, Object, Deletions, FreeName, Holding
<1> QED
  BY <1>4, <1>5, <1>6, <1>7 DEF IInv

-------------------------------------------------------------------------------
(* A step of a request that has come in: only its own place, object and      *)
(* answer change, besides the tables.                                        *)
Moves(r) ==
    /\ pc[r] \notin {"idle", "done"}
    /\ pc'[r] \in Places /\ answer'[r] \in Answers
    /\ pc' = [pc EXCEPT ![r] = pc'[r]]
    /\ instance' = [instance EXCEPT ![r] = instance'[r]]
    /\ answer' = [answer EXCEPT ![r] = answer'[r]]
    /\ op' = op /\ before' = before

(* What such a step leaves to the other requests. *)
LEMMA OthersKeep ==
    ASSUME IInv, NEW r \in Requests, Moves(r), verified \subseteq verified', revived' \subseteq Ids
    PROVE  /\ Types'
           /\ answer[r] = "none"
           /\ \A s \in Requests : s # r => /\ pc'[s] = pc[s] /\ instance'[s] = instance[s]
                                           /\ answer'[s] = answer[s]
           /\ \A id \in Ids : Known(id) => Known(id)'
           /\ \A s \in Requests, id \in Ids : Returned(s, id) => Returned(s, id)'
           /\ \A s \in Requests : s # r => Place(s)' /\ Object(s)' /\ Deletions(s)'
<1>0. Types /\ \A s \in Requests : Request(s)
  BY DEF IInv
<1>1. answer[r] = "none"
  BY <1>0 DEF Moves, Request, Place
<1>2. \A s \in Requests : s # r =>
          pc'[s] = pc[s] /\ instance'[s] = instance[s] /\ answer'[s] = answer[s]
  BY <1>0 DEF Moves, Types
<1>3. Types'
  <2>1. pc' \in [Requests -> Places] /\ answer' \in [Requests -> Answers]
    BY <1>0 DEF Moves, Types
  <2>2. instance' = [s \in Requests |-> instance'[s]]
    BY <1>0 DEF Moves, Types
  <2> QED
    BY <1>0, <2>1, <2>2 DEF Moves, Types
<1>4. ASSUME NEW id \in Ids, Known(id) PROVE Known(id)'
  BY <1>1, <1>2, <1>4 DEF Known, Moves
<1>5. ASSUME NEW s \in Requests, NEW id \in Ids, Returned(s, id) PROVE Returned(s, id)'
  <2>1. PICK q \in Requests : Wrote(q, "update", id) /\ Overlapped(s, q)
    BY <1>5 DEF Returned
  <2>2. q # r
    BY <1>1, <2>1 DEF Wrote
  <2>3. Wrote(q, "update", id)' /\ Overlapped(s, q)'
    BY <1>2, <2>1, <2>2 DEF Wrote, Overlapped, Precedes, Moves
  <2> QED
    BY <2>3 DEF Returned
<1>6. ASSUME NEW s \in Requests, s # r PROVE Place(s)' /\ Object(s)' /\ Deletions(s)'
  <2>1. pc'[s] = pc[s] /\ instance'[s] = instance[s] /\ answer'[s] = answer[s]
        /\ op' = op /\ before' = before
    BY <1>2, <1>6 DEF Moves
  <2>2. Place(s) /\ Object(s) /\ Deletions(s)
    BY <1>0 DEF Request
  <2>3. \A q \in before[s] : q \in Requests /\ q # r /\ answer'[q] = answer[q]
    BY <1>0, <1>1, <1>2, <2>2 DEF Place, Types
  <2>4. Known(op[s].id) => Known(op[s].id)'
    BY <1>1, <1>2, <2>1 DEF Known
  <2>5. Place(s)'
    BY <2>1, <2>2, <2>3, <2>4 DEF Place
  <2>6. Object(s)'
    <3>1. ASSUME NEW row \in instance[s] PROVE Holds(s, row)'
      <4>1. Holds(s, row)
        BY <2>2 DEF Object
      <4>2. row.id \in Ids
        BY <4>1 DEF Holds, Row
      <4> QED
        BY <1>4, <2>1, <4>1, <4>2 DEF Holds, NameOf
    <3> QED
      BY <2>1, <2>2, <3>1 DEF Object
  <2>7. Deletions(s)'
    <3>1. ASSUME op[s].kind = "update", NEW row \in instance[s], NEW q \in before[s],
                 Wrote(q, "delete", row.id)'
          PROVE  Returned(q, row.id)'
      <4>1. Wrote(q, "delete", row.id)
        BY <2>1, <2>3, <3>1 DEF Wrote
      <4>2. row.id \in Ids
        BY <2>2 DEF Object, Holds, Row
      <4> QED
        BY <1>5, <2>2, <2>3, <3>1, <4>1, <4>2 DEF Deletions
    <3> QED
      BY <2>1, <3>1 DEF Deletions
  <2> QED
    BY <2>5, <2>6, <2>7
<1> QED
  BY <1>1, <1>2, <1>3, <1>4, <1>5, <1>6

(* A step that changes no table and is not answered with success. *)
LEMMA QuietKeeps ==
    ASSUME IInv, NEW r \in Requests, Moves(r), verified \subseteq verified',
           UNCHANGED <<authorities, discoveries, revived>>, answer'[r] \notin {"200", "204"}
    PROVE  /\ Types' /\ Committed' /\ DeletedStaysAway' /\ NamesAreTaken'
           /\ \A s \in Requests : s # r => Request(s)'
<1>0. /\ Types /\ Committed /\ DeletedStaysAway /\ NamesAreTaken
      /\ \A s \in Requests : Request(s)
  BY DEF IInv
<1>1. revived' \subseteq Ids
  BY <1>0 DEF Types
<1>2. /\ Types' /\ op' = op /\ before' = before /\ answer[r] = "none"
      /\ \A s \in Requests : s # r => /\ pc'[s] = pc[s] /\ instance'[s] = instance[s]
                                      /\ answer'[s] = answer[s]
      /\ \A id \in Ids : Known(id) => Known(id)'
      /\ \A s \in Requests, id \in Ids : Returned(s, id) => Returned(s, id)'
      /\ \A s \in Requests : s # r => Place(s)' /\ Object(s)' /\ Deletions(s)'
  BY <1>1, OthersKeep DEF Moves
<1>3. Committed'
  <2>1. ASSUME NEW row \in authorities PROVE Known(row.id)' /\ row.name = NameOf(row.id)'
    BY <1>0, <1>2 DEF Committed, Row, NameOf
  <2>2. \A d \in discoveries : answer'[d.id] = "200"
    BY <1>0, <1>2 DEF Committed
  <2> QED
    BY <1>0, <1>2, <2>1, <2>2 DEF Committed
<1>4. DeletedStaysAway'
  <2>1. ASSUME NEW row \in authorities, NEW s \in Requests, Wrote(s, "delete", row.id)'
        PROVE  Returned(s, row.id)'
    <3>1. Wrote(s, "delete", row.id)
      BY <1>2, <2>1 DEF Wrote
    <3>2. row.id \in Ids
      BY <1>0 DEF Committed, Row
    <3>3. Returned(s, row.id)
      BY <1>0, <3>1 DEF DeletedStaysAway, Returned
    <3> QED
      BY <1>2, <3>2, <3>3
  <2> QED
    BY <2>1 DEF DeletedStaysAway, Returned
<1>5. NamesAreTaken'
  BY <1>0, <1>2 DEF NamesAreTaken, Overlapped, Precedes
<1>6. ASSUME NEW s \in Requests, s # r PROVE FreeName(s)'
  BY <1>0, <1>2, <1>6 DEF Request, FreeName, Precedes
<1> QED
  BY <1>2, <1>3, <1>4, <1>5, <1>6 DEF Request

(* A request that ends without success. *)
LEMMA FailureKeeps ==
    ASSUME IInv, NEW r \in Requests, pc[r] \notin {"idle", "done"},
           pc' = [pc EXCEPT ![r] = "done"], instance' = [instance EXCEPT ![r] = {}],
           NEW status \in Answers \ {"200", "204"}, answer' = [answer EXCEPT ![r] = status],
           UNCHANGED <<authorities, discoveries, op, verified, before, revived>>
    PROVE  IInv'
<1>0. Types /\ \A s \in Requests : Request(s)
  BY DEF IInv
<1>1. pc'[r] = "done" /\ instance'[r] = {} /\ answer'[r] = status
  BY <1>0 DEF Types
<1>2. Moves(r)
  BY <1>1 DEF Moves, Places
<1>3. /\ Types' /\ Committed' /\ DeletedStaysAway' /\ NamesAreTaken'
      /\ \A s \in Requests : s # r => Request(s)'
  BY <1>1, <1>2, QuietKeeps
<1>4. Request(r)'
  <2>1. \A s \in before[r] : answer'[s] # "none"
    BY <1>0 DEF Request, Place, Types
  <2> QED
    BY <1>1, <2>1 DEF Request, Place, Object, Deletions, FreeName, Holding
<1> QED
  BY <1>3, <1>4 DEF IInv

(* A request that goes on with the row it holds, its columns changed or not. *)
LEMMA SameRowKeeps ==
    ASSUME IInv, NEW r \in Requests, NEW row \in instance[r], NEW new,
           NEW place \in {"verify", "save", "insert"},
           pc[r] \in Holding, pc' = [pc EXCEPT ![r] = place],
           instance' = [instance EXCEPT ![r] = {new}],
           verified \subseteq verified',
           UNCHANGED <<authorities, discoveries, op, answer, before, revived>>,
           op[r].kind = "update" \/ (op[r].kind = "create" /\ place # "insert"),
           Row(new), new.id = row.id, new.name = row.name,
           new.columns = ColumnsOf(new.attributes),
           place \in {"save", "insert"} => new.columns \in verified'
    PROVE  IInv'
<1>0. /\ Types /\ Request(r) /\ Holds(r, row)
      /\ \A a \in instance[r] : a = row
  BY DEF IInv, Request, Object
<1>1. pc'[r] = place /\ instance'[r] = {new} /\ answer'[r] = answer[r]
  BY <1>0 DEF Types
<1>2. Moves(r)
  <2>1. answer[r] \in Answers
    BY <1>0 DEF Types
  <2>2. place \in Places /\ pc[r] \notin {"idle", "done"}
    BY DEF Places, Holding
  <2>3. answer' = [answer EXCEPT ![r] = answer'[r]]
    BY <1>0, <1>1 DEF Types
  <2> QED
    BY <1>1, <2>1, <2>2, <2>3 DEF Moves
<1>3. revived' \subseteq Ids
  BY <1>0 DEF Types
<1>4. /\ answer[r] = "none"
      /\ \A id \in Ids : Known(id) => Known(id)'
      /\ \A s \in Requests, id \in Ids : Returned(s, id) => Returned(s, id)'
  BY <1>2, <1>3, OthersKeep
<1>5. /\ Types' /\ Committed' /\ DeletedStaysAway' /\ NamesAreTaken'
      /\ \A s \in Requests : s # r => Request(s)'
  BY <1>1, <1>2, <1>4, QuietKeeps
<1>6. Place(r)'
  BY <1>0, <1>1, <1>4 DEF Request, Place
<1>7. row.id \in Ids
  BY <1>0 DEF Holds, Row
<1>8. Object(r)'
  <2>1. Holds(r, new)'
    BY <1>0, <1>1, <1>4, <1>7 DEF Holds, NameOf
  <2> QED
    BY <1>1, <2>1 DEF Object, Holding
<1>9. Deletions(r)'
  <2>1. ASSUME op[r].kind = "update", NEW s \in before[r], Wrote(s, "delete", row.id)'
        PROVE  Returned(s, row.id)'
    <3>1. s \in Requests /\ Wrote(s, "delete", row.id)
      BY <1>0, <2>1 DEF Wrote, Types
    <3>2. Returned(s, row.id)
      BY <1>0, <2>1, <3>1 DEF Request, Deletions
    <3> QED
      BY <1>4, <1>7, <3>1, <3>2
  <2> QED
    BY <1>1, <2>1 DEF Deletions
<1>10. FreeName(r)'
  BY <1>0, <1>1 DEF Request, FreeName, Precedes
<1> QED
  BY <1>5, <1>6, <1>8, <1>9, <1>10 DEF IInv, Request

-------------------------------------------------------------------------------
LEMMA CreateKeeps == ASSUME IInv, NEW r \in Requests, Create(r) PROVE IInv'
<1>0. Types /\ Request(r)
  BY DEF IInv
<1>1. /\ pc[r] = "begun" /\ op[r].kind = "create"
      /\ UNCHANGED <<authorities, discoveries, op, verified, before, revived>>
  BY DEF Create
<1>2. CASE \E row \in authorities : row.name = op[r].name
  <2>1. /\ pc' = [pc EXCEPT ![r] = "done"] /\ instance' = [instance EXCEPT ![r] = {}]
        /\ answer' = [answer EXCEPT ![r] = "400"]
    BY <1>2 DEF Create, Answer
  <2> QED
    BY <1>1, <2>1, FailureKeeps DEF Answers
<1>3. CASE ~\E row \in authorities : row.name = op[r].name
  <2>0. PICK new : new = NewRow(r, op[r].name)
    OBVIOUS
  <2>1. /\ pc' = [pc EXCEPT ![r] = "update"] /\ instance' = [instance EXCEPT ![r] = {new}]
        /\ answer' = answer
    BY <1>3, <2>0 DEF Create, Continue
  <2>2. new.id = r /\ new.name = op[r].name /\ Row(new)
    <3>1. op[r].name \in Names
      BY <1>0, <1>1 DEF Request, Place
    <3> QED
      BY <2>0, <3>1 DEF NewRow, Row, Ids
  <2>3. pc'[r] = "update" /\ instance'[r] = {new} /\ answer'[r] = answer[r]
    BY <1>0, <2>1 DEF Types
  <2>4. Moves(r)
    <3>1. answer[r] \in Answers /\ answer' = [answer EXCEPT ![r] = answer'[r]]
      BY <1>0, <2>1 DEF Types
    <3> QED
      BY <1>1, <2>1, <2>3, <3>1 DEF Moves, Places, Holding
  <2>5. answer[r] = "none"
    BY <1>0, <1>1 DEF Request, Place
  <2>6. /\ Types' /\ Committed' /\ DeletedStaysAway' /\ NamesAreTaken'
        /\ \A s \in Requests : s # r => Request(s)'
    BY <1>1, <2>3, <2>4, <2>5, QuietKeeps
  <2>7. Place(r)'
    BY <1>0, <1>1, <2>1, <2>3, <2>5 DEF Request, Place
  <2>8. Object(r)'
    <3>1. Holds(r, new)'
      BY <1>1, <2>2, <2>3 DEF Holds
    <3> QED
      BY <2>3, <3>1 DEF Object, Holding
  <2>9. Deletions(r)' /\ FreeName(r)'
    BY <1>1, <1>3, <2>3 DEF Deletions, FreeName
  <2> QED
    BY <2>6, <2>7, <2>8, <2>9 DEF IInv, Request
<1> QED
  BY <1>2, <1>3

LEMMA GetRowKeeps == ASSUME IInv, NEW r \in Requests, GetRow(r) PROVE IInv'
<1> DEFINE found == {row \in authorities : row.id = op[r].id}
<1>0. Types /\ Request(r) /\ Committed /\ DeletedStaysAway
  BY DEF IInv
<1>1. /\ pc[r] = "begun" /\ op[r].kind \in {"update", "delete"}
      /\ UNCHANGED <<authorities, discoveries, op, verified, before, revived>>
  BY DEF GetRow
<1>2. CASE found = {}
  <2>1. /\ pc' = [pc EXCEPT ![r] = "done"] /\ instance' = [instance EXCEPT ![r] = {}]
        /\ answer' = [answer EXCEPT ![r] = "404"]
    BY <1>2 DEF GetRow, Answer
  <2> QED
    BY <1>1, <2>1, FailureKeeps DEF Answers
<1>3. CASE found # {}
  <2>1. /\ pc' = [pc EXCEPT ![r] = op[r].kind] /\ instance' = [instance EXCEPT ![r] = found]
        /\ answer' = answer
    BY <1>3 DEF GetRow, Continue
  <2>2. /\ found \subseteq authorities /\ \A row \in found : row.id = op[r].id
        /\ \A a, b \in found : a = b
    BY <1>0 DEF Committed
  <2> HIDE DEF found
  <2>3. pc'[r] = op[r].kind /\ instance'[r] = found /\ answer'[r] = answer[r]
    BY <1>0, <2>1 DEF Types
  <2>4. Moves(r)
    <3>1. answer[r] \in Answers /\ answer' = [answer EXCEPT ![r] = answer'[r]]
      BY <1>0, <2>1 DEF Types
    <3> QED
      BY <1>1, <2>1, <2>3, <3>1 DEF Moves, Places, Holding
  <2>5. revived' \subseteq Ids
    BY <1>0, <1>1 DEF Types
  <2>6. /\ answer[r] = "none"
        /\ \A id \in Ids : Known(id) => Known(id)'
        /\ \A s \in Requests, id \in Ids : Returned(s, id) => Returned(s, id)'
    BY <1>1, <2>4, <2>5, OthersKeep
  <2>7. /\ Types' /\ Committed' /\ DeletedStaysAway' /\ NamesAreTaken'
        /\ \A s \in Requests : s # r => Request(s)'
    BY <1>1, <2>3, <2>4, <2>6, QuietKeeps
  <2>8. Place(r)'
    BY <1>0, <1>1, <2>1, <2>3, <2>6 DEF Request, Place
  <2>9. Object(r)'
    <3>1. ASSUME NEW row \in found PROVE Holds(r, row)'
      BY <1>0, <1>1, <2>2, <2>3, <2>6 DEF Committed, Holds, NameOf, Row
    <3> QED
      BY <1>1, <1>3, <2>2, <2>3, <3>1 DEF Object, Holding
  <2>10. Deletions(r)'
    <3>1. ASSUME NEW row \in found, NEW s \in before[r], Wrote(s, "delete", row.id)'
          PROVE  Returned(s, row.id)'
      <4>1. s \in Requests /\ row.id \in Ids /\ row \in authorities
        BY <1>0, <2>2 DEF Types, Committed, Row
      <4>2. Wrote(s, "delete", row.id)
        BY <1>1, <2>1, <3>1 DEF Wrote
      <4>3. Returned(s, row.id)
        BY <1>0, <4>1, <4>2 DEF DeletedStaysAway, Returned
      <4> QED
        BY <2>6, <4>1, <4>3
    <3> QED
      BY <1>1, <2>3, <3>1 DEF Deletions
  <2>11. FreeName(r)'
    BY <1>1, <2>3 DEF FreeName
  <2> QED
    BY <2>7, <2>8, <2>9, <2>10, <2>11 DEF IInv, Request
<1> QED
  BY <1>2, <1>3

LEMMA UpdateKeeps == ASSUME IInv, NEW r \in Requests, Update(r) PROVE IInv'
<1>0. Types /\ Request(r)
  BY DEF IInv
<1>1. /\ pc[r] = "update"
      /\ UNCHANGED <<authorities, discoveries, op, verified, before, revived>>
  BY DEF Update
<1>2. CASE Answer(r, "500")
  BY <1>1, <1>2, FailureKeeps DEF Answer, Answers
<1>3. ASSUME NEW gap \in Gaps, NEW row \in instance[r],
             Continue(r, "verify", {Filled(row, r, gap)})
      PROVE  IInv'
  <2>1. PICK new : new = Filled(row, r, gap)
    OBVIOUS
  <2>2. Row(row) /\ op[r].kind \in {"create", "update"}
    BY <1>0, <1>1 DEF Request, Place, Object, Holds
  <2>3. Row(new) /\ new.id = row.id /\ new.name = row.name /\ new.columns = ColumnsOf(new.attributes)
    BY <2>1, <2>2, FilledRow
  <2>4. /\ pc' = [pc EXCEPT ![r] = "verify"] /\ instance' = [instance EXCEPT ![r] = {new}]
        /\ answer' = answer
    BY <1>3, <2>1 DEF Continue
  <2> QED
    BY <1>1, <2>2, <2>3, <2>4, SameRowKeeps DEF Holding
<1> QED
  BY <1>2, <1>3 DEF Update

LEMMA VerifyConnectionKeeps == ASSUME IInv, NEW r \in Requests, VerifyConnection(r) PROVE IInv'
<1>0. Types /\ Request(r)
  BY DEF IInv
<1>1. pc[r] = "verify" /\ UNCHANGED <<authorities, discoveries, op, before, revived>>
  BY DEF VerifyConnection
<1>2. ASSUME NEW status \in {"400", "500"}, Answer(r, status), UNCHANGED verified
      PROVE  IInv'
  BY <1>1, <1>2, FailureKeeps DEF Answer, Answers
<1>3. ASSUME Continue(r, "save", instance[r]),
             verified' = verified \union {row.columns : row \in instance[r]}
      PROVE  IInv'
  <2>1. PICK row \in instance[r] : TRUE
    BY <1>0, <1>1 DEF Request, Object, Holding
  <2>2. instance[r] = {row} /\ Holds(r, row) /\ op[r].kind \in {"create", "update"}
    BY <1>0, <1>1, <2>1 DEF Request, Place, Object
  <2>3. Row(row) /\ row.columns = ColumnsOf(row.attributes) /\ row.columns \in verified'
    BY <1>1, <1>3, <2>1, <2>2 DEF Holds
  <2>4. /\ pc' = [pc EXCEPT ![r] = "save"] /\ instance' = [instance EXCEPT ![r] = {row}]
        /\ answer' = answer /\ verified \subseteq verified'
    BY <1>3, <2>2 DEF Continue
  <2> QED
    BY <1>1, <2>2, <2>3, <2>4, SameRowKeeps DEF Holding
<1> QED
  BY <1>2, <1>3 DEF VerifyConnection

-------------------------------------------------------------------------------
(* The row is written: over the one with its id, or anew.  A row that is new *)
(* to the table is that of its creator, or has come back.                    *)
LEMMA WriteKeeps ==
    ASSUME IInv, NEW r \in Requests, NEW row \in instance[r], pc[r] \in {"save", "insert"},
           pc' = [pc EXCEPT ![r] = "done"], instance' = [instance EXCEPT ![r] = {}],
           answer' = [answer EXCEPT ![r] = "200"],
           authorities' = {o \in authorities : o.id # row.id} \union {row},
           UNCHANGED <<discoveries, op, verified, before>>,
           revived \subseteq revived', revived' \subseteq Ids,
           \/ op[r].kind = "create"
           \/ row.id \in revived'
           \/ \E o \in authorities : o.id = row.id
    PROVE  IInv'
<1>0. /\ Types /\ Committed /\ DeletedStaysAway /\ NamesAreTaken
      /\ \A s \in Requests : Request(s)
  BY DEF IInv
<1>1. pc'[r] = "done" /\ instance'[r] = {} /\ answer'[r] = "200"
  BY <1>0 DEF Types
<1>2. Moves(r)
  BY <1>1 DEF Moves, Places, Answers
<1>3. /\ Types' /\ op' = op /\ before' = before /\ answer[r] = "none"
      /\ \A s \in Requests : s # r => /\ pc'[s] = pc[s] /\ instance'[s] = instance[s]
                                      /\ answer'[s] = answer[s]
      /\ \A id \in Ids : Known(id) => Known(id)'
      /\ \A s \in Requests, id \in Ids : Returned(s, id) => Returned(s, id)'
      /\ \A s \in Requests : s # r => Place(s)' /\ Object(s)' /\ Deletions(s)'
  BY <1>2, OthersKeep DEF Moves
<1>4. Holds(r, row) /\ op[r].kind \in {"create", "update"}
  BY <1>0 DEF Request, Place, Object
<1>5. row.id \in Ids /\ Row(row) /\ row.columns \in verified /\ row.columns = ColumnsOf(row.attributes)
  BY <1>4 DEF Holds, Row
<1>6. Known(row.id)' /\ row.name = NameOf(row.id) /\ (op[r].kind = "update" => row.id = op[r].id)
  <2>1. CASE op[r].kind = "create"
    BY <1>1, <1>3, <1>4, <2>1, InstancesAssumption DEF Holds, Known, NameOf
  <2>2. CASE op[r].kind = "update"
    BY <1>3, <1>4, <1>5, <2>2 DEF Holds
  <2> QED
    BY <1>4, <2>1, <2>2
<1>7. \A s \in Requests : r \notin before[s]
  BY <1>0, <1>3 DEF Request, Place
<1>8. /\ \A o \in authorities : /\ Row(o) /\ o.id \in Ids /\ Known(o.id) /\ o.name = NameOf(o.id)
                                /\ o.columns \in verified /\ o.columns = ColumnsOf(o.attributes)
      /\ \A o \in authorities : o.id = row.id => o.name = row.name
  BY <1>0, <1>6 DEF Committed, Row
<1>9. Committed'
  <2>1. ASSUME NEW a \in authorities', NEW b \in authorities', a.id = b.id PROVE a = b
    BY <1>0, <2>1 DEF Committed
  <2>2. ASSUME NEW a \in authorities'
        PROVE  /\ Row(a) /\ Known(a.id)' /\ a.name = NameOf(a.id)'
               /\ a.columns \in verified' /\ a.columns = ColumnsOf(a.attributes)
    <3>1. CASE a = row
      BY <1>3, <1>5, <1>6, <3>1 DEF NameOf
    <3>2. CASE a \in authorities
      BY <1>3, <1>8, <3>2 DEF NameOf
    <3> QED
      BY <3>1, <3>2
  <2>3. \A d \in discoveries : answer'[d.id] = "200"
    BY <1>0, <1>3 DEF Committed
  <2> QED
    BY <1>0, <1>3, <2>1, <2>2, <2>3 DEF Committed
<1>10. DeletedStaysAway'
  <2>1. ASSUME NEW a \in authorities', NEW s \in Requests, Wrote(s, "delete", a.id)'
        PROVE  Returned(s, a.id)'
    <3>1. Wrote(s, "delete", a.id) /\ s # r
      BY <1>3, <1>4, <2>1 DEF Wrote
    <3>2. CASE a \in authorities
      <4>1. Returned(s, a.id)
        BY <1>0, <3>1, <3>2 DEF DeletedStaysAway, Returned
      <4> QED
        BY <1>3, <1>8, <3>2, <4>1
    <3>3. CASE a = row
      <4>1. Known(row.id)
        BY <1>0, <3>1, <3>3 DEF Wrote, Request, Place
      <4>2. op[r].kind = "update"
        BY <1>3, <1>4, <4>1, InstancesAssumption DEF Holds, Known
      <4>3. CASE s \in before[r]
        BY <1>0, <1>3, <1>5, <3>1, <3>3, <4>2, <4>3 DEF Request, Deletions
      <4>4. CASE s \notin before[r]
        <5>1. Overlapped(s, r)'
          BY <1>3, <1>7, <4>4, InstancesAssumption DEF Overlapped, Precedes
        <5>2. Wrote(r, "update", row.id)'
          BY <1>1, <1>3, <1>6, <4>2 DEF Wrote
        <5> QED
          BY <3>3, <5>1, <5>2 DEF Returned
      <4> QED
        BY <4>3, <4>4
    <3> QED
      BY <3>2, <3>3
  <2> QED
    BY <2>1 DEF DeletedStaysAway, Returned
<1>11. \A s, q : Overlapped(s, q)' <=> Overlapped(s, q)
  BY <1>3 DEF Overlapped, Precedes
<1>12. \A s, q : Overlapped(s, q) <=> Overlapped(q, s)
  BY DEF Overlapped
<1>13. NamesAreTaken'
  <2>1. ASSUME NEW b \in authorities, b.id # row.id, b.name = row.name
        PROVE  Overlapped(row.id, b.id) \/ revived' \intersect {row.id, b.id} # {}
    <3>1. CASE op[r].kind = "create"
      <4>1. row.id = r /\ row.name = op[r].name
        BY <1>4, <3>1 DEF Holds
      <4>2. b.id \in revived \/ ~Precedes(b.id, r)
        BY <1>0, <2>1, <3>1, <4>1 DEF Request, FreeName
      <4>3. ~Precedes(r, b.id)
        BY <1>7, InstancesAssumption DEF Precedes
      <4> QED
        BY <4>1, <4>2, <4>3 DEF Overlapped
    <3>2. CASE row.id \in revived'
      BY <3>2
    <3>3. CASE \E o \in authorities : o.id = row.id
      <4>1. PICK o \in authorities : o.id = row.id
        BY <3>3
      <4>2. o.name = b.name /\ o # b
        BY <1>8, <2>1, <4>1
      <4> QED
        BY <1>0, <4>1, <4>2 DEF NamesAreTaken
    <3> QED
      BY <3>1, <3>2, <3>3
  <2>2. ASSUME NEW a \in authorities', NEW b \in authorities', a.name = b.name, a # b
        PROVE  a.id # b.id /\ (Overlapped(a.id, b.id) \/ revived' \intersect {a.id, b.id} # {})
    <3>1. a.id # b.id
      BY <1>9, <2>2 DEF Committed
    <3>2. CASE a = row
      BY <2>1, <2>2, <3>1, <3>2
    <3>3. CASE b = row
      <4>1. a \in authorities
        BY <2>2, <3>3
      <4> QED
        BY <1>12, <2>1, <2>2, <3>1, <3>3, <4>1
    <3>4. CASE a \in authorities /\ b \in authorities
      BY <1>0, <2>2, <3>4 DEF NamesAreTaken
    <3> QED
      BY <3>2, <3>3, <3>4
  <2> QED
    BY <1>0, <1>11, <2>2 DEF NamesAreTaken
<1>14. ASSUME NEW s \in Requests, s # r PROVE FreeName(s)'
  <2>1. ASSUME op[s].kind = "create", instance[s] # {}, NEW a \in authorities', a.name = op[s].name
        PROVE  a.id \in revived' \/ ~Precedes(a.id, s)
    <3>1. ASSUME NEW o \in authorities, o.name = op[s].name
          PROVE  o.id \in revived' \/ ~Precedes(o.id, s)
      BY <1>0, <2>1, <3>1 DEF Request, FreeName
    <3>2. CASE a \in authorities
      BY <2>1, <3>1, <3>2
    <3>3. CASE a = row
      <4>1. CASE op[r].kind = "create"
        BY <1>4, <1>7, <3>3, <4>1, InstancesAssumption DEF Holds, Precedes
      <4>2. CASE \E o \in authorities : o.id = row.id
        BY <1>8, <2>1, <3>1, <3>3, <4>2
      <4> QED
        BY <3>3, <4>1, <4>2
    <3> QED
      BY <3>2, <3>3
  <2>2. pc[s] = "insertDiscovery" => \A d \in discoveries : d.name = op[s].name => ~Precedes(d.id, s)
    BY <1>0 DEF Request, FreeName
  <2>3. \A q : Precedes(q, s)' <=> Precedes(q, s)
    BY <1>3 DEF Precedes
  <2> QED
    BY <1>3, <1>14, <2>1, <2>2, <2>3 DEF FreeName
<1>15. Request(r)'
  <2>1. Place(r)'
    <3>1. \A s \in before[r] : answer'[s] # "none"
      BY <1>0, <1>3, <1>7 DEF Request, Place, Types
    <3> QED
      BY <1>1, <1>3, <1>4, <1>6, <3>1 DEF Place
  <2> QED
    BY <1>1, <2>1 DEF Request, Object, Deletions, FreeName, Holding
<1> QED
  BY <1>3, <1>9, <1>10, <1>13, <1>14, <1>15 DEF IInv, Request

LEMMA SaveKeeps == ASSUME IInv, NEW r \in Requests, Save(r) PROVE IInv'
<1>0. Types /\ Request(r)
  BY DEF IInv
<1>1. pc[r] = "save" /\ UNCHANGED <<discoveries, op, verified, before, revived>>
  BY DEF Save
<1>2. PICK row \in instance[r] :
          LET old == {o \in authorities : o.id = row.id}
          IN  IF ~Storable(row)
              THEN Answer(r, "500") /\ UNCHANGED authorities
              ELSE IF op[r].kind = "update" /\ old = {}
              THEN Continue(r, "insert", {row}) /\ UNCHANGED authorities
              ELSE Answer(r, "200") /\ authorities' = (authorities \ old) \union {row}
  BY DEF Save
<1>3. Holds(r, row) /\ op[r].kind \in {"create", "update"}
  BY <1>0, <1>1 DEF Request, Place, Object
<1>4. CASE ~Storable(row)
  <2>1. Answer(r, "500") /\ UNCHANGED authorities
    BY <1>2, <1>4
  <2> QED
    BY <1>1, <2>1, FailureKeeps DEF Answer, Answers
<1>5. CASE Storable(row) /\ op[r].kind = "update" /\ ~\E o \in authorities : o.id = row.id
  <2>1. Continue(r, "insert", {row}) /\ UNCHANGED authorities
    BY <1>2, <1>5
  <2>2. Row(row) /\ row.columns = ColumnsOf(row.attributes) /\ row.columns \in verified
    BY <1>1, <1>3 DEF Holds
  <2> QED
    BY <1>1, <1>5, <2>1, <2>2, SameRowKeeps DEF Continue, Holding
<1>6. CASE Storable(row) /\ (op[r].kind = "create" \/ \E o \in authorities : o.id = row.id)
  <2>1. /\ Answer(r, "200")
        /\ authorities' = (authorities \ {o \in authorities : o.id = row.id}) \union {row}
    BY <1>2, <1>6
  <2>2. authorities' = {o \in authorities : o.id # row.id} \union {row}
    BY <2>1
  <2>3. revived \subseteq revived' /\ revived' \subseteq Ids
    BY <1>0, <1>1 DEF Types
  <2> QED
    BY <1>1, <1>6, <2>1, <2>2, <2>3, WriteKeeps DEF Answer
<1> QED
  BY <1>3, <1>4, <1>5, <1>6

LEMMA SaveInsertKeeps == ASSUME IInv, NEW r \in Requests, SaveInsert(r) PROVE IInv'
<1>0. Types /\ Request(r)
  BY DEF IInv
<1>1. pc[r] = "insert" /\ UNCHANGED <<discoveries, op, verified, before>>
  BY DEF SaveInsert
<1>2. PICK row \in instance[r] :
          IF \E o \in authorities : o.id = row.id
          THEN Answer(r, "500") /\ UNCHANGED <<authorities, revived>>
          ELSE /\ Answer(r, "200")
               /\ authorities' = authorities \union {row}
               /\ revived' = revived \union {row.id}
  BY DEF SaveInsert
<1>3. CASE \E o \in authorities : o.id = row.id
  BY <1>1, <1>2, <1>3, FailureKeeps DEF Answer, Answers
<1>4. CASE ~\E o \in authorities : o.id = row.id
  <2>1. /\ Answer(r, "200")
        /\ authorities' = authorities \union {row}
        /\ revived' = revived \union {row.id}
    BY <1>2, <1>4
  <2>2. authorities' = {o \in authorities : o.id # row.id} \union {row}
    BY <1>4, <2>1
  <2>3. row.id \in Ids
    BY <1>0 DEF Request, Object, Holds, Row
  <2>4. revived \subseteq revived' /\ revived' \subseteq Ids /\ row.id \in revived'
    BY <1>0, <2>1, <2>3 DEF Types
  <2> QED
    BY <1>1, <2>1, <2>2, <2>4, WriteKeeps DEF Answer
<1> QED
  BY <1>3, <1>4

-------------------------------------------------------------------------------
LEMMA DeleteKeeps == ASSUME IInv, NEW r \in Requests, Delete(r) PROVE IInv'
<1>0. /\ Types /\ Committed /\ DeletedStaysAway /\ NamesAreTaken
      /\ \A s \in Requests : Request(s)
  BY DEF IInv
<1>1. /\ pc[r] = "delete" /\ authorities' = {row \in authorities : row.id # op[r].id}
      /\ pc' = [pc EXCEPT ![r] = "done"] /\ instance' = [instance EXCEPT ![r] = {}]
      /\ answer' = [answer EXCEPT ![r] = "204"]
      /\ UNCHANGED <<discoveries, op, verified, before, revived>>
  BY DEF Delete, Answer
<1>2. pc'[r] = "done" /\ instance'[r] = {} /\ answer'[r] = "204"
  BY <1>0, <1>1 DEF Types
<1>3. Moves(r) /\ revived' \subseteq Ids
  BY <1>0, <1>1, <1>2 DEF Moves, Places, Answers, Types
<1>4. /\ Types' /\ answer[r] = "none"
      /\ \A s \in Requests : s # r => /\ pc'[s] = pc[s] /\ instance'[s] = instance[s]
                                      /\ answer'[s] = answer[s]
      /\ \A id \in Ids : Known(id) => Known(id)'
      /\ \A s \in Requests, id \in Ids : Returned(s, id) => Returned(s, id)'
      /\ \A s \in Requests : s # r => Place(s)' /\ Object(s)' /\ Deletions(s)'
  BY <1>1, <1>3, OthersKeep
<1>5. authorities' \subseteq authorities
  BY <1>1
<1>6. Committed'
  <2>1. \A row \in authorities : row.id \in Ids /\ Known(row.id)' /\ row.name = NameOf(row.id)'
    BY <1>0, <1>1, <1>4 DEF Committed, Row, NameOf
  <2>2. \A d \in discoveries : answer'[d.id] = "200"
    BY <1>0, <1>4 DEF Committed
  <2> QED
    BY <1>0, <1>1, <1>5, <2>1, <2>2 DEF Committed
<1>7. DeletedStaysAway'
  <2>1. ASSUME NEW a \in authorities', NEW s \in Requests, Wrote(s, "delete", a.id)'
        PROVE  Returned(s, a.id)'
    <3>1. a \in authorities /\ a.id # op[r].id /\ a.id \in Ids
      BY <1>0, <1>1 DEF Committed, Row
    <3>2. Wrote(s, "delete", a.id)
      BY <1>1, <1>4, <2>1, <3>1 DEF Wrote
    <3>3. Returned(s, a.id)
      BY <1>0, <3>1, <3>2 DEF DeletedStaysAway, Returned
    <3> QED
      BY <1>4, <3>1, <3>3
  <2> QED
    BY <2>1 DEF DeletedStaysAway, Returned
<1>8. NamesAreTaken'
  BY <1>0, <1>1, <1>5 DEF NamesAreTaken, Overlapped, Precedes
<1>9. ASSUME NEW s \in Requests, s # r PROVE FreeName(s)'
  BY <1>0, <1>1, <1>4, <1>5, <1>9 DEF Request, FreeName, Precedes
<1>10. Request(r)'
  <2>1. PICK row \in instance[r] : Holds(r, row) /\ op[r].kind = "delete"
    BY <1>0, <1>1 DEF Request, Object, Place, Holding
  <2>2. Known(op[r].id)'
    BY <1>1, <1>4, <2>1 DEF Holds, Row
  <2>3. \A s \in before[r] : answer'[s] # "none"
    BY <1>0, <1>2, <1>4 DEF Request, Place, Types
  <2>4. Place(r)'
    BY <1>1, <1>2, <2>1, <2>2, <2>3 DEF Place
  <2> QED
    BY <1>2, <2>4 DEF Request, Object, Deletions, FreeName, Holding
<1> QED
  BY <1>4, <1>6, <1>7, <1>8, <1>9, <1>10 DEF IInv, Request

LEMMA CreateDiscoveryKeeps == ASSUME IInv, NEW r \in Requests, CreateDiscovery(r) PROVE IInv'
<1>0. Types /\ Request(r)
  BY DEF IInv
<1>1. /\ pc[r] = "begun" /\ op[r].kind = "discover"
      /\ UNCHANGED <<authorities, discoveries, op, verified, before, revived>>
  BY DEF CreateDiscovery
<1>2. CASE Answer(r, "500")
  BY <1>1, <1>2, FailureKeeps DEF Answer, Answers
<1>3. CASE /\ \A d \in discoveries : d.name # op[r].name
           /\ Continue(r, "insertDiscovery", {})
  <2>1. /\ pc' = [pc EXCEPT ![r] = "insertDiscovery"] /\ instance' = [instance EXCEPT ![r] = {}]
        /\ answer' = answer
    BY <1>3 DEF Continue
  <2>2. pc'[r] = "insertDiscovery" /\ instance'[r] = {} /\ answer'[r] = answer[r]
        /\ answer[r] = "none"
    BY <1>0, <1>1, <2>1 DEF Types, Request, Place
  <2>3. Moves(r)
    <3>1. answer' = [answer EXCEPT ![r] = answer'[r]]
      BY <1>0, <2>1 DEF Types
    <3> QED
      BY <1>1, <2>1, <2>2, <3>1 DEF Moves, Places, Answers
  <2>4. /\ Types' /\ Committed' /\ DeletedStaysAway' /\ NamesAreTaken'
        /\ \A s \in Requests : s # r => Request(s)'
    BY <1>1, <2>2, <2>3, QuietKeeps
  <2>5. Place(r)'
    BY <1>0, <1>1, <2>1, <2>2 DEF Request, Place
  <2>6. Object(r)' /\ Deletions(r)' /\ FreeName(r)'
    BY <1>1, <1>3, <2>2 DEF Object, Deletions, FreeName, Holding
  <2> QED
    BY <2>4, <2>5, <2>6 DEF IInv, Request
<1> QED
  BY <1>2, <1>3 DEF CreateDiscovery

LEMMA SaveDiscoveryKeeps == ASSUME IInv, NEW r \in Requests, SaveDiscovery(r) PROVE IInv'
<1>0. /\ Types /\ Committed /\ DeletedStaysAway /\ NamesAreTaken
      /\ \A s \in Requests : Request(s)
  BY DEF IInv
<1>1. PICK new : new = [id |-> r, name |-> op[r].name]
  OBVIOUS
<1>2. /\ pc[r] = "insertDiscovery" /\ discoveries' = discoveries \union {new}
      /\ pc' = [pc EXCEPT ![r] = "done"] /\ instance' = [instance EXCEPT ![r] = {}]
      /\ answer' = [answer EXCEPT ![r] = "200"]
      /\ UNCHANGED <<authorities, op, verified, before, revived>>
  BY <1>1 DEF SaveDiscovery, Answer
<1>3. pc'[r] = "done" /\ instance'[r] = {} /\ answer'[r] = "200"
  BY <1>0, <1>2 DEF Types
<1>4. Moves(r) /\ revived' \subseteq Ids
  BY <1>0, <1>2, <1>3 DEF Moves, Places, Answers, Types
<1>5. /\ Types' /\ answer[r] = "none"
      /\ \A s \in Requests : s # r => /\ pc'[s] = pc[s] /\ instance'[s] = instance[s]
                                      /\ answer'[s] = answer[s]
      /\ \A id \in Ids : Known(id) => Known(id)'
      /\ \A s \in Requests, id \in Ids : Returned(s, id) => Returned(s, id)'
      /\ \A s \in Requests : s # r => Place(s)' /\ Object(s)' /\ Deletions(s)'
  BY <1>2, <1>4, OthersKeep
<1>6. /\ op[r].kind = "discover" /\ op[r].name \in Names
      /\ new.id = r /\ new.name = op[r].name
      /\ \A d \in discoveries : d.id # r
      /\ \A s \in Requests : r \notin before[s]
  BY <1>0, <1>1, <1>2, <1>5 DEF Request, Place, Committed
<1>7. Committed'
  <2>1. \A row \in authorities : row.id \in Ids /\ Known(row.id)' /\ row.name = NameOf(row.id)'
    BY <1>0, <1>2, <1>5 DEF Committed, Row, NameOf
  <2>2. \A d, e \in discoveries' : d.id = e.id => d = e
    BY <1>0, <1>2, <1>6 DEF Committed
  <2>3. \A d \in discoveries' : /\ d.id \in Requests /\ d.name \in Names
                                /\ d.name = op[d.id].name /\ answer'[d.id] = "200"
    BY <1>0, <1>2, <1>3, <1>5, <1>6 DEF Committed
  <2> QED
    BY <1>0, <1>2, <2>1, <2>2, <2>3 DEF Committed
<1>8. DeletedStaysAway'
  <2>1. ASSUME NEW a \in authorities, NEW s \in Requests, Wrote(s, "delete", a.id)'
        PROVE  Returned(s, a.id)'
    <3>1. Wrote(s, "delete", a.id) /\ a.id \in Ids
      BY <1>0, <1>2, <1>5, <1>6, <2>1 DEF Wrote, Committed, Row
    <3>2. Returned(s, a.id)
      BY <1>0, <3>1 DEF DeletedStaysAway, Returned
    <3> QED
      BY <1>5, <3>1, <3>2
  <2> QED
    BY <1>2, <2>1 DEF DeletedStaysAway, Returned
<1>9. \A s, q : /\ Overlapped(s, q)' <=> Overlapped(s, q)
                /\ Precedes(s, q)' <=> Precedes(s, q)
                /\ Overlapped(s, q) <=> Overlapped(q, s)
  BY <1>2 DEF Overlapped, Precedes
<1>10. NamesAreTaken'
  <2>1. ASSUME NEW d \in discoveries, d.name = new.name PROVE Overlapped(d.id, r)
    <3>1. ~Precedes(d.id, r)
      BY <1>0, <1>2, <1>6, <2>1 DEF Request, FreeName
    <3>2. ~Precedes(r, d.id)
      BY <1>6, InstancesAssumption DEF Precedes
    <3> QED
      BY <3>1, <3>2 DEF Overlapped
  <2>2. \A d, e \in discoveries' : d.name = e.name => d = e \/ Overlapped(d.id, e.id)
    BY <1>0, <1>2, <1>6, <1>9, <2>1 DEF NamesAreTaken
  <2> QED
    BY <1>0, <1>2, <1>9, <2>2 DEF NamesAreTaken
<1>11. ASSUME NEW s \in Requests, s # r PROVE FreeName(s)'
  <2>1. FreeName(s) /\ ~Precedes(r, s)
    BY <1>0, <1>6, InstancesAssumption DEF Request, Precedes
  <2> QED
    BY <1>2, <1>5, <1>6, <1>9, <1>11, <2>1 DEF FreeName
<1>12. Request(r)'
  <2>1. \A s \in before[r] : answer'[s] # "none"
    BY <1>0, <1>3, <1>5 DEF Request, Place, Types
  <2> QED
    BY <1>2, <1>3, <1>6, <2>1 DEF Request, Place, Object, Deletions, FreeName, Holding
<1> QED
  BY <1>5, <1>7, <1>8, <1>10, <1>11, <1>12 DEF IInv, Request

LEMMA DiesKeeps == ASSUME IInv, NEW r \in Requests, Dies(r) PROVE IInv'
<1>1. answer[r] = "none" /\ answer \in [Requests -> Answers]
  BY DEF IInv, Types, Request, Place, Dies
<1>2. answer' = [answer EXCEPT ![r] = "none"]
  BY <1>1 DEF Dies
<1> QED
  BY <1>2, FailureKeeps DEF Dies, Answers

-------------------------------------------------------------------------------
(* A request that comes in has not been answered, so no row is its own, none *)
(* is changed by it and no other request waits for it.                       *)
LEMMA ReceiveKeeps == ASSUME IInv, NEW r \in Requests, Receive(r) PROVE IInv'
<1>0. /\ Types /\ Committed /\ DeletedStaysAway /\ NamesAreTaken
      /\ \A s \in Requests : Request(s)
  BY DEF IInv
<1>1. /\ pc[r] = "idle" /\ pc' = [pc EXCEPT ![r] = "begun"]
      /\ before' = [before EXCEPT ![r] = {s \in Requests : answer[s] # "none"}]
      /\ UNCHANGED <<authorities, discoveries, instance, answer, verified, revived>>
  BY DEF Receive
<1>2. PICK new \in [kind : Kinds, name : Names \union {NoValue}, id : Ids \union {NoValue}] :
          /\ op' = [op EXCEPT ![r] = new]
          /\ new.kind \in {"create", "discover"} => new.name \in Names
  <2>1. CASE \E kind \in {"create", "discover"}, n \in Names :
                 op' = [op EXCEPT ![r] = [kind |-> kind, name |-> n, id |-> NoValue]]
    <3>1. PICK kind \in {"create", "discover"}, n \in Names :
                   op' = [op EXCEPT ![r] = [kind |-> kind, name |-> n, id |-> NoValue]]
      BY <2>1
    <3> DEFINE v == [kind |-> kind, name |-> n, id |-> NoValue]
    <3>2. /\ v \in [kind : Kinds, name : Names \union {NoValue}, id : Ids \union {NoValue}]
          /\ v.kind \in {"create", "discover"} => v.name \in Names
      BY DEF Kinds
    <3>3. op' = [op EXCEPT ![r] = v]
      BY <3>1
    <3> HIDE DEF v
    <3> QED
      BY <3>2, <3>3
  <2>2. CASE \E kind \in {"update", "delete"}, id \in Ids :
                 op' = [op EXCEPT ![r] = [kind |-> kind, name |-> NoValue, id |-> id]]
    <3>1. PICK kind \in {"update", "delete"}, id \in Ids :
                   op' = [op EXCEPT ![r] = [kind |-> kind, name |-> NoValue, id |-> id]]
      BY <2>2
    <3> DEFINE v == [kind |-> kind, name |-> NoValue, id |-> id]
    <3>2. /\ v \in [kind : Kinds, name : Names \union {NoValue}, id : Ids \union {NoValue}]
          /\ v.kind \in {"create", "discover"} => v.name \in Names
      BY DEF Kinds
    <3>3. op' = [op EXCEPT ![r] = v]
      BY <3>1
    <3> HIDE DEF v
    <3> QED
      BY <3>2, <3>3
  <2> QED
    BY <2>1, <2>2 DEF Receive
<1>3. /\ op'[r] = new /\ pc'[r] = "begun"
      /\ before'[r] = {s \in Requests : answer[s] # "none"}
      /\ \A s \in Requests : s # r => op'[s] = op[s] /\ pc'[s] = pc[s] /\ before'[s] = before[s]
  BY <1>0, <1>1, <1>2 DEF Types
<1>4. answer[r] = "none" /\ instance[r] = {} /\ \A s \in Requests : r \notin before'[s]
  BY <1>0, <1>1, <1>3 DEF Request, Place, Object, Holding
<1>5. Types'
  BY <1>0, <1>1, <1>2 DEF Types, Places, Holding
<1>6. \A id \in Ids : Known(id) => id # r /\ Known(id)' /\ NameOf(id)' = NameOf(id)
  BY <1>1, <1>3, <1>4, InstancesAssumption DEF Known, NameOf
<1>7. \A s \in Requests : \A kind, id : Wrote(s, kind, id)' => s # r /\ Wrote(s, kind, id)
  BY <1>1, <1>3, <1>4 DEF Wrote
<1>8. \A s \in Ids \ {r}, q \in Ids \ {r} :
          /\ Precedes(s, q)' <=> Precedes(s, q)
          /\ Overlapped(s, q)' <=> Overlapped(s, q)
  BY <1>3 DEF Ids, Overlapped, Precedes
<1>9. ASSUME NEW s \in Requests, s # r, NEW id \in Ids, Returned(s, id) PROVE Returned(s, id)'
  <2>1. PICK q \in Requests : Wrote(q, "update", id) /\ Overlapped(s, q)
    BY <1>9 DEF Returned
  <2>2. q # r
    BY <1>4, <2>1 DEF Wrote
  <2>3. Wrote(q, "update", id)' /\ Overlapped(s, q)'
    BY <1>1, <1>3, <1>8, <1>9, <2>1, <2>2 DEF Wrote, Ids
  <2> QED
    BY <2>3 DEF Returned
<1>10. Committed'
  <2>1. \A row \in authorities : row.id \in Ids /\ Known(row.id)' /\ row.name = NameOf(row.id)'
    BY <1>0, <1>6 DEF Committed, Row
  <2>2. \A d \in discoveries : d.name = op'[d.id].name
    BY <1>0, <1>3, <1>4 DEF Committed
  <2> QED
    BY <1>0, <1>1, <2>1, <2>2 DEF Committed
<1>11. DeletedStaysAway'
  <2>1. ASSUME NEW a \in authorities, NEW s \in Requests, Wrote(s, "delete", a.id)'
        PROVE  Returned(s, a.id)'
    <3>1. s # r /\ Wrote(s, "delete", a.id) /\ a.id \in Ids
      BY <1>0, <1>7, <2>1 DEF Committed, Row
    <3>2. Returned(s, a.id)
      BY <1>0, <3>1 DEF DeletedStaysAway, Returned
    <3> QED
      BY <1>9, <3>1, <3>2
  <2> QED
    BY <1>1, <2>1 DEF DeletedStaysAway, Returned
<1>12. NamesAreTaken'
  <2>1. \A a \in authorities : a.id \in Ids \ {r}
    BY <1>0, <1>6 DEF Committed, Row
  <2>2. \A d \in discoveries : d.id \in Ids \ {r}
    BY <1>0, <1>4 DEF Committed, Ids
  <2> QED
    BY <1>0, <1>1, <1>8, <2>1, <2>2 DEF NamesAreTaken
<1>13. ASSUME NEW s \in Requests, s # r PROVE Request(s)'
  <2>1. /\ Place(s) /\ Object(s) /\ Deletions(s) /\ FreeName(s)
        /\ op'[s] = op[s] /\ pc'[s] = pc[s] /\ before'[s] = before[s] /\ instance'[s] = instance[s]
    BY <1>0, <1>1, <1>3, <1>13 DEF Request
  <2>2. Known(op[s].id) => Known(op[s].id)'
    <3>1. Known(op[s].id) => op[s].id \in Ids
      BY DEF Known, Ids
    <3> QED
      BY <1>6, <2>1, <3>1
  <2>3. Place(s)'
    BY <1>1, <2>1, <2>2 DEF Place
  <2>4. \A row \in instance[s] : Holds(s, row) /\ row.id \in Ids
    BY <2>1 DEF Object, Holds, Row
  <2>5. Object(s)'
    <3>1. ASSUME NEW row \in instance[s] PROVE Holds(s, row)'
      BY <1>1, <1>6, <2>1, <2>4 DEF Holds
    <3> QED
      BY <2>1, <3>1 DEF Object
  <2>6. Deletions(s)'
    <3>1. ASSUME op[s].kind = "update", NEW row \in instance[s], NEW q \in before[s],
                 Wrote(q, "delete", row.id)'
          PROVE  Returned(q, row.id)'
      <4>1. q \in Requests
        BY <1>0 DEF Types
      <4>2. q # r /\ Wrote(q, "delete", row.id)
        BY <1>7, <3>1, <4>1
      <4>3. Returned(q, row.id)
        BY <2>1, <3>1, <4>2 DEF Deletions
      <4> QED
        BY <1>9, <2>4, <4>1, <4>2, <4>3
    <3> QED
      BY <2>1, <3>1 DEF Deletions
  <2>7. FreeName(s)'
    BY <1>1, <1>13, <2>1 DEF FreeName, Precedes
  <2> QED
    BY <2>3, <2>5, <2>6, <2>7 DEF Request
<1>14. Request(r)'
  <2>1. Place(r)'
    BY <1>1, <1>2, <1>3, <1>4 DEF Place
  <2>2. instance'[r] = {}
    BY <1>1, <1>4
  <2> QED
    BY <1>3, <2>1, <2>2 DEF Request, Object, Deletions, FreeName, Holding
<1> QED
  BY <1>5, <1>10, <1>11, <1>12, <1>13, <1>14 DEF IInv

LEMMA StutterKeeps == ASSUME IInv, UNCHANGED vars PROVE IInv'
<1>1. /\ UNCHANGED <<authorities, discoveries, op, pc, instance, answer, verified, before, revived>>
      /\ Types /\ Committed /\ DeletedStaysAway /\ NamesAreTaken
      /\ \A s \in Requests : Request(s)
  BY DEF IInv, vars
<1>2. Types'
  BY <1>1 DEF Types
<1>3. \A id : (Known(id)' <=> Known(id)) /\ NameOf(id)' = NameOf(id)
  BY <1>1 DEF Known, NameOf
<1>4. Committed'
  BY <1>1, <1>3 DEF Committed
<1>5. DeletedStaysAway' /\ NamesAreTaken'
  BY <1>1 DEF DeletedStaysAway, NamesAreTaken, Wrote, Overlapped, Precedes
<1>6. ASSUME NEW s \in Requests PROVE Request(s)'
  <2>1. Place(s) /\ Object(s) /\ Deletions(s) /\ FreeName(s)
    BY <1>1 DEF Request
  <2>2. Place(s)'
    BY <1>1, <1>3, <2>1 DEF Place
  <2>3. Object(s)'
    BY <1>1, <1>3, <2>1 DEF Object, Holds
  <2>4. Deletions(s)' /\ FreeName(s)'
    BY <1>1, <2>1 DEF Deletions, FreeName, Returned, Wrote, Overlapped, Precedes
  <2> QED
    BY <2>2, <2>3, <2>4 DEF Request
<1> QED
  BY <1>2, <1>4, <1>5, <1>6 DEF IInv

LEMMA NextIInv == IInv /\ [Next]_vars => IInv'
<1> SUFFICES ASSUME IInv, [Next]_vars PROVE IInv'
  OBVIOUS
<1>1. ASSUME NEW r \in Requests, Receive(r) PROVE IInv'
  BY <1>1, ReceiveKeeps
<1>2. ASSUME NEW r \in Requests, Create(r) PROVE IInv'
  BY <1>2, CreateKeeps
<1>3. ASSUME NEW r \in Requests, GetRow(r) PROVE IInv'
  BY <1>3, GetRowKeeps
<1>4. ASSUME NEW r \in Requests, Update(r) PROVE IInv'
  BY <1>4, UpdateKeeps
<1>5. ASSUME NEW r \in Requests, VerifyConnection(r) PROVE IInv'
  BY <1>5, VerifyConnectionKeeps
<1>6. ASSUME NEW r \in Requests, Save(r) PROVE IInv'
  BY <1>6, SaveKeeps
<1>7. ASSUME NEW r \in Requests, SaveInsert(r) PROVE IInv'
  BY <1>7, SaveInsertKeeps
<1>8. ASSUME NEW r \in Requests, Delete(r) PROVE IInv'
  BY <1>8, DeleteKeeps
<1>9. ASSUME NEW r \in Requests, CreateDiscovery(r) PROVE IInv'
  BY <1>9, CreateDiscoveryKeeps
<1>10. ASSUME NEW r \in Requests, SaveDiscovery(r) PROVE IInv'
  BY <1>10, SaveDiscoveryKeeps
<1>11. ASSUME NEW r \in Requests, Dies(r) PROVE IInv'
  BY <1>11, DiesKeeps
<1>12. CASE UNCHANGED vars
  BY <1>12, StutterKeeps
<1> QED
  BY <1>1, <1>2, <1>3, <1>4, <1>5, <1>6, <1>7, <1>8, <1>9, <1>10, <1>11, <1>12 DEF Next

-------------------------------------------------------------------------------
(* What holds in every state, whatever the number of requests and whatever   *)
(* clients leave out of them.                                                *)
THEOREM Invariant == Spec => []IInv
  BY InitIInv, NextIInv, PTL DEF Spec

LEMMA IInvTypes == IInv => TypeOK
<1> SUFFICES ASSUME IInv PROVE TypeOK
  OBVIOUS
<1>0. Types /\ Committed /\ \A r \in Requests : Request(r)
  BY DEF IInv
<1>1. \A row \in authorities \union UNION {instance[r] : r \in Requests} :
          row.id \in Ids /\ row.name \in Names /\ DOMAIN row.columns = Columns
  <2>1. \A row \in authorities : Row(row)
    BY <1>0 DEF Committed
  <2>2. \A r \in Requests : \A row \in instance[r] : Row(row)
    BY <1>0 DEF Request, Object, Holds
  <2> QED
    BY <2>1, <2>2 DEF Row
<1>2. ASSUME NEW r \in Requests PROVE Cardinality(instance[r]) <= 1
  <2>1. CASE instance[r] = {}
    BY <2>1, FS_EmptySet
  <2>2. CASE instance[r] # {}
    <3>1. PICK row \in instance[r] : TRUE
      BY <2>2
    <3>2. instance[r] = {row}
      BY <1>0, <3>1 DEF Request, Object
    <3>3. Cardinality({row}) = 1
      BY FS_Singleton
    <3> QED
      BY <3>2, <3>3
  <2> QED
    BY <2>1, <2>2
<1>3. DOMAIN instance = Requests
  BY <1>0 DEF Types
<1>4. /\ \A a, b \in authorities : a.id = b.id => a = b
      /\ \A d \in discoveries : d.id \in Requests /\ d.name \in Names
  BY <1>0 DEF Committed
<1>5. /\ op \in [Requests -> [kind : {"none", "create", "discover", "update", "delete"},
                              name : Names \union {NoValue}, id : Ids \union {NoValue}]]
      /\ answer \in [Requests -> {"none", "200", "204", "400", "404", "500"}]
      /\ before \in [Requests -> SUBSET Requests] /\ revived \subseteq Ids
  BY <1>0 DEF Types, Kinds, Answers
<1>6. pc \in [Requests -> {"idle", "begun", "update", "verify", "save", "insert",
                           "delete", "insertDiscovery", "done"}]
  <2>1. Places = {"idle", "begun", "update", "verify", "save", "insert",
                  "delete", "insertDiscovery", "done"}
    BY DEF Places, Holding
  <2> QED
    BY <1>0, <2>1 DEF Types
<1> QED
  BY <1>1, <1>2, <1>3, <1>4, <1>5, <1>6 DEF TypeOK

(* Every variable has its type, and id stays the key of authority_instance.  *)
THEOREM TypeCorrect == Spec => []TypeOK
  BY Invariant, IInvTypes, PTL

(* What sessions are made from was accepted by a connection test as a whole, *)
(* whatever updates were interleaved.                                        *)
THEOREM VerifiedRows == Spec => []RowsAreVerified
<1>1. IInv => RowsAreVerified
  BY DEF IInv, Committed, RowsAreVerified
<1> QED
  BY <1>1, Invariant, PTL

(* Two rows have one name only if their creators overlapped or an update has *)
(* brought one of them back.                                                 *)
THEOREM NamesHold == Spec => []NamesAreTaken
<1>1. IInv => NamesAreTaken
  BY DEF IInv
<1> QED
  BY <1>1, Invariant, PTL

(* A deleted authority is there again only by an update that overlapped the  *)
(* DELETE.                                                                   *)
THEOREM DeletionsLast == Spec => []DeletedStaysAway
<1>1. IInv => DeletedStaysAway
  BY DEF IInv
<1> QED
  BY <1>1, Invariant, PTL

-------------------------------------------------------------------------------
(* No update is undone by an earlier one: where the columns come from.       *)
(* One attribute of a list is read, or there is none. *)
LEMMA ValueRead ==
    ASSUME NEW name, NEW T, NEW attributes \in Seq(T)
    PROVE  \/ get_attribute_value(name, attributes) = NoValue
           \/ \E i \in DOMAIN attributes :
                  /\ attributes[i].name = name /\ attributes[i].content # <<>>
                  /\ get_attribute_value(name, attributes) = attributes[i].content[1]
<1> DEFINE positions == {i \in DOMAIN attributes :
                            attributes[i].name = name /\ attributes[i].content # <<>>}
           found == Elements(attributes, positions)
<1>1. positions \subseteq Nat /\ IsFiniteSet(positions)
  <2>1. DOMAIN attributes = 1..Len(attributes) /\ Len(attributes) \in Nat
    OBVIOUS
  <2>2. IsFiniteSet(1..Len(attributes)) /\ 1..Len(attributes) \subseteq Nat
    BY <2>1, FS_Interval
  <2> QED
    BY <2>1, <2>2, FS_Subset
<1>2. get_attribute_value_list(name, attributes)
        = IF found = <<>> THEN <<>> ELSE found[1].content
  BY DEF get_attribute_value_list
<1>3. CASE found = <<>>
  BY <1>2, <1>3 DEF get_attribute_value
<1>4. CASE found # <<>>
  <2> HIDE DEF positions
  <2>1. Cardinality(positions) \in Nat \ {0}
    BY <1>1, <1>4, ElementsFrom
  <2>2. \A k \in 1..Cardinality(positions) : \E i \in positions : found[k] = attributes[i]
    BY <1>1, ElementsFrom
  <2>3. 1 \in 1..Cardinality(positions)
    BY <2>1
  <2>4. PICK i \in positions : found[1] = attributes[i]
    BY <2>2, <2>3
  <2>5. get_attribute_value_list(name, attributes) = attributes[i].content
    BY <1>2, <1>4, <2>4
  <2>6. attributes[i].content # <<>>
    BY DEF positions
  <2>7. get_attribute_value(name, attributes) = attributes[i].content[1]
    BY <2>5, <2>6 DEF get_attribute_value
  <2> QED
    BY <2>6, <2>7 DEF positions
<1> QED
  BY <1>3, <1>4

(* Every merged attribute has the name and the content of a requested one. *)
LEMMA MergedContent ==
    ASSUME NEW T, NEW request \in Seq(T), NEW U, NEW original \in Seq(U),
           \A o \in DOMAIN original : {"name", "content"} \subseteq DOMAIN original[o]
    PROVE  LET merged == merge_attributes(request, original)
           IN  /\ \E V : merged \in Seq(V)
               /\ \A i \in DOMAIN merged : \E j \in DOMAIN request :
                      /\ merged[i].name = request[j].name
                      /\ merged[i].content = request[j].content
<1> DEFINE named(name) == {j \in DOMAIN request : request[j].name = name}
           requested(name) == Elements(request, named(name))
           positions == {o \in DOMAIN original : requested(original[o].name) # <<>>}
           kept == Elements(original, positions)
           value(i) == [kept[i] EXCEPT !.content = Last(requested(kept[i].name)).content]
           merged == merge_attributes(request, original)
<1>1. merged = [i \in DOMAIN kept |-> value(i)]
  BY DEF merge_attributes
<1>2. ASSUME NEW name
      PROVE  named(name) \subseteq Nat /\ IsFiniteSet(named(name))
  <2>1. DOMAIN request = 1..Len(request) /\ Len(request) \in Nat
    OBVIOUS
  <2>2. IsFiniteSet(1..Len(request)) /\ 1..Len(request) \subseteq Nat
    BY <2>1, FS_Interval
  <2> QED
    BY <2>1, <2>2, FS_Subset
<1>3. positions \subseteq Nat /\ IsFiniteSet(positions)
  <2>1. DOMAIN original = 1..Len(original) /\ Len(original) \in Nat
    OBVIOUS
  <2>2. IsFiniteSet(1..Len(original)) /\ 1..Len(original) \subseteq Nat
    BY <2>1, FS_Interval
  <2> HIDE DEF requested
  <2>3. positions \in SUBSET (1..Len(original))
    BY <2>1
  <2> QED
    BY <2>2, <2>3, FS_Subset
<1>4. ASSUME NEW name, requested(name) # <<>>
      PROVE  \E j \in DOMAIN request :
                 request[j].name = name /\ Last(requested(name)) = request[j]
  <2>0. named(name) \subseteq Nat /\ IsFiniteSet(named(name))
    BY <1>2
  <2> HIDE DEF named, positions
  <2>1. /\ Len(requested(name)) = Cardinality(named(name))
        /\ Cardinality(named(name)) \in Nat \ {0}
    BY <1>4, <2>0, ElementsFrom
  <2>2. \A k \in 1..Cardinality(named(name)) : \E j \in named(name) : requested(name)[k] = request[j]
    BY <2>0, ElementsFrom
  <2>3. Cardinality(named(name)) \in 1..Cardinality(named(name))
    BY <2>1
  <2>4. PICK j \in named(name) : requested(name)[Cardinality(named(name))] = request[j]
    BY <2>2, <2>3
  <2>5. Last(requested(name)) = request[j]
    BY <2>1, <2>4 DEF Last
  <2> QED
    BY <2>4, <2>5 DEF named
<1> HIDE DEF merged, requested
<1>5. /\ Cardinality(positions) \in Nat
      /\ DOMAIN kept = 1..Cardinality(positions)
      /\ \A k \in 1..Cardinality(positions) : \E o \in positions : kept[k] = original[o]
  BY <1>3, ElementsFrom
<1>6. ASSUME NEW i \in DOMAIN kept
      PROVE  \E j \in DOMAIN request :
                 value(i).name = request[j].name /\ value(i).content = request[j].content
  <2>1. PICK o \in positions : kept[i] = original[o]
    BY <1>5
  <2> HIDE DEF kept
  <2>2. PICK j \in DOMAIN request :
           request[j].name = kept[i].name /\ Last(requested(kept[i].name)) = request[j]
    BY <1>4, <2>1
  <2>3. {"name", "content"} \subseteq DOMAIN kept[i]
    BY <2>1
  <2>4. value(i).name = kept[i].name /\ value(i).content = Last(requested(kept[i].name)).content
    BY <2>3
  <2> QED
    BY <2>2, <2>4
<1> HIDE DEF kept, positions, value
<1>7. \E V : merged \in Seq(V)
  <2>1. PICK n \in Nat : DOMAIN kept = 1..n
    BY <1>5
  <2>2. PICK V : V = {value(i) : i \in 1..n}
    OBVIOUS
  <2>3. merged \in [1..n -> V]
    BY <1>1, <2>1, <2>2
  <2>4. merged \in Seq(V)
    BY <2>1, <2>3
  <2> QED
    BY <2>4
<1>8. \A i \in DOMAIN merged : \E j \in DOMAIN request :
          merged[i].name = request[j].name /\ merged[i].content = request[j].content
  BY <1>1, <1>6
<1> QED
  BY <1>7, <1>8 DEF merged

(* What a client sends has its own value but for the transport. *)
LEMMA RequestIsOwn ==
    ASSUME NEW r, NEW gap
    PROVE  /\ \E V : RequestAttributes(r, gap) \in Seq(V)
           /\ \A i \in DOMAIN RequestAttributes(r, gap) :
                  LET a == RequestAttributes(r, gap)[i]
                  IN  a.name # "authority_winrm_transport" => a.content = <<r>>
<1> DEFINE form == get_authority_attributes_list
           positions == {i \in DOMAIN form : form[i].type = "data" /\ form[i].name \notin gap}
           sent == Elements(form, positions)
           value(name) == IF name = "authority_winrm_transport" THEN "credssp" ELSE r
           attribute(i) == [name |-> sent[i].name, content |-> <<value(sent[i].name)>>]
<1>1. positions \subseteq Nat /\ IsFiniteSet(positions)
  <2>1. PICK n \in Nat : DOMAIN form = 1..n
    <3>1. DOMAIN form = 1..7
      BY DEF get_authority_attributes_list
    <3> QED
      BY <3>1
  <2>2. IsFiniteSet(1..n) /\ 1..n \subseteq Nat
    BY FS_Interval
  <2> QED
    BY <2>1, <2>2, FS_Subset
<1>2. RequestAttributes(r, gap) = [i \in DOMAIN sent |-> attribute(i)]
  BY DEF RequestAttributes
<1> HIDE DEF form, positions
<1>3. PICK n \in Nat : DOMAIN sent = 1..n
  BY <1>1, ElementsFrom
<1> HIDE DEF sent
<1>4. \A i \in DOMAIN sent : attribute(i).name # "authority_winrm_transport" => attribute(i).content = <<r>>
  OBVIOUS
<1> HIDE DEF attribute
<1>5. PICK V : V = {attribute(i) : i \in 1..n}
  OBVIOUS
<1>6. RequestAttributes(r, gap) \in [1..n -> V]
  BY <1>2, <1>3, <1>5
<1>7. RequestAttributes(r, gap) \in Seq(V)
  BY <1>3, <1>6
<1> QED
  BY <1>2, <1>4, <1>7

(* The columns that a request fills, but for the transport, hold its values. *)
DataColumns == Columns \ {"authority_winrm_transport"}
Own(r, row) == \A c \in DataColumns : row.columns[c] \in {r, NoValue}

LEMMA ColumnsAreOwn ==
    ASSUME NEW r, NEW gap, NEW c \in DataColumns
    PROVE  ColumnsOf(merge_attributes(RequestAttributes(r, gap),
                                      get_all_authority_attributes_list))[c] \in {r, NoValue}
<1> DEFINE request == RequestAttributes(r, gap)
           original == get_all_authority_attributes_list
           merged == merge_attributes(request, original)
<1>1. PICK T : request \in Seq(T)
  BY RequestIsOwn
<1>2. /\ \E U : original \in Seq(U)
      /\ \A o \in DOMAIN original : {"name", "content"} \subseteq DOMAIN original[o]
  <2> DEFINE Attribute(a) == {"name", "content"} \subseteq DOMAIN a
             all == {a \in {get_adcs_info_attribute, get_credential_type_attribute,
                       get_credential_attribute, get_server_attribute, get_use_https_attribute,
                       get_winrm_port_attribute, get_winrm_transport_attribute,
                       get_winrm_transport_config_attribute} : Attribute(a)}
  <2>1. /\ Attribute(get_adcs_info_attribute) /\ Attribute(get_credential_type_attribute)
        /\ Attribute(get_credential_attribute) /\ Attribute(get_server_attribute)
        /\ Attribute(get_use_https_attribute) /\ Attribute(get_winrm_port_attribute)
        /\ Attribute(get_winrm_transport_attribute)
        /\ Attribute(get_winrm_transport_config_attribute)
    BY DEF get_adcs_info_attribute, get_credential_type_attribute, get_credential_attribute,
           get_server_attribute, get_use_https_attribute, get_winrm_port_attribute,
           get_winrm_transport_attribute, get_winrm_transport_config_attribute,
           InfoAttribute, GroupAttribute, DataAttribute
  <2>2. get_authority_attributes_list \in Seq(all)
    BY <2>1 DEF get_authority_attributes_list
  <2>3. get_winrm_transport_config_attribute \in all
    BY <2>1
  <2> HIDE DEF all
  <2>4. original \in Seq(all)
    BY <2>2, <2>3, AppendProperties DEF get_all_authority_attributes_list
  <2> HIDE DEF original
  <2>5. \A o \in DOMAIN original : original[o] \in all
    BY <2>4
  <2> QED
    BY <2>4, <2>5 DEF all
<1>3. /\ \E V : merged \in Seq(V)
      /\ \A i \in DOMAIN merged : \E j \in DOMAIN request :
             merged[i].name = request[j].name /\ merged[i].content = request[j].content
  <2> HIDE DEF request, original
  <2> QED
    BY <1>1, <1>2, MergedContent
<1> HIDE DEF merged
<1>4. \/ get_attribute_value(c, merged) = NoValue
      \/ \E i \in DOMAIN merged : /\ merged[i].name = c
                                  /\ get_attribute_value(c, merged) = merged[i].content[1]
  BY <1>3, ValueRead
<1>5. c # "authority_winrm_transport" /\ c \in Columns
  BY DEF DataColumns
<1>6. get_attribute_value(c, merged) \in {r, NoValue}
  BY <1>3, <1>4, <1>5, RequestIsOwn
<1> QED
  BY <1>5, <1>6 DEF ColumnsOf, merged

(* Every column of a row is of the request that saved it last, which was not *)
(* answered before any whose update it has overwritten came in.              *)
HoldsOwn(r) == pc[r] \in {"verify", "save", "insert"} => \A row \in instance[r] : Own(r, row)

WriterInv == NoUpdateUndone /\ \A r \in Requests : HoldsOwn(r)

LEMMA InitWriterInv == Init => WriterInv
<1> SUFFICES ASSUME Init PROVE WriterInv
  OBVIOUS
<1>1. NoUpdateUndone
  BY DEF Init, NoUpdateUndone, Wrote
<1>2. \A r \in Requests : HoldsOwn(r)
  BY DEF Init, HoldsOwn
<1> QED
  BY <1>1, <1>2 DEF WriterInv

(* A step that commits no update. *)
LEMMA NoUpdateKeeps ==
    ASSUME IInv, WriterInv, authorities' \subseteq authorities,
           \A r \in Requests : \A id : Wrote(r, "update", id)' => Wrote(r, "update", id) /\ before'[r] = before[r],
           \A r \in Requests : HoldsOwn(r)'
    PROVE  WriterInv'
<1>1. NoUpdateUndone'
  <2> SUFFICES ASSUME NEW row \in authorities', NEW r \in Requests, Wrote(r, "update", row.id)',
                      NEW c \in Columns \ {"authority_winrm_transport"}, Precedes(row.columns[c], r)'
               PROVE  FALSE
    BY DEF NoUpdateUndone
  <2>1. Wrote(r, "update", row.id) /\ Precedes(row.columns[c], r)
    BY DEF Precedes
  <2> QED
    BY <2>1 DEF WriterInv, NoUpdateUndone
<1> QED
  BY <1>1 DEF WriterInv

(* A step that moves one request and commits no update. *)
LEMMA OneMoves ==
    ASSUME IInv, WriterInv, NEW r \in Requests, authorities' \subseteq authorities,
           UNCHANGED <<op, before>>,
           NEW place, pc' = [pc EXCEPT ![r] = place],
           NEW objects, instance' = [instance EXCEPT ![r] = objects],
           place \in {"verify", "save", "insert"} => \A row \in objects : Own(r, row),
           NEW status, answer' = [answer EXCEPT ![r] = status],
           op[r].kind = "update" => status \notin {"200", "204"}
    PROVE  WriterInv'
<1>0. Types
  BY DEF IInv
<1>1. ASSUME NEW s \in Requests, NEW id, Wrote(s, "update", id)'
      PROVE  Wrote(s, "update", id) /\ before'[s] = before[s]
  BY <1>0, <1>1 DEF Wrote, Types
<1>2. ASSUME NEW s \in Requests PROVE HoldsOwn(s)'
  <2>1. CASE s = r
    BY <1>0, <2>1 DEF HoldsOwn, Own, Types
  <2>2. CASE s # r
    BY <1>0, <2>2 DEF HoldsOwn, Own, Types, WriterInv
  <2> QED
    BY <2>1, <2>2
<1> QED
  BY <1>1, <1>2, NoUpdateKeeps

(* A step that commits what a request holds. *)
LEMMA CommitKeeps ==
    ASSUME IInv, WriterInv, NEW r \in Requests, pc[r] \in {"save", "insert"},
           NEW row \in instance[r], authorities' \subseteq authorities \union {row},
           \A old \in authorities' : old.id = row.id => old = row,
           UNCHANGED <<op, before>>, Answer(r, "200")
    PROVE  WriterInv'
<1>0. Types /\ Place(r) /\ Object(r)
  BY DEF IInv, Request
<1>1. \A s \in Requests : HoldsOwn(s)'
  BY <1>0 DEF Answer, HoldsOwn, Own, Types, WriterInv
<1>2. Own(r, row) /\ answer[r] = "none" /\ r \notin before[r]
  BY <1>0 DEF WriterInv, HoldsOwn, Place
<1>3. op[r].kind = "update" => op[r].id = row.id
  BY <1>0 DEF Object, Holds
<1>4. NoUpdateUndone'
  <2> SUFFICES ASSUME NEW new \in authorities', NEW s \in Requests, Wrote(s, "update", new.id)',
                      NEW c \in DataColumns, Precedes(new.columns[c], s)'
               PROVE  FALSE
    BY DEF NoUpdateUndone, DataColumns
  <2>1. CASE new = row
    <3>1. r \notin before[s]
      BY <1>2 DEF IInv, Request, Place
    <3>2. row.columns[c] \in {r, NoValue}
      BY <1>2 DEF Own
    <3>3. before[s] \subseteq Requests
      BY <1>0 DEF Types
    <3> QED
      BY <2>1, <3>1, <3>2, <3>3, InstancesAssumption DEF Precedes
  <2>2. CASE new # row
    <3>1. new \in authorities /\ new.id # row.id
      BY <2>2
    <3>2. Wrote(s, "update", new.id)
      BY <1>0, <1>3, <3>1 DEF Wrote, Answer, Types
    <3>3. Precedes(new.columns[c], s)
      BY DEF Precedes
    <3> QED
      BY <3>1, <3>2, <3>3 DEF WriterInv, NoUpdateUndone, DataColumns
  <2> QED
    BY <2>1, <2>2
<1> QED
  BY <1>1, <1>4 DEF WriterInv

LEMMA FilledIsOwn ==
    ASSUME NEW row, Row(row), NEW r, NEW gap
    PROVE  Own(r, Filled(row, r, gap))
<1> DEFINE merged == merge_attributes(RequestAttributes(r, gap), get_all_authority_attributes_list)
<1>1. Filled(row, r, gap) = [row EXCEPT !.attributes = merged, !.columns = ColumnsOf(merged)]
  BY DEF Filled
<1>2. \A c \in DataColumns : ColumnsOf(merged)[c] \in {r, NoValue}
  BY ColumnsAreOwn
<1> HIDE DEF merged
<1>3. Filled(row, r, gap).columns = ColumnsOf(merged)
  BY <1>1 DEF Row
<1> QED
  BY <1>2, <1>3 DEF Own

LEMMA ReceiveWriterInv == ASSUME IInv, WriterInv, NEW r \in Requests, Receive(r) PROVE WriterInv'
<1>1. /\ pc[r] = "idle" /\ pc' = [pc EXCEPT ![r] = "begun"]
      /\ before' = [before EXCEPT ![r] = {s \in Requests : answer[s] # "none"}]
      /\ UNCHANGED <<authorities, instance, answer>>
  BY DEF Receive
<1>2. \A s \in Requests : s # r => op'[s] = op[s] /\ before'[s] = before[s] /\ pc'[s] = pc[s]
  BY DEF Receive, IInv, Types
<1>3. Types /\ answer[r] = "none"
  BY <1>1 DEF IInv, Request, Place
<1>4. ASSUME NEW s \in Requests, NEW id, Wrote(s, "update", id)'
      PROVE  Wrote(s, "update", id) /\ before'[s] = before[s]
  BY <1>1, <1>2, <1>3, <1>4 DEF Wrote
<1>5. \A s \in Requests : HoldsOwn(s)'
  BY <1>1, <1>2, <1>3 DEF WriterInv, HoldsOwn, Own, Types
<1> QED
  BY <1>1, <1>4, <1>5, NoUpdateKeeps

LEMMA UpdateWriterInv == ASSUME IInv, WriterInv, NEW r \in Requests, Update(r) PROVE WriterInv'
<1>1. pc[r] = "update" /\ UNCHANGED <<authorities, op, before>>
  BY DEF Update
<1>2. Types /\ Object(r) /\ answer[r] = "none"
  BY <1>1 DEF IInv, Request, Place
<1>3. CASE Answer(r, "500")
  BY <1>1, <1>3, OneMoves DEF Answer
<1>4. ASSUME NEW gap \in Gaps, NEW row \in instance[r],
             Continue(r, "verify", {Filled(row, r, gap)})
      PROVE  WriterInv'
  <2>1. Own(r, Filled(row, r, gap))
    BY <1>2, FilledIsOwn DEF Object, Holds
  <2>2. answer' = [answer EXCEPT ![r] = "none"]
    BY <1>2, <1>4 DEF Continue, Types
  <2>3. PICK objects : objects = {Filled(row, r, gap)}
    OBVIOUS
  <2>4. Continue(r, "verify", objects) /\ \A new \in objects : Own(r, new)
    BY <1>4, <2>1, <2>3
  <2> QED
    BY <1>1, <2>2, <2>4, OneMoves DEF Continue
<1> QED
  BY <1>3, <1>4 DEF Update

LEMMA VerifyConnectionWriterInv == ASSUME IInv, WriterInv, NEW r \in Requests, VerifyConnection(r) PROVE WriterInv'
<1>1. pc[r] = "verify" /\ UNCHANGED <<authorities, op, before>>
  BY DEF VerifyConnection
<1>2. Types /\ answer[r] = "none" /\ \A row \in instance[r] : Own(r, row)
  BY <1>1 DEF IInv, Request, Place, WriterInv, HoldsOwn
<1>3. CASE \E status \in {"400", "500"} : Answer(r, status)
  <2>1. PICK status \in {"400", "500"} : Answer(r, status)
    BY <1>3
  <2> QED
    BY <1>1, <2>1, OneMoves DEF Answer
<1>4. CASE Continue(r, "save", instance[r])
  <2>1. answer' = [answer EXCEPT ![r] = "none"]
    BY <1>2, <1>4 DEF Continue, Types
  <2> QED
    BY <1>1, <1>2, <1>4, <2>1, OneMoves DEF Continue
<1> QED
  BY <1>3, <1>4 DEF VerifyConnection

LEMMA SaveWriterInv == ASSUME IInv, WriterInv, NEW r \in Requests, Save(r) PROVE WriterInv'
<1>1. pc[r] = "save" /\ UNCHANGED <<op, before>>
  BY DEF Save
<1>2. Types /\ answer[r] = "none" /\ \A row \in instance[r] : Own(r, row)
  BY <1>1 DEF IInv, Request, Place, WriterInv, HoldsOwn
<1>3. PICK row \in instance[r] :
         LET old == {o \in authorities : o.id = row.id}
         IN  \/ Answer(r, "500") /\ UNCHANGED authorities
             \/ Continue(r, "insert", {row}) /\ UNCHANGED authorities
             \/ Answer(r, "200") /\ authorities' = (authorities \ old) \union {row}
  BY DEF Save
<1>4. CASE Answer(r, "500") /\ UNCHANGED authorities
  BY <1>1, <1>4, OneMoves DEF Answer
<1>5. CASE Continue(r, "insert", {row}) /\ UNCHANGED authorities
  <2>1. answer' = [answer EXCEPT ![r] = "none"]
    BY <1>2, <1>5 DEF Continue, Types
  <2>2. PICK objects : objects = {row}
    OBVIOUS
  <2>3. /\ Continue(r, "insert", objects) /\ UNCHANGED authorities
        /\ \A new \in objects : Own(r, new)
    BY <1>2, <1>5, <2>2
  <2> QED
    BY <1>1, <2>1, <2>3, OneMoves DEF Continue
<1>6. CASE Answer(r, "200") /\ authorities' = (authorities \ {o \in authorities : o.id = row.id}) \union {row}
  BY <1>1, <1>6, CommitKeeps
<1> QED
  BY <1>3, <1>4, <1>5, <1>6

LEMMA SaveInsertWriterInv == ASSUME IInv, WriterInv, NEW r \in Requests, SaveInsert(r) PROVE WriterInv'
<1>1. pc[r] = "insert" /\ UNCHANGED <<op, before>>
  BY DEF SaveInsert
<1>2. PICK row \in instance[r] :
         \/ Answer(r, "500") /\ UNCHANGED authorities
         \/ /\ ~\E o \in authorities : o.id = row.id
            /\ Answer(r, "200") /\ authorities' = authorities \union {row}
  BY DEF SaveInsert
<1>3. CASE Answer(r, "500") /\ UNCHANGED authorities
  BY <1>1, <1>3, OneMoves DEF Answer
<1>4. CASE /\ ~\E o \in authorities : o.id = row.id
           /\ Answer(r, "200") /\ authorities' = authorities \union {row}
  BY <1>1, <1>4, CommitKeeps
<1> QED
  BY <1>2, <1>3, <1>4

(* The other steps: a request that begins, ends or dies without an update. *)
LEMMA OtherWriterInv ==
    ASSUME IInv, WriterInv, NEW r \in Requests,
           \/ Create(r) \/ GetRow(r) \/ Delete(r)
           \/ CreateDiscovery(r) \/ SaveDiscovery(r) \/ Dies(r)
    PROVE  WriterInv'
<1>0. Types /\ Place(r) /\ UNCHANGED <<op, before>> /\ authorities' \subseteq authorities
  BY DEF IInv, Request, Create, GetRow, Delete, CreateDiscovery, SaveDiscovery, Dies
<1>1. answer[r] = "none"
  BY <1>0 DEF Place, Create, GetRow, Delete, CreateDiscovery, SaveDiscovery, Dies
<1>2. CASE \E status : Answer(r, status) /\ (op[r].kind = "update" => status \notin {"200", "204"})
  <2>1. PICK status : Answer(r, status) /\ (op[r].kind = "update" => status \notin {"200", "204"})
    BY <1>2
  <2> QED
    BY <1>0, <2>1, OneMoves DEF Answer
<1>3. CASE \E next, objects : Continue(r, next, objects) /\ next \notin {"verify", "save", "insert"}
  <2>1. PICK next, objects : Continue(r, next, objects) /\ next \notin {"verify", "save", "insert"}
    BY <1>3
  <2>2. answer' = [answer EXCEPT ![r] = "none"]
    BY <1>0, <1>1, <2>1 DEF Continue, Types
  <2> QED
    BY <1>0, <2>1, <2>2, OneMoves DEF Continue
<1>4. CASE Create(r) \/ GetRow(r)
  <2>1. op[r].kind \in {"create", "update", "delete"}
    BY <1>4 DEF Create, GetRow
  <2>2. \/ \E status \in {"400", "404"} : Answer(r, status)
        \/ \E next \in {"update", "delete"} : \E objects : Continue(r, next, objects)
    BY <1>4, <2>1 DEF Create, GetRow
  <2> QED
    BY <2>2, <1>2, <1>3
<1>5. CASE Delete(r)
  BY <1>0, <1>5, <1>2 DEF Delete, Place
<1>6. CASE CreateDiscovery(r)
  BY <1>6, <1>2, <1>3 DEF CreateDiscovery
<1>7. CASE SaveDiscovery(r)
  BY <1>0, <1>7, <1>2 DEF SaveDiscovery, Place
<1>8. CASE Dies(r)
  <2>1. answer' = [answer EXCEPT ![r] = "none"]
    BY <1>0, <1>1, <1>8 DEF Dies, Types
  <2> QED
    BY <1>0, <2>1, <1>8, OneMoves DEF Dies
<1> QED
  BY <1>4, <1>5, <1>6, <1>7, <1>8

LEMMA NextWriterInv == IInv /\ WriterInv /\ [Next]_vars => WriterInv'
<1> SUFFICES ASSUME IInv, WriterInv, [Next]_vars PROVE WriterInv'
  OBVIOUS
<1>1. CASE UNCHANGED vars
  BY <1>1 DEF vars, WriterInv, NoUpdateUndone, HoldsOwn, Own, Wrote, Precedes
<1>2. ASSUME NEW r \in Requests,
             \/ Create(r) \/ GetRow(r) \/ Delete(r)
             \/ CreateDiscovery(r) \/ SaveDiscovery(r) \/ Dies(r)
      PROVE  WriterInv'
  BY <1>2, OtherWriterInv
<1>3. ASSUME NEW r \in Requests, Receive(r) PROVE WriterInv'
  BY <1>3, ReceiveWriterInv
<1>4. ASSUME NEW r \in Requests, Update(r) PROVE WriterInv'
  BY <1>4, UpdateWriterInv
<1>5. ASSUME NEW r \in Requests, VerifyConnection(r) PROVE WriterInv'
  BY <1>5, VerifyConnectionWriterInv
<1>6. ASSUME NEW r \in Requests, Save(r) PROVE WriterInv'
  BY <1>6, SaveWriterInv
<1>7. ASSUME NEW r \in Requests, SaveInsert(r) PROVE WriterInv'
  BY <1>7, SaveInsertWriterInv
<1> QED
  BY <1>1, <1>2, <1>3, <1>4, <1>5, <1>6, <1>7 DEF Next

(* An update that was answered is not undone, in any column, by a request    *)
(* that was answered before it came in.                                      *)
THEOREM UpdatesStand == Spec => []NoUpdateUndone
<1>1. WriterInv => NoUpdateUndone
  BY DEF WriterInv
<1> QED
  BY <1>1, Invariant, InitWriterInv, NextWriterInv, PTL DEF Spec
===============================================================================
