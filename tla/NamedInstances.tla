---------------------------- MODULE NamedInstances ----------------------------
(***************************************************************************)
(* The rows that clients create by name: authority instances, which are    *)
(* created, updated and deleted over REST after a test of their connection *)
(* over WinRM, and discoveries, as far as their creation.  Every request   *)
(* is a transaction at READ COMMITTED, and nothing in the database makes a *)
(* name unique.                                                            *)
(***************************************************************************)
EXTENDS Attributes, FiniteSets

CONSTANTS
    Requests,       \* REST requests; a row has the identity of its creator
    Existing,       \* the creator of an authority that is there from the start
    Names,
    Gaps            \* attributes a client may leave out of a request

ASSUME InstancesAssumption ==
    /\ IsFiniteSet(Requests) /\ Existing \notin Requests
    /\ NoValue \notin Requests \union {Existing}
    /\ Names # {}

VARIABLES
    authorities,    \* committed rows of authority_instance
    discoveries,    \* committed rows of discovery_history: id and name
    op,             \* what a request does: operation, name, row
    pc,             \* where it is
    instance,       \* the AuthorityInstance object it holds, as a set
    answer,         \* the status it was answered with
    verified,       \* history: attribute columns a connection test accepted
    before,         \* history: requests answered when it came in
    revived         \* history: rows that were deleted and came back

vars == <<authorities, discoveries, op, pc, instance, answer, verified, before, revived>>

Ids == Requests \union {Existing}

(* The columns taken out of the attributes. *)
Columns == {"authority_credential", "authority_server_address",
            "authority_use_https", "authority_winrm_port", "authority_winrm_transport"}

(* Neither was answered before the other came in. *)
Precedes(r, s) == s \in Requests /\ r \in before[s] \union {Existing}
Overlapped(r, s) == ~Precedes(r, s) /\ ~Precedes(s, r)

(* The rows an answered request has changed. *)
Wrote(r, kind, id) == op[r].kind = kind /\ op[r].id = id /\ answer[r] \in {"200", "204"}

-------------------------------------------------------------------------------
(* What a client sends: its own value for every attribute of the form but   *)
(* for a gap.  The transport is the one value that the code looks at.       *)
RequestAttributes(r, gap) ==
    LET value(name) == IF name = "authority_winrm_transport" THEN "credssp" ELSE r
        form == get_authority_attributes_list
        sent == Elements(form, {i \in DOMAIN form :
                                   form[i].type = "data" /\ form[i].name \notin gap})
    IN  [i \in DOMAIN sent |-> [name |-> sent[i].name, content |-> <<value(sent[i].name)>>]]

ColumnsOf(attributes) == [c \in Columns |-> get_attribute_value(c, attributes)]

(* update_authority_instance up to the connection test. *)
Filled(row, r, gap) ==
    LET merged == merge_attributes(RequestAttributes(r, gap),
                                   get_all_authority_attributes_list)
    IN  [row EXCEPT !.attributes = merged, !.columns = ColumnsOf(merged)]

(* https and port have no representation for "" in their columns. *)
Storable(row) == row.columns["authority_use_https"] # NoValue
                 /\ row.columns["authority_winrm_port"] # NoValue

(* create_session_from_authority_instance reads the credential's attributes. *)
HasCredential(row) == row.columns["authority_credential"] # NoValue

NewRow(r, name) ==
    [id |-> r, name |-> name, attributes |-> <<>>, columns |-> [c \in Columns |-> NoValue]]

-------------------------------------------------------------------------------
Init ==
    /\ authorities \in {{}, {Filled(NewRow(Existing, n), Existing, {}) : n \in {CHOOSE n \in Names : TRUE}}}
    /\ discoveries = {}
    /\ op = [r \in Requests |-> [kind |-> "none", name |-> NoValue, id |-> NoValue]]
    /\ pc = [r \in Requests |-> "idle"]
    /\ instance = [r \in Requests |-> {}]
    /\ answer = [r \in Requests |-> "none"]
    /\ verified = {row.columns : row \in authorities}
    /\ before = [r \in Requests |-> {}]
    /\ revived = {}

(* The end of a request: COMMIT, or ROLLBACK after an exception. *)
Answer(r, status) ==
    /\ pc' = [pc EXCEPT ![r] = "done"]
    /\ answer' = [answer EXCEPT ![r] = status]
    /\ instance' = [instance EXCEPT ![r] = {}]

Continue(r, next, objects) ==
    /\ pc' = [pc EXCEPT ![r] = next]
    /\ instance' = [instance EXCEPT ![r] = objects]
    /\ UNCHANGED answer

(* A request arrives and its view's transaction begins. *)
Receive(r) ==
    /\ pc[r] = "idle"
    /\ \/ \E kind \in {"create", "discover"}, n \in Names :
              op' = [op EXCEPT ![r] = [kind |-> kind, name |-> n, id |-> NoValue]]
       \/ \E kind \in {"update", "delete"}, id \in Ids :
              op' = [op EXCEPT ![r] = [kind |-> kind, name |-> NoValue, id |-> id]]
    /\ pc' = [pc EXCEPT ![r] = "begun"]
    /\ before' = [before EXCEPT ![r] = {s \in Requests : answer[s] # "none"}]
    /\ UNCHANGED <<authorities, discoveries, instance, answer, verified, revived>>

(* Mutant: create_authority_instance does not look for the name. *)
Create_NoExists(r) ==
    /\ pc[r] = "begun" /\ op[r].kind = "create"
    /\ Continue(r, "update", {NewRow(r, op[r].name)})
    /\ UNCHANGED <<authorities, discoveries, op, verified, before, revived>>

(* create_authority_instance: exists() sees what is committed. *)
Create(r) ==
    /\ pc[r] = "begun" /\ op[r].kind = "create"
    /\ IF \E row \in authorities : row.name = op[r].name
       THEN Answer(r, "400")
       ELSE Continue(r, "update", {NewRow(r, op[r].name)})
    /\ UNCHANGED <<authorities, discoveries, op, verified, before, revived>>

(* Mutant: an update of a row that is not there makes one. *)
GetRow_OrNew(r) ==
    /\ pc[r] = "begun" /\ op[r].kind \in {"update", "delete"}
    /\ LET found == {row \in authorities : row.id = op[r].id}
       IN  IF found # {} THEN Continue(r, op[r].kind, found)
           ELSE IF op[r].kind = "delete" THEN Answer(r, "404")
           ELSE Continue(r, "update", {[NewRow(r, CHOOSE n \in Names : TRUE)
                                           EXCEPT !.id = op[r].id]})
    /\ UNCHANGED <<authorities, discoveries, op, verified, before, revived>>

(* AuthorityInstance.objects.get(uuid=uuid), of update and DELETE. *)
GetRow(r) ==
    /\ pc[r] = "begun" /\ op[r].kind \in {"update", "delete"}
    /\ LET found == {row \in authorities : row.id = op[r].id}
       IN  IF found = {} THEN Answer(r, "404") ELSE Continue(r, op[r].kind, found)
    /\ UNCHANGED <<authorities, discoveries, op, verified, before, revived>>

(* update_authority_instance: an unknown kind or transport, or no credential, *)
(* is a ValueError or an AttributeError.                                      *)
Update(r) ==
    /\ pc[r] = "update"
    /\ \/ \E gap \in Gaps, row \in instance[r] :
              LET filled == Filled(row, r, gap)
              IN  IF filled.columns["authority_winrm_transport"] \in Transports
                        /\ HasCredential(filled)
                  THEN Continue(r, "verify", {filled})
                  ELSE Answer(r, "500")
       \/ op[r].kind = "create" /\ Answer(r, "500")
    /\ UNCHANGED <<authorities, discoveries, op, verified, before, revived>>

(* Mutant: the result of the connection test is not looked at. *)
VerifyConnection_Ignored(r) ==
    /\ pc[r] = "verify"
    /\ Continue(r, "save", instance[r])
    /\ verified' \in {verified, verified \union {row.columns : row \in instance[r]}}
    /\ UNCHANGED <<authorities, discoveries, op, before, revived>>

(* verify_connection: the script ran, its exit code was not 0, or WinRM failed. *)
VerifyConnection(r) ==
    /\ pc[r] = "verify"
    /\ \/ /\ Continue(r, "save", instance[r])
          /\ verified' = verified \union {row.columns : row \in instance[r]}
       \/ /\ \E status \in {"400", "500"} : Answer(r, status)
          /\ UNCHANGED verified
    /\ UNCHANGED <<authorities, discoveries, op, before, revived>>

(* Mutant: save(update_fields=["attributes"]). *)
Save_AttributesOnly(r) ==
    /\ pc[r] = "save"
    /\ \E row \in instance[r] :
           LET old == {o \in authorities : o.id = row.id}
           IN  IF ~Storable(row)
               THEN Answer(r, "500") /\ UNCHANGED authorities
               ELSE IF op[r].kind = "update" /\ old = {}
               THEN Continue(r, "insert", {row}) /\ UNCHANGED authorities
               ELSE /\ Answer(r, "200")
                    /\ authorities' = (authorities \ old) \union
                            IF old = {} THEN {row}
                            ELSE {[o EXCEPT !.attributes = row.attributes] : o \in old}
    /\ UNCHANGED <<discoveries, op, verified, before, revived>>

(* save() of every column: INSERT for a new object, UPDATE for one that was  *)
(* read; an UPDATE that finds no row is followed by an INSERT.  COMMIT.      *)
Save(r) ==
    /\ pc[r] = "save"
    /\ \E row \in instance[r] :
           LET old == {o \in authorities : o.id = row.id}
           IN  IF ~Storable(row)
               THEN Answer(r, "500") /\ UNCHANGED authorities
               ELSE IF op[r].kind = "update" /\ old = {}
               THEN Continue(r, "insert", {row}) /\ UNCHANGED authorities
               ELSE Answer(r, "200") /\ authorities' = (authorities \ old) \union {row}
    /\ UNCHANGED <<discoveries, op, verified, before, revived>>

(* Mutant: the row is inserted though one with its key has come back. *)
SaveInsert_NoKey(r) ==
    /\ pc[r] = "insert"
    /\ \E row \in instance[r] :
           /\ Answer(r, "200")
           /\ authorities' = authorities \union {row}
           /\ revived' = revived \union {row.id}
    /\ UNCHANGED <<discoveries, op, verified, before>>

(* The INSERT after it: refused if the row has come back meanwhile. *)
SaveInsert(r) ==
    /\ pc[r] = "insert"
    /\ \E row \in instance[r] :
           IF \E o \in authorities : o.id = row.id
           THEN Answer(r, "500") /\ UNCHANGED <<authorities, revived>>
           ELSE /\ Answer(r, "200")
                /\ authorities' = authorities \union {row}
                /\ revived' = revived \union {row.id}
    /\ UNCHANGED <<discoveries, op, verified, before>>

(* delete(): of no row, if another DELETE was faster. *)
Delete(r) ==
    /\ pc[r] = "delete"
    /\ authorities' = {row \in authorities : row.id # op[r].id}
    /\ Answer(r, "204")
    /\ UNCHANGED <<discoveries, op, verified, before, revived>>

(* create_discovery_history: kind, then name; AlreadyExistException is a 500. *)
CreateDiscovery(r) ==
    /\ pc[r] = "begun" /\ op[r].kind = "discover"
    /\ \/ Answer(r, "500")
       \/ /\ \A d \in discoveries : d.name # op[r].name
          /\ Continue(r, "insertDiscovery", {})
    /\ UNCHANGED <<authorities, discoveries, op, verified, before, revived>>

SaveDiscovery(r) ==
    /\ pc[r] = "insertDiscovery"
    /\ discoveries' = discoveries \union {[id |-> r, name |-> op[r].name]}
    /\ Answer(r, "200")
    /\ UNCHANGED <<authorities, op, verified, before, revived>>

(* The worker dies or the connection to the database breaks: ROLLBACK. *)
Dies(r) ==
    /\ pc[r] \notin {"idle", "done"}
    /\ pc' = [pc EXCEPT ![r] = "done"]
    /\ instance' = [instance EXCEPT ![r] = {}]
    /\ UNCHANGED <<authorities, discoveries, op, answer, verified, before, revived>>

Next == \E r \in Requests :
    \/ Receive(r) \/ Create(r) \/ GetRow(r) \/ Update(r) \/ VerifyConnection(r)
    \/ Save(r) \/ SaveInsert(r) \/ Delete(r)
    \/ CreateDiscovery(r) \/ SaveDiscovery(r) \/ Dies(r)

Spec == Init /\ [][Next]_vars

-------------------------------------------------------------------------------
(* Every variable has its type, and id is a key of authority_instance. *)
TypeOK ==
    /\ \A a, b \in authorities : a.id = b.id => a = b
    /\ \A row \in authorities \union UNION {instance[r] : r \in Requests} :
           /\ row.id \in Ids /\ row.name \in Names
           /\ DOMAIN row.columns = Columns
    /\ \A d \in discoveries : d.id \in Requests /\ d.name \in Names
    /\ DOMAIN instance = Requests /\ \A r \in Requests : Cardinality(instance[r]) <= 1
    /\ op \in [Requests -> [kind : {"none", "create", "discover", "update", "delete"},
                            name : Names \union {NoValue}, id : Ids \union {NoValue}]]
    /\ pc \in [Requests -> {"idle", "begun", "update", "verify", "save", "insert",
                            "delete", "insertDiscovery", "done"}]
    /\ answer \in [Requests -> {"none", "200", "204", "400", "404", "500"}]
    /\ before \in [Requests -> SUBSET Requests]
    /\ revived \subseteq Ids

(* "Authority instance with name %s already exists": two authorities, or two *)
(* discoveries, have one name only if the requests that made them overlapped *)
(* or an update has brought one of them back.                                *)
NamesAreTaken ==
    /\ \A a, b \in authorities :
           a.name = b.name =>
               \/ a = b
               \/ a.id # b.id /\ (Overlapped(a.id, b.id) \/ revived \intersect {a.id, b.id} # {})
    /\ \A d, e \in discoveries : d.name = e.name => d = e \/ Overlapped(d.id, e.id)

(* The columns sessions are made from are those of one request as a whole,   *)
(* which a connection test has accepted, and agree with the attributes that  *)
(* are shown.                                                                *)
RowsAreVerified ==
    \A row \in authorities :
        row.columns \in verified /\ row.columns = ColumnsOf(row.attributes)

(* An update that was answered is not undone by one that was answered before *)
(* it came in, in any of its columns.  (One that overlaps it may overwrite   *)
(* it: the last save() has all columns.)                                     *)
NoUpdateUndone ==
    \A row \in authorities, r \in Requests : Wrote(r, "update", row.id) =>
        \A c \in Columns \ {"authority_winrm_transport"} : ~Precedes(row.columns[c], r)

(* A deleted authority stays away, but for an update that had read it before *)
(* the DELETE was answered and saves it afterwards.                          *)
DeletedStaysAway ==
    \A row \in authorities, r \in Requests : Wrote(r, "delete", row.id) =>
        \E s \in Requests : Wrote(s, "update", row.id) /\ Overlapped(r, s)
===============================================================================
