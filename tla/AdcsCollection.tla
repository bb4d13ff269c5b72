---------------------------- MODULE AdcsCollection ----------------------------
(***************************************************************************)
(* The collection of a discovery, over one WinRM session: for every CA,    *)
(* and every template if some are selected, the pages of a filtered dump   *)
(* of the CA's database until one is not full.  Meanwhile the CAs go on    *)
(* issuing, and their administrators approve pending requests and delete   *)
(* rows.  What is collected here is what CertificateStore's Collect finds; *)
(* no lock is held.  A selection of issue dates only takes rows out of all *)
(* queries alike and is left out.                                          *)
(***************************************************************************)
EXTENDS Naturals, FiniteSets, SequencesExt

CONSTANTS
    CAs,            \* the certification authorities of the domain
    Templates,      \* certificate templates
    PageSize,       \* ADCS_SEARCH_PAGE_SIZE
    MaxRows,        \* bound: rows the CA databases have together to begin with
    MaxPending,     \* bound: rows that are pending requests to begin with
    MaxChanges      \* bound: rows issued, approved or deleted meanwhile

ASSUME CollectionAssumption ==
    /\ IsFiniteSet(CAs) /\ IsFiniteSet(Templates)
    /\ PageSize \in Nat \ {0}
    /\ {MaxRows, MaxPending, MaxChanges} \subseteq Nat

VARIABLES
    database,       \* database[ca]: its rows
    pending,        \* the rows that are requests not yet approved
    nextRow,        \* nextRow[ca]: its next RowId
    pc,
    cas,            \* the CAs to ask, in order; cas[0] of the code is cas[1]
    templates,      \* the selected templates, in order; none means all
    caAt,           \* the positions of the two loops
    templateAt,
    page,
    collected,      \* total_certificates, as the pages it has been put together from
    before,         \* history: the rows there were when the dump began
    issued,         \* history: how many rows were issued meanwhile,
    approved,       \* ... were pending and approved meanwhile,
    purged          \* ... were deleted meanwhile

settings == <<cas, templates>>
position == <<caAt, templateAt, page>>
changes == <<issued, approved, purged>>
server == <<database, pending, nextRow, changes>>
vars == <<server, pc, settings, position, collected, before>>

Row == [ca : CAs, id : Nat \ {0}, template : Templates]

(* The lists a user can select: no entry twice. *)
Selections(S) ==
    {s \in UNION {[1..n -> S] : n \in 0..Cardinality(S)} : IsInjective(s)}

(* get_cas_script lists every CA, in some order. *)
Listings == {s \in Selections(CAs) : ToSet(s) = CAs}

-------------------------------------------------------------------------------
(* The filter of dump_certificates_script: certificates only, by their      *)
(* disposition; the template is optional.                                   *)
Wanted(row, t) == row \notin pending /\ (t = {} \/ row.template \in t)

(* Mutant: the template is not passed on. *)
QueryTemplate_None == {}

(* The template of the query at the current position, as a set of at most one. *)
QueryTemplate == IF templates = <<>> THEN {} ELSE {templates[templateAt]}

Listing(ca, t) == {row \in database[ca] : Wanted(row, t)}

(* Where a row is in a listing, which is in the order of the RowIds. *)
Number(row, listing) == Cardinality({other \in listing : other.id <= row.id})

(* Get-AdcsDatabaseRow -Page n -PageSize PageSize -Filter ... *)
DumpPage(ca, t, n) ==
    {row \in Listing(ca, t) :
        /\ (n - 1) * PageSize < Number(row, Listing(ca, t))
        /\ Number(row, Listing(ca, t)) <= n * PageSize}

(* Every row that the queries to these CAs ask for. *)
InScope(asked) == UNION {Listing(ca, ToSet(templates)) : ca \in ToSet(asked)}

-------------------------------------------------------------------------------
Init ==
    /\ \E issue \in [CAs -> UNION {[1..n -> Templates] : n \in 0..MaxRows}] :
        /\ SumFunction([ca \in CAs |-> Len(issue[ca])]) <= MaxRows
        /\ database = [ca \in CAs |->
                {[ca |-> ca, id |-> i, template |-> issue[ca][i]] : i \in DOMAIN issue[ca]}]
        /\ nextRow = [ca \in CAs |-> Len(issue[ca]) + 1]
    /\ pending \in {rows \in SUBSET UNION {database[ca] : ca \in CAs} :
                        Cardinality(rows) <= MaxPending}
    /\ cas \in Selections(CAs)
    /\ templates \in Selections(Templates)
    /\ pc = "selected"
    /\ caAt = 1 /\ templateAt = 1 /\ page = 1
    /\ collected = <<>>
    /\ before = {}
    /\ issued = 0 /\ approved = 0 /\ purged = 0

(* session.connect() *)
Connect ==
    /\ pc = "selected"
    /\ pc' = "listing"
    /\ UNCHANGED <<server, settings, position, collected, before>>

(* No CA selected: all that the domain has.  The loops begin. *)
ListCas ==
    /\ pc = "listing"
    /\ IF cas = <<>> THEN cas' \in Listings ELSE UNCHANGED cas
    /\ pc' = IF cas' = <<>> THEN "collected" ELSE "dumping"
    /\ before' = InScope(cas')
    /\ UNCHANGED <<server, templates, position, collected>>

(* Mutant: the loop over the templates runs once too often. *)
AfterPage_OffByOne(full) ==
    IF full THEN <<caAt, templateAt, page + 1>>
    ELSE IF templateAt <= Len(templates) THEN <<caAt, templateAt + 1, 1>>
    ELSE <<caAt + 1, 1, 1>>

(* Mutant: the page number is kept from one template or CA to the next. *)
AfterPage_PageKept(full) ==
    IF full THEN <<caAt, templateAt, page + 1>>
    ELSE IF templateAt < Len(templates) THEN <<caAt, templateAt + 1, page>>
    ELSE <<caAt + 1, 1, page>>

(* Mutant: the loop over the CAs does not advance. *)
AfterPage_SameCa(full) ==
    IF full THEN <<caAt, templateAt, page + 1>>
    ELSE IF templateAt < Len(templates) THEN <<caAt, templateAt + 1, 1>>
    ELSE <<caAt, 1, 1>>

(* Where the loops are after a page: a full page is followed by the next    *)
(* one, any other page ends this template, or this CA.                      *)
AfterPage(full) ==
    IF full THEN <<caAt, templateAt, page + 1>>
    ELSE IF templateAt < Len(templates) THEN <<caAt, templateAt + 1, 1>>
    ELSE <<caAt + 1, 1, 1>>

(* total_certificates.extend(certificates) *)
Extended(certificates) ==
    IF certificates = {} THEN collected ELSE Append(collected, certificates)

(* One run of the dump script. *)
Dump ==
    /\ pc = "dumping"
    /\ LET certificates == DumpPage(cas[caAt], QueryTemplate, page)
           after == AfterPage(Cardinality(certificates) = PageSize)
       IN  /\ collected' = Extended(certificates)
           /\ caAt' = after[1] /\ templateAt' = after[2] /\ page' = after[3]
    /\ pc' = IF caAt' \in DOMAIN cas THEN pc ELSE "collected"
    /\ UNCHANGED <<server, settings, before>>

(* session.disconnect() *)
Disconnect ==
    /\ pc = "collected"
    /\ pc' = "persisting"
    /\ UNCHANGED <<server, settings, position, collected, before>>

(* A command or the transport fails: the exception ends the collection. *)
Fails ==
    /\ pc \in {"selected", "listing", "dumping", "collected"}
    /\ pc' = "failed"
    /\ UNCHANGED <<server, settings, position, collected, before>>

-------------------------------------------------------------------------------
(* The CAs and their administrators. *)

MayChange == issued + approved + purged < MaxChanges

Issue(ca, t) ==
    /\ MayChange
    /\ issued' = issued + 1
    /\ database' = [database EXCEPT ![ca] =
                        @ \union {[ca |-> ca, id |-> nextRow[ca], template |-> t]}]
    /\ nextRow' = [nextRow EXCEPT ![ca] = @ + 1]
    /\ UNCHANGED <<pending, approved, purged, pc, settings, position, collected, before>>

(* A request gets its RowId when it is submitted, not when it is approved. *)
Approve(row) ==
    /\ MayChange
    /\ approved' = approved + 1
    /\ pending' = pending \ {row}
    /\ UNCHANGED <<database, nextRow, issued, purged, pc, settings, position, collected, before>>

Purge(ca, row) ==
    /\ MayChange
    /\ purged' = purged + 1
    /\ database' = [database EXCEPT ![ca] = @ \ {row}]
    /\ pending' = pending \ {row}
    /\ UNCHANGED <<nextRow, issued, approved, pc, settings, position, collected, before>>

Step == Connect \/ ListCas \/ Dump \/ Disconnect

Next ==
    \/ Step
    \/ Fails
    \/ \E ca \in CAs, t \in Templates : Issue(ca, t)
    \/ \E row \in pending : Approve(row)
    \/ \E ca \in CAs : \E row \in database[ca] : Purge(ca, row)

Spec == Init /\ [][Next]_vars

(* WinRM commands return, with a result or an error. *)
FairSpec == Spec /\ WF_vars(Step)

-------------------------------------------------------------------------------
(* Every variable has its type. *)
TypeOK ==
    /\ database \in [CAs -> SUBSET Row] /\ nextRow \in [CAs -> Nat \ {0}]
    /\ pending \in SUBSET Row
    /\ pc \in {"selected", "listing", "dumping", "collected", "persisting", "failed"}
    /\ cas \in Selections(CAs) /\ templates \in Selections(Templates)
    /\ pc = "dumping" => caAt \in DOMAIN cas /\ (templates = <<>> \/ templateAt \in DOMAIN templates)
    /\ {caAt, templateAt, page} \subseteq Nat \ {0}
    /\ collected \in Seq(SUBSET Row)
    /\ before \in SUBSET Row
    /\ {issued, approved, purged} \subseteq Nat /\ issued + approved + purged <= MaxChanges

(* A collection that goes on to persist holds every certificate that was in *)
(* scope when its dump began, whatever the CAs issued since and wherever a  *)
(* page ended; only rows deleted meanwhile can hide others from it.         *)
NoneLost ==
    pc \in {"collected", "persisting"} /\ purged = 0 => before \subseteq UNION ToSet(collected)

(* No row is collected twice, also when rows are issued or deleted between  *)
(* pages, and none that is out of scope.  Only a request approved meanwhile *)
(* comes into the listing before its end and pushes a row to the next page. *)
NoneTwice ==
    /\ approved = 0 => \A i, j \in DOMAIN collected :
                            i # j => collected[i] \intersect collected[j] = {}
    /\ \A row \in UNION ToSet(collected) :
        row.ca \in ToSet(cas) /\ (templates = <<>> \/ row.template \in ToSet(templates))

(* The loops end: the collection persists or fails. *)
CollectionEnds == <>(pc \in {"persisting", "failed"})

(* get_certificate_meta labels every certificate with the name of the first CA. *)
CaNameOf(row) == cas[1]

(* The metadata attribute "CA Name" of a certificate names the CA that      *)
(* issued it.                                                               *)
LabelsTrue == pc = "persisting" => \A row \in UNION ToSet(collected) : CaNameOf(row) = row.ca
===============================================================================
