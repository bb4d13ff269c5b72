------------------------- MODULE AdcsCollection_proofs -------------------------
(***************************************************************************)
(* What a collection holds, for any number of CAs, templates, rows and     *)
(* changes meanwhile, and any page size.                                   *)
(***************************************************************************)
EXTENDS AdcsCollection, Counting_proofs, SequenceTheorems

-------------------------------------------------------------------------------
(* The numbers of the rows of a listing.  A finite set of rows that have     *)
(* different natural numbers for ids:                                       *)
IsListing(L) ==
    /\ IsFiniteSet(L) /\ L \subseteq Row
    /\ \A a, b \in L : a.id = b.id => a = b

LEMMA NumberType ==
    ASSUME NEW L, IsFiniteSet(L), NEW row
    PROVE  /\ Number(row, L) \in Nat /\ Number(row, L) <= Cardinality(L)
           /\ Cardinality(L) \in Nat
<1>1. PICK upTo : upTo = {other \in L : other.id <= row.id}
  OBVIOUS
<1>2. upTo \in SUBSET L
  BY <1>1
<1> QED
  BY <1>1, <1>2, FS_Subset, FS_CardinalityType DEF Number

LEMMA NumberGrows ==
    ASSUME NEW K, NEW L, IsFiniteSet(L), K \subseteq L, NEW row
    PROVE  Number(row, K) <= Number(row, L)
<1>1. PICK small : small = {other \in K : other.id <= row.id}
  OBVIOUS
<1>2. PICK large : large = {other \in L : other.id <= row.id}
  OBVIOUS
<1>3. small \in SUBSET large /\ large \in SUBSET L
  BY <1>1, <1>2
<1> QED
  BY <1>1, <1>2, <1>3, FS_Subset DEF Number

LEMMA NumberAscends ==
    ASSUME NEW L, IsListing(L), NEW a \in L, NEW b \in L, a.id < b.id
    PROVE  Number(a, L) < Number(b, L)
<1>1. PICK small : small = {other \in L : other.id <= a.id}
  OBVIOUS
<1>2. PICK large : large = {other \in L : other.id <= b.id}
  OBVIOUS
<1>3. small \in SUBSET large /\ large \in SUBSET L /\ b \in large /\ b \notin small
  BY <1>1, <1>2 DEF IsListing, Row
<1>4. IsFiniteSet(small) /\ IsFiniteSet(large)
  BY <1>3, FS_Subset DEF IsListing
<1>5. Cardinality(small) <= Cardinality(large) /\ Cardinality(small) # Cardinality(large)
  BY <1>3, <1>4, FS_Subset
<1>6. Cardinality(small) \in Nat /\ Cardinality(large) \in Nat
  BY <1>4, FS_CardinalityType
<1> QED
  BY <1>1, <1>2, <1>5, <1>6 DEF Number

LEMMA NumberPositive ==
    ASSUME NEW L, IsListing(L), NEW row \in L
    PROVE  Number(row, L) > 0
<1>1. PICK upTo : upTo = {other \in L : other.id <= row.id}
  OBVIOUS
<1>2. upTo \in SUBSET L /\ row \in upTo
  BY <1>1 DEF IsListing, Row
<1>3. IsFiniteSet(upTo) /\ Cardinality(upTo) \in Nat /\ Cardinality(upTo) # 0
  BY <1>2, FS_Subset, FS_CardinalityType, FS_EmptySet DEF IsListing
<1> QED
  BY <1>1, <1>3 DEF Number

(* A row appended to a listing leaves the numbers of the others. *)
LEMMA NumberAppend ==
    ASSUME NEW L, NEW new \in Row, NEW row \in Row, row.id < new.id
    PROVE  Number(row, L \union {new}) = Number(row, L)
<1>1. \A other \in L \union {new} : other.id <= row.id => other \in L
  BY DEF Row
<1>2. {other \in L \union {new} : other.id <= row.id} = {other \in L : other.id <= row.id}
  BY <1>1
<1> QED
  BY <1>2 DEF Number

(* If some row is beyond a page, the page is full. *)
LEMMA PageIsFull ==
    ASSUME NEW L, IsListing(L), NEW a \in Nat, NEW size \in Nat,
           NEW row \in L, a + size < Number(row, L)
    PROVE  Cardinality({r \in L : a < Number(r, L) /\ Number(r, L) <= a + size}) = size
<1>1. PICK P : P = {r \in L : a < Number(r, L) /\ Number(r, L) <= a + size}
  OBVIOUS
<1>2. PICK f : f = [r \in P |-> Number(r, L)]
  OBVIOUS
<1>3. IsFiniteSet(L) /\ Cardinality(L) \in Nat /\ \A r \in L : r.id \in Int /\ Number(r, L) \in Nat
  BY NumberType DEF IsListing, Row
<1>4. f \in Injection(P, (a + 1)..(a + size))
  <2>1. f \in [P -> (a + 1)..(a + size)]
    BY <1>1, <1>2, <1>3
  <2>2. ASSUME NEW r \in P, NEW s \in P, f[r] = f[s] PROVE r = s
    <3>1. r \in L /\ s \in L /\ Number(r, L) = Number(s, L)
      BY <1>1, <1>2, <2>2
    <3>2. ~(r.id < s.id) /\ ~(s.id < r.id)
      BY <1>3, <3>1, NumberAscends
    <3>3. r.id = s.id
      BY <1>3, <3>1, <3>2
    <3> QED
      BY <3>1, <3>3 DEF IsListing
  <2> QED
    BY <2>1, <2>2 DEF Injection, IsInjective
<1>5. ASSUME NEW k \in (a + 1)..(a + size)
      PROVE  \E r \in P : f[r] = k
  <2>1. PICK key : key = [r \in L |-> r.id]
    OBVIOUS
  <2>2. key \in [L -> Int] /\ \A r, s \in L : key[r] = key[s] => r = s
    BY <1>3, <2>1 DEF IsListing
  <2>3. k \in 1..Cardinality(L)
    BY <1>3, NumberType
  <2>4. PICK r \in L : RankIn(r, L, key) = k
    BY <1>3, <2>2, <2>3, Ranks
  <2>5. RankIn(r, L, key) = Number(r, L)
    <3>1. {y \in L : key[y] <= key[r]} = {y \in L : y.id <= r.id}
      BY <2>1
    <3> QED
      BY <3>1 DEF RankIn, Number
  <2> QED
    BY <1>1, <1>2, <2>4, <2>5
<1>6. f \in Surjection(P, (a + 1)..(a + size))
  BY <1>4, <1>5 DEF Injection, Surjection
<1>7. IsFiniteSet((a + 1)..(a + size)) /\ Cardinality((a + 1)..(a + size)) = size
  BY FS_Interval
<1>8. Cardinality(P) = Cardinality((a + 1)..(a + size))
  BY <1>4, <1>6, <1>7, FS_Injection
<1> QED
  BY <1>1, <1>7, <1>8

-------------------------------------------------------------------------------
(***************************************************************************)
(* The inductive invariant, in parts.                                      *)
(***************************************************************************)

(* The rows of a CA have different RowIds, older than the next one. *)
RowsOfCas ==
    \A ca \in CAs :
        /\ IsFiniteSet(database[ca])
        /\ \A row \in database[ca] : row.ca = ca /\ row.id < nextRow[ca]
        /\ \A a, b \in database[ca] : a.id = b.id => a = b

(* What the query of the current position would list now, *)
Current == Listing(cas[caAt], QueryTemplate)

(* and how many of its rows the pages before this one had. *)
Read == (page - 1) * PageSize

Items == UNION ToSet(collected)

LoopsAt ==
    /\ pc \in {"selected", "listing"} =>
            collected = <<>> /\ caAt = 1 /\ templateAt = 1 /\ page = 1
    /\ pc \in {"collected", "persisting"} => caAt > Len(cas)

(* What is collected comes from the queries up to the current one. *)
Reached ==
    \A row \in Items :
        /\ row.id < nextRow[row.ca]
        /\ \E i \in DOMAIN cas :
            /\ i <= caAt /\ row.ca = cas[i]
            /\ \/ templates = <<>>
               \/ \E k \in DOMAIN templates :
                    row.template = templates[k] /\ (i = caAt => k <= templateAt)

(* Of the current listing only rows of earlier pages are collected: without *)
(* approvals, numbers only fall.                                            *)
CollectedBehind ==
    approved = 0 /\ caAt \in DOMAIN cas =>
        \A row \in Items : row \in Current => Number(row, Current) <= Read

PagesDisjoint ==
    approved = 0 =>
        \A i, j \in DOMAIN collected : i # j => collected[i] \intersect collected[j] = {}

(* A row that no later page should have: its CA or its template is done, or *)
(* its number is on an earlier page.                                        *)
Passed(row) ==
    \E i \in DOMAIN cas :
        /\ row.ca = cas[i]
        /\ \/ i < caAt
           \/ i = caAt /\ \E k \in DOMAIN templates : k < templateAt /\ row.template = templates[k]
           \/ i = caAt /\ row \in Current /\ Number(row, Current) <= Read

(* Without deletions all such rows are collected: numbers only grow. *)
PassedCollected ==
    pc \in {"dumping", "collected", "persisting"} /\ purged = 0 =>
        /\ before \subseteq InScope(cas)
        /\ \A row \in before : Passed(row) => row \in Items

CInv ==
    /\ TypeOK /\ RowsOfCas /\ LoopsAt
    /\ Reached /\ CollectedBehind /\ PagesDisjoint /\ PassedCollected

-------------------------------------------------------------------------------
LEMMA SelectionIs ==
    ASSUME NEW S, IsFiniteSet(S), NEW s \in Selections(S)
    PROVE  /\ s \in Seq(S) /\ Len(s) \in Nat /\ DOMAIN s = 1..Len(s)
           /\ \A i, j \in DOMAIN s : s[i] = s[j] => i = j
<1>1. Cardinality(S) \in Nat
  BY FS_CardinalityType
<1>2. PICK n \in 0..Cardinality(S) : s \in [1..n -> S]
  BY DEF Selections
<1>3. IsInjective(s)
  BY DEF Selections
<1> QED
  BY <1>1, <1>2, <1>3 DEF IsInjective

LEMMA Settings ==
    ASSUME TypeOK
    PROVE  /\ cas \in Seq(CAs) /\ Len(cas) \in Nat /\ DOMAIN cas = 1..Len(cas)
           /\ \A i, j \in DOMAIN cas : cas[i] = cas[j] => i = j
           /\ templates \in Seq(Templates) /\ Len(templates) \in Nat
           /\ DOMAIN templates = 1..Len(templates)
           /\ \A i, j \in DOMAIN templates : templates[i] = templates[j] => i = j
BY SelectionIs, CollectionAssumption DEF TypeOK

(* What one dump does, by the branch of AfterPage it takes. *)
NextPage == caAt' = caAt /\ templateAt' = templateAt /\ page' = page + 1
NextTemplate == templateAt < Len(templates) /\ caAt' = caAt /\ templateAt' = templateAt + 1 /\ page' = 1
NextCa == ~(templateAt < Len(templates)) /\ caAt' = caAt + 1 /\ templateAt' = 1 /\ page' = 1

Answer == DumpPage(cas[caAt], QueryTemplate, page)

LEMMA DumpSteps ==
    ASSUME Dump
    PROVE  /\ pc = "dumping" /\ collected' = Extended(Answer)
           /\ UNCHANGED <<server, settings, before>>
           /\ pc' = IF caAt' \in DOMAIN cas THEN "dumping" ELSE "collected"
           /\ \/ Cardinality(Answer) = PageSize /\ NextPage
              \/ Cardinality(Answer) # PageSize /\ (NextTemplate \/ NextCa)
BY DEF Dump, AfterPage, NextPage, NextTemplate, NextCa, Answer, settings

LEMMA AnswerIs ==
    ASSUME page \in Nat
    PROVE  /\ Read \in Int /\ page * PageSize = Read + PageSize
           /\ Answer = {row \in Current : /\ Read < Number(row, Current)
                                         /\ Number(row, Current) <= Read + PageSize}
<1>1. Read \in Int /\ page * PageSize = Read + PageSize
  BY CollectionAssumption DEF Read
<1>2. Answer = {row \in Current : /\ Read < Number(row, Current)
                                /\ Number(row, Current) <= Read + PageSize}
  BY <1>1 DEF Answer, DumpPage, Current, Read
<1> QED
  BY <1>1, <1>2

LEMMA CurrentIs ==
    ASSUME TypeOK, RowsOfCas, caAt \in DOMAIN cas
    PROVE  /\ cas[caAt] \in CAs
           /\ IsListing(Current) /\ Current \subseteq database[cas[caAt]]
           /\ \A row \in Current : /\ row.ca = cas[caAt]
                                   /\ templates = <<>> \/ row.template = templates[templateAt]
<1>1. cas[caAt] \in CAs
  BY Settings DEF TypeOK
<1>2. Current \subseteq database[cas[caAt]]
  BY DEF Current, Listing
<1>3. IsFiniteSet(Current)
  BY <1>1, <1>2, FS_Subset DEF RowsOfCas
<1>4. IsListing(Current)
  BY <1>1, <1>2, <1>3 DEF IsListing, RowsOfCas, TypeOK
<1>5. \A row \in Current : /\ row.ca = cas[caAt]
                           /\ templates = <<>> \/ row.template = templates[templateAt]
  BY <1>1 DEF Current, Listing, Wanted, QueryTemplate, RowsOfCas
<1> QED
  BY <1>1, <1>2, <1>4, <1>5

LEMMA AppendItems ==
    ASSUME collected \in Seq(SUBSET Row), NEW P \in SUBSET Row, collected' = Extended(P)
    PROVE  Items' = Items \union P
<1>0. CASE P = {}
  BY <1>0 DEF Extended, Items
<1> SUFFICES ASSUME P # {} PROVE Items' = Items \union P
  BY <1>0
<1>1. /\ DOMAIN collected = 1..Len(collected) /\ Len(collected) \in Nat
      /\ DOMAIN collected' = 1..(Len(collected) + 1)
      /\ \A i \in DOMAIN collected : collected'[i] = collected[i]
      /\ collected'[Len(collected) + 1] = P
  BY DEF Extended
<1> QED
  BY <1>1 DEF Items, ToSet

LEMMA ListingParts ==
    ASSUME TypeOK, RowsOfCas, NEW ca \in CAs, NEW L \in SUBSET database[ca]
    PROVE  IsListing(L)
BY FS_Subset DEF IsListing, RowsOfCas, TypeOK

-------------------------------------------------------------------------------
LEMMA InitCInv == Init => CInv
<1> SUFFICES ASSUME Init PROVE CInv
  OBVIOUS
<1>1. PICK issue \in [CAs -> UNION {[1..n -> Templates] : n \in 0..MaxRows}] :
        /\ database = [ca \in CAs |->
                {[ca |-> ca, id |-> i, template |-> issue[ca][i]] : i \in DOMAIN issue[ca]}]
        /\ nextRow = [ca \in CAs |-> Len(issue[ca]) + 1]
  BY DEF Init
<1>2. ASSUME NEW ca \in CAs
      PROVE  \E n \in Nat : /\ issue[ca] \in [1..n -> Templates] /\ nextRow[ca] = n + 1
                            /\ database[ca] = {[ca |-> ca, id |-> i, template |-> issue[ca][i]] : i \in 1..n}
  <2>1. PICK n \in 0..MaxRows : issue[ca] \in [1..n -> Templates]
    <3>1. PICK X : X = UNION {[1..n -> Templates] : n \in 0..MaxRows}
      OBVIOUS
    <3>2. issue[ca] \in X
      BY <1>1, <3>1
    <3> QED
      BY <3>1, <3>2
  <2>2. n \in Nat /\ DOMAIN issue[ca] = 1..n /\ Len(issue[ca]) = n
    BY <2>1, CollectionAssumption
  <2> QED
    BY <1>1, <2>1, <2>2
<1>3. ASSUME NEW ca \in CAs PROVE IsFiniteSet(database[ca])
  <2>1. PICK n \in Nat : database[ca] = {[ca |-> ca, id |-> i, template |-> issue[ca][i]] : i \in 1..n}
    BY <1>2
  <2>2. PICK f : f = [i \in 1..n |-> [ca |-> ca, id |-> i, template |-> issue[ca][i]]]
    OBVIOUS
  <2>3. f \in Surjection(1..n, database[ca])
    BY <2>1, <2>2 DEF Surjection
  <2> QED
    BY <2>3, FS_Interval, FS_Surjection
<1>4. database \in [CAs -> SUBSET Row] /\ nextRow \in [CAs -> Nat \ {0}]
  <2>1. \A ca \in CAs : database[ca] \in SUBSET Row /\ nextRow[ca] \in Nat \ {0}
    BY <1>2 DEF Row
  <2> QED
    BY <1>1, <2>1
<1>5. RowsOfCas
  BY <1>2, <1>3 DEF RowsOfCas
<1>6. pending \in SUBSET Row
  BY <1>4 DEF Init
<1>7. issued + approved + purged <= MaxChanges /\ {issued, approved, purged} \subseteq Nat
  BY CollectionAssumption DEF Init
<1>8. TypeOK
  BY <1>4, <1>6, <1>7 DEF Init, TypeOK
<1>9. Items = {}
  BY DEF Init, Items, ToSet
<1> QED
  BY <1>5, <1>8, <1>9
  DEF Init, CInv, LoopsAt, Reached, CollectedBehind, PagesDisjoint, PassedCollected

-------------------------------------------------------------------------------
(* A change of the databases: without approvals it lowers the numbers of     *)
(* what is collected, without deletions it raises those of what was there.   *)
LEMMA ServerStep ==
    ASSUME CInv, UNCHANGED <<pc, settings, position, collected, before>>, TypeOK', RowsOfCas',
           \A ca \in CAs : nextRow'[ca] >= nextRow[ca],
           approved' = 0 => /\ approved = 0
                            /\ caAt \in DOMAIN cas =>
                                \A row \in Items : row \in Current' =>
                                    row \in Current /\ Number(row, Current') <= Number(row, Current),
           purged' = 0 => /\ purged = 0 /\ InScope(cas) \subseteq InScope(cas)'
                          /\ caAt \in DOMAIN cas =>
                                \A row \in InScope(cas) : row \in Current' =>
                                    row \in Current /\ Number(row, Current) <= Number(row, Current')
    PROVE  CInv'
<1>0. /\ TypeOK /\ RowsOfCas /\ LoopsAt /\ Reached /\ CollectedBehind /\ PagesDisjoint /\ PassedCollected
  BY DEF CInv
<1>1. /\ pc' = pc /\ cas' = cas /\ templates' = templates /\ caAt' = caAt /\ templateAt' = templateAt
      /\ page' = page /\ collected' = collected /\ before' = before
  BY DEF settings, position
<1>2. Items' = Items /\ Read' = Read /\ Items \subseteq Row
  BY <1>0, <1>1 DEF Items, Read, ToSet, TypeOK
<1>3. LoopsAt' /\ PagesDisjoint'
  BY <1>0, <1>1 DEF LoopsAt, PagesDisjoint
<1>4. Reached'
  <2>1. ASSUME NEW row \in Items PROVE row.id < nextRow'[row.ca]
    <3>1. row.ca \in CAs /\ row.id \in Nat /\ row.id < nextRow[row.ca]
      BY <1>0, <1>2 DEF Reached, Row
    <3>2. nextRow[row.ca] \in Nat /\ nextRow'[row.ca] \in Nat
      BY <1>0, <3>1 DEF TypeOK
    <3> QED
      BY <3>1, <3>2
  <2> QED
    BY <1>0, <1>1, <1>2, <2>1 DEF Reached
<1>5. Read \in Int
  BY <1>0, AnswerIs DEF TypeOK
<1>6. ASSUME caAt \in DOMAIN cas
      PROVE  \A row : Number(row, Current) \in Int /\ Number(row, Current') \in Int
  <2>1. IsFiniteSet(Current)
    BY <1>0, <1>6, CurrentIs DEF IsListing
  <2>2. cas[caAt] \in CAs /\ Current' \subseteq database'[cas[caAt]]
    BY <1>0, <1>1, <1>6, CurrentIs DEF Current, Listing
  <2>3. IsFiniteSet(Current')
    BY <2>2, FS_Subset DEF RowsOfCas
  <2> QED
    BY <2>1, <2>3, NumberType
<1>7. CollectedBehind'
  BY <1>0, <1>1, <1>2, <1>5, <1>6 DEF CollectedBehind
<1>8. PassedCollected'
  <2> SUFFICES ASSUME pc \in {"dumping", "collected", "persisting"}, purged' = 0
               PROVE  /\ before \subseteq InScope(cas)'
                      /\ \A row \in before : Passed(row)' => row \in Items
    BY <1>1, <1>2 DEF PassedCollected
  <2>1. /\ before \subseteq InScope(cas) /\ before \subseteq InScope(cas)'
        /\ \A row \in before : Passed(row) => row \in Items
    BY <1>0 DEF PassedCollected
  <2>2. ASSUME NEW row \in before, Passed(row)' PROVE Passed(row)
    <3>1. PICK i \in DOMAIN cas :
            /\ row.ca = cas[i]
            /\ \/ i < caAt
               \/ i = caAt /\ \E k \in DOMAIN templates : k < templateAt /\ row.template = templates[k]
               \/ i = caAt /\ row \in Current' /\ Number(row, Current') <= Read
      BY <1>1, <1>2, <2>2 DEF Passed
    <3>2. CASE i = caAt /\ row \in Current' /\ Number(row, Current') <= Read
      <4>1. row \in Current /\ Number(row, Current) <= Number(row, Current')
        BY <2>1, <3>2
      <4>2. Number(row, Current) <= Read
        BY <1>5, <1>6, <3>2, <4>1
      <4> QED
        BY <3>1, <3>2, <4>1, <4>2 DEF Passed
    <3> QED
      BY <3>1, <3>2 DEF Passed
  <2> QED
    BY <2>1, <2>2
<1> QED
  BY <1>3, <1>4, <1>7, <1>8 DEF CInv

LEMMA ServerTypes ==
    ASSUME TypeOK, UNCHANGED <<pc, settings, position, collected, before>>, MayChange,
           database' \in [CAs -> SUBSET Row], nextRow' \in [CAs -> Nat \ {0}], pending' \in SUBSET Row,
           \/ issued' = issued + 1 /\ approved' = approved /\ purged' = purged
           \/ issued' = issued /\ approved' = approved + 1 /\ purged' = purged
           \/ issued' = issued /\ approved' = approved /\ purged' = purged + 1
    PROVE  TypeOK'
<1>1. {issued', approved', purged'} \subseteq Nat /\ issued' + approved' + purged' <= MaxChanges
  BY CollectionAssumption DEF TypeOK, MayChange
<1> QED
  BY <1>1 DEF TypeOK, settings, position, Row

LEMMA IssueStep ==
    ASSUME CInv, NEW ca \in CAs, NEW t \in Templates, Issue(ca, t)
    PROVE  CInv'
<1>0. TypeOK /\ RowsOfCas /\ Reached
  BY DEF CInv
<1>1. PICK new : new = [ca |-> ca, id |-> nextRow[ca], template |-> t]
  OBVIOUS
<1>2. /\ MayChange /\ issued' = issued + 1 /\ approved' = approved /\ purged' = purged
      /\ database' = [database EXCEPT ![ca] = @ \union {new}]
      /\ nextRow' = [nextRow EXCEPT ![ca] = @ + 1]
      /\ pending' = pending
      /\ UNCHANGED <<pc, settings, position, collected, before>>
  BY <1>1 DEF Issue
<1>3. new \in Row /\ new.ca = ca /\ new.id = nextRow[ca]
  BY <1>0, <1>1 DEF TypeOK, Row
<1>4. TypeOK'
  <2>1. database' \in [CAs -> SUBSET Row] /\ nextRow' \in [CAs -> Nat \ {0}] /\ pending' \in SUBSET Row
    BY <1>0, <1>2, <1>3 DEF TypeOK
  <2> QED
    BY <1>0, <1>2, <2>1, ServerTypes
<1>5. RowsOfCas'
  <2>1. ASSUME NEW c \in CAs
        PROVE  /\ IsFiniteSet(database'[c])
               /\ \A row \in database'[c] : row.ca = c /\ row.id < nextRow'[c]
               /\ \A a, b \in database'[c] : a.id = b.id => a = b
    <3>1. CASE c # ca
      BY <1>0, <1>2, <3>1 DEF RowsOfCas, TypeOK
    <3>2. CASE c = ca
      <4>1. database'[c] = database[c] \union {new} /\ nextRow'[c] = nextRow[c] + 1 /\ nextRow[c] \in Nat
        BY <1>0, <1>2, <3>2 DEF TypeOK
      <4>2. IsFiniteSet(database'[c])
        <5>1. IsFiniteSet(database[c])
          BY <1>0 DEF RowsOfCas
        <5> QED
          BY <4>1, <5>1, FS_AddElement
      <4>3. \A row \in database[c] : row.ca = c /\ row.id < nextRow[c] /\ row.id \in Nat
        BY <1>0 DEF RowsOfCas, TypeOK, Row
      <4>4. \A row \in database'[c] : row.ca = c /\ row.id < nextRow'[c]
        BY <1>3, <3>2, <4>1, <4>3
      <4>5. \A a, b \in database'[c] : a.id = b.id => a = b
        BY <1>0, <1>3, <3>2, <4>1, <4>3 DEF RowsOfCas
      <4> QED
        BY <4>2, <4>4, <4>5
    <3> QED
      BY <3>1, <3>2
  <2> QED
    BY <2>1 DEF RowsOfCas
<1>6. ASSUME caAt \in DOMAIN cas, NEW row \in Row, row.id < nextRow[row.ca], row \in Current'
      PROVE  row \in Current /\ Number(row, Current') = Number(row, Current)
  <2>1. cas[caAt] \in CAs /\ \A r \in Current : r.ca = cas[caAt]
    BY <1>0, <1>6, CurrentIs
  <2>2. Current' = Current \/ (Current' = Current \union {new} /\ cas[caAt] = ca)
    BY <1>0, <1>2, <2>1 DEF Current, Listing, Wanted, QueryTemplate, settings, position, TypeOK
  <2>3. CASE Current' = Current
    BY <1>6, <2>3
  <2>4. CASE Current' = Current \union {new} /\ cas[caAt] = ca
    <3>1. row # new
      BY <1>0, <1>3, <1>6 DEF TypeOK
    <3>2. row \in Current /\ row.id < new.id
      BY <1>3, <1>6, <2>1, <2>4, <3>1
    <3> QED
      BY <1>3, <2>4, <3>2, NumberAppend
  <2> QED
    BY <2>2, <2>3, <2>4
<1>7. \A row \in Items : row \in Row /\ row.id < nextRow[row.ca]
  BY <1>0 DEF Reached, Items, ToSet, TypeOK
<1>8. \A row \in InScope(cas) : row \in Row /\ row.id < nextRow[row.ca]
  <2>1. \A c \in ToSet(cas) : c \in CAs
    BY <1>0, Settings DEF ToSet
  <2> QED
    BY <1>0, <2>1 DEF InScope, Listing, RowsOfCas, TypeOK
<1>9. InScope(cas) \subseteq InScope(cas)'
  <2>1. \A c \in ToSet(cas) : database[c] \subseteq database'[c]
    BY <1>0, <1>2, Settings DEF ToSet, TypeOK
  <2> QED
    BY <1>2, <2>1 DEF InScope, Listing, Wanted, settings
<1>10. \A c \in CAs : nextRow'[c] >= nextRow[c]
  BY <1>0, <1>2 DEF TypeOK
<1>11. caAt \in DOMAIN cas => \A row : Number(row, Current) \in Int
  BY <1>0, CurrentIs, NumberType DEF IsListing
<1> QED
  BY <1>2, <1>4, <1>5, <1>6, <1>7, <1>8, <1>9, <1>10, <1>11, ServerStep

LEMMA ApproveStep ==
    ASSUME CInv, NEW approvedRow \in pending, Approve(approvedRow)
    PROVE  CInv'
<1>0. TypeOK /\ RowsOfCas
  BY DEF CInv
<1>2. /\ MayChange /\ issued' = issued /\ approved' = approved + 1 /\ purged' = purged
      /\ database' = database /\ nextRow' = nextRow /\ pending' = pending \ {approvedRow}
      /\ UNCHANGED <<pc, settings, position, collected, before>>
  BY DEF Approve
<1>4. TypeOK'
  <2>1. database' \in [CAs -> SUBSET Row] /\ nextRow' \in [CAs -> Nat \ {0}] /\ pending' \in SUBSET Row
    BY <1>0, <1>2 DEF TypeOK
  <2> QED
    BY <1>0, <1>2, <2>1, ServerTypes
<1>5. RowsOfCas'
  BY <1>0, <1>2 DEF RowsOfCas
<1>6. approved' # 0
  BY <1>0, <1>2 DEF TypeOK
<1>7. InScope(cas) \subseteq InScope(cas)'
  BY <1>2 DEF InScope, Listing, Wanted, settings
<1>8. ASSUME caAt \in DOMAIN cas, NEW row \in InScope(cas), row \in Current'
      PROVE  row \in Current /\ Number(row, Current) <= Number(row, Current')
  <2>1. row \notin pending
    BY DEF InScope, Listing, Wanted
  <2>2. Current \subseteq Current' /\ row \in Current
    BY <1>2, <1>8, <2>1 DEF Current, Listing, Wanted, QueryTemplate, settings, position
  <2>3. cas[caAt] \in CAs /\ Current' \subseteq database'[cas[caAt]]
    BY <1>0, <1>2, <1>8, CurrentIs DEF Current, Listing, settings, position
  <2>4. IsFiniteSet(Current')
    BY <1>5, <2>3, FS_Subset DEF RowsOfCas
  <2> QED
    BY <2>2, <2>4, NumberGrows
<1>9. \A c \in CAs : nextRow'[c] >= nextRow[c]
  BY <1>0, <1>2 DEF TypeOK
<1> QED
  BY <1>2, <1>4, <1>5, <1>6, <1>7, <1>8, <1>9, ServerStep

LEMMA PurgeStep ==
    ASSUME CInv, NEW ca \in CAs, NEW purgedRow \in database[ca], Purge(ca, purgedRow)
    PROVE  CInv'
<1>0. TypeOK /\ RowsOfCas
  BY DEF CInv
<1>2. /\ MayChange /\ issued' = issued /\ approved' = approved /\ purged' = purged + 1
      /\ database' = [database EXCEPT ![ca] = @ \ {purgedRow}]
      /\ nextRow' = nextRow /\ pending' = pending \ {purgedRow}
      /\ UNCHANGED <<pc, settings, position, collected, before>>
  BY DEF Purge
<1>4. TypeOK'
  <2>1. database' \in [CAs -> SUBSET Row] /\ nextRow' \in [CAs -> Nat \ {0}] /\ pending' \in SUBSET Row
    BY <1>0, <1>2 DEF TypeOK
  <2> QED
    BY <1>0, <1>2, <2>1, ServerTypes
<1>5. RowsOfCas'
  BY <1>0, <1>2, FS_RemoveElement DEF RowsOfCas, TypeOK
<1>6. purged' # 0
  BY <1>0, <1>2 DEF TypeOK
<1>8. ASSUME caAt \in DOMAIN cas, NEW row \in Items, row \in Current'
      PROVE  row \in Current /\ Number(row, Current') <= Number(row, Current)
  <2>1. cas[caAt] \in CAs /\ IsListing(Current)
    BY <1>0, <1>8, CurrentIs
  <2>2. \A r \in database'[cas[caAt]] : r # purgedRow /\ r \in database[cas[caAt]]
    BY <1>0, <1>2, <2>1 DEF RowsOfCas, TypeOK
  <2>3. Current' \subseteq Current
    BY <1>2, <2>2 DEF Current, Listing, Wanted, QueryTemplate, settings, position
  <2> QED
    BY <1>8, <2>1, <2>3, NumberGrows DEF IsListing
<1>9. \A c \in CAs : nextRow'[c] >= nextRow[c]
  BY <1>0, <1>2 DEF TypeOK
<1> QED
  BY <1>2, <1>4, <1>5, <1>6, <1>8, <1>9, ServerStep

-------------------------------------------------------------------------------
(* Connecting, disconnecting and failing move nothing but the thread. *)
LEMMA ThreadStep ==
    ASSUME CInv, Connect \/ Disconnect \/ Fails \/ UNCHANGED vars
    PROVE  CInv'
<1>0. /\ TypeOK /\ RowsOfCas /\ LoopsAt /\ Reached /\ CollectedBehind /\ PagesDisjoint /\ PassedCollected
  BY DEF CInv
<1>1. /\ UNCHANGED <<server, settings, position, collected, before>>
      /\ \/ pc = "selected" /\ pc' = "listing"
         \/ pc = "collected" /\ pc' = "persisting"
         \/ pc' = "failed"
         \/ pc' = pc
  BY DEF Connect, Disconnect, Fails, vars
<1>2. /\ database' = database /\ pending' = pending /\ nextRow' = nextRow
      /\ issued' = issued /\ approved' = approved /\ purged' = purged
      /\ cas' = cas /\ templates' = templates /\ caAt' = caAt /\ templateAt' = templateAt
      /\ page' = page /\ collected' = collected /\ before' = before
  BY <1>1 DEF server, changes, settings, position
<1>3. TypeOK'
  BY <1>0, <1>1, <1>2 DEF TypeOK, Row
<1>4. RowsOfCas' /\ LoopsAt' /\ PagesDisjoint'
  BY <1>0, <1>1, <1>2 DEF RowsOfCas, LoopsAt, PagesDisjoint
<1>5. Items' = Items /\ Current' = Current /\ Read' = Read /\ InScope(cas)' = InScope(cas)
  BY <1>2 DEF Items, Current, Read, InScope, Listing, Wanted, QueryTemplate
<1>6. \A row : Number(row, Current)' = Number(row, Current)
  BY <1>5 DEF Number
<1>7. Reached' /\ CollectedBehind'
  BY <1>0, <1>2, <1>5, <1>6 DEF Reached, CollectedBehind
<1>8. PassedCollected'
  BY <1>0, <1>1, <1>2, <1>5, <1>6 DEF PassedCollected, Passed
<1> QED
  BY <1>3, <1>4, <1>7, <1>8 DEF CInv

LEMMA ListCasStep ==
    ASSUME CInv, ListCas
    PROVE  CInv'
<1>0. TypeOK /\ RowsOfCas /\ LoopsAt
  BY DEF CInv
<1>1. /\ pc = "listing" /\ cas' \in Selections(CAs) /\ before' = InScope(cas')
      /\ pc' = IF cas' = <<>> THEN "collected" ELSE "dumping"
      /\ UNCHANGED <<server, templates, position, collected>>
  BY <1>0 DEF ListCas, Listings, TypeOK
<1>2. /\ database' = database /\ pending' = pending /\ nextRow' = nextRow
      /\ issued' = issued /\ approved' = approved /\ purged' = purged
      /\ templates' = templates /\ caAt' = 1 /\ templateAt' = 1 /\ page' = 1 /\ collected' = <<>>
  BY <1>0, <1>1 DEF server, changes, position, LoopsAt
<1>3. /\ cas' \in Seq(CAs) /\ Len(cas') \in Nat /\ DOMAIN cas' = 1..Len(cas')
      /\ templates \in Seq(Templates) /\ DOMAIN templates = 1..Len(templates) /\ Len(templates) \in Nat
  BY <1>0, <1>1, SelectionIs, CollectionAssumption, Settings
<1>4. before' \in SUBSET Row /\ before' = InScope(cas)'
  <2>1. \A ca \in ToSet(cas') : database[ca] \subseteq Row
    BY <1>0, <1>3 DEF ToSet, TypeOK
  <2>2. InScope(cas') = InScope(cas)'
    BY <1>2 DEF InScope, Listing, Wanted
  <2> QED
    BY <1>1, <2>1, <2>2 DEF InScope, Listing
<1>5. TypeOK'
  BY <1>0, <1>1, <1>2, <1>3, <1>4 DEF TypeOK, Row
<1>6. RowsOfCas' /\ PagesDisjoint'
  BY <1>0, <1>2 DEF RowsOfCas, PagesDisjoint
<1>7. LoopsAt'
  BY <1>1, <1>2, <1>3 DEF LoopsAt
<1>8. Items' = {} /\ Read' = 0
  BY <1>2, CollectionAssumption DEF Items, ToSet, Read
<1>9. Reached' /\ CollectedBehind'
  BY <1>8 DEF Reached, CollectedBehind
<1>10. ASSUME NEW row, Passed(row)' PROVE FALSE
  <2>1. 1 \in DOMAIN cas' /\ row \in Current' /\ Number(row, Current') <= 0
    BY <1>2, <1>3, <1>8, <1>10 DEF Passed
  <2>2. cas'[1] \in CAs
    BY <1>3, <2>1
  <2>3. Current' \in SUBSET database[cas'[1]]
    BY <1>2 DEF Current, Listing
  <2>4. IsListing(Current')
    BY <1>0, <2>2, <2>3, ListingParts
  <2>5. Number(row, Current') > 0 /\ Number(row, Current') \in Nat
    BY <2>1, <2>4, NumberPositive, NumberType DEF IsListing
  <2> QED
    BY <2>1, <2>5
<1>11. PassedCollected'
  BY <1>4, <1>10 DEF PassedCollected
<1> QED
  BY <1>5, <1>6, <1>7, <1>9, <1>11 DEF CInv

-------------------------------------------------------------------------------
(* A dump, by parts of the invariant. *)
LEMMA DumpFacts ==
    ASSUME CInv, Dump
    PROVE  /\ TypeOK /\ RowsOfCas /\ pc = "dumping" /\ caAt \in DOMAIN cas
           /\ collected \in Seq(SUBSET Row) /\ collected' = Extended(Answer)
           /\ Answer \in SUBSET Row /\ Items' = Items \union Answer
           /\ database' = database /\ pending' = pending /\ nextRow' = nextRow
           /\ issued' = issued /\ approved' = approved /\ purged' = purged
           /\ cas' = cas /\ templates' = templates /\ before' = before
           /\ pc' = IF caAt' \in DOMAIN cas THEN "dumping" ELSE "collected"
           /\ Read \in Int /\ \A row : Number(row, Current) \in Int
           /\ \A row : row \in Answer <=> /\ row \in Current
                                          /\ Read < Number(row, Current)
                                          /\ Number(row, Current) <= Read + PageSize
<1>1. TypeOK /\ RowsOfCas /\ pc = "dumping" /\ caAt \in DOMAIN cas /\ collected \in Seq(SUBSET Row)
  BY DumpSteps DEF CInv, TypeOK
<1>2. /\ collected' = Extended(Answer)
      /\ pc' = IF caAt' \in DOMAIN cas THEN "dumping" ELSE "collected"
      /\ database' = database /\ pending' = pending /\ nextRow' = nextRow
      /\ issued' = issued /\ approved' = approved /\ purged' = purged
      /\ cas' = cas /\ templates' = templates /\ before' = before
  BY DumpSteps DEF server, changes, settings
<1>3. Read \in Int /\ \A row : Number(row, Current) \in Int
  BY <1>1, AnswerIs, CurrentIs, NumberType DEF TypeOK, IsListing
<1>4. \A row : row \in Answer <=> /\ row \in Current
                                  /\ Read < Number(row, Current)
                                  /\ Number(row, Current) <= Read + PageSize
  <2>1. Answer = {row \in Current : /\ Read < Number(row, Current)
                                   /\ Number(row, Current) <= Read + PageSize}
    BY <1>1, AnswerIs DEF TypeOK
  <2> QED
    BY <2>1
<1>5. Answer \in SUBSET Row
  BY <1>1, <1>4, CurrentIs DEF IsListing
<1>6. Items' = Items \union Answer
  BY <1>1, <1>2, <1>5, AppendItems
<1> QED
  BY <1>1, <1>2, <1>3, <1>4, <1>5, <1>6

LEMMA DumpLoops ==
    ASSUME CInv, Dump
    PROVE  TypeOK' /\ RowsOfCas' /\ LoopsAt'
<1>1. /\ TypeOK /\ RowsOfCas /\ pc = "dumping" /\ caAt \in DOMAIN cas
      /\ collected \in Seq(SUBSET Row) /\ collected' = Extended(Answer) /\ Answer \in SUBSET Row
      /\ database' = database /\ pending' = pending /\ nextRow' = nextRow
      /\ issued' = issued /\ approved' = approved /\ purged' = purged
      /\ cas' = cas /\ templates' = templates /\ before' = before
      /\ pc' = IF caAt' \in DOMAIN cas THEN "dumping" ELSE "collected"
  BY DumpFacts
<1>2. NextPage \/ NextTemplate \/ NextCa
  BY DumpSteps
<1>3. /\ DOMAIN cas = 1..Len(cas) /\ Len(cas) \in Nat
      /\ DOMAIN templates = 1..Len(templates) /\ Len(templates) \in Nat /\ (templates # <<>> => Len(templates) > 0)
  BY <1>1, Settings
<1>4. {caAt', templateAt', page'} \subseteq Nat \ {0}
  BY <1>1, <1>2 DEF NextPage, NextTemplate, NextCa, TypeOK
<1>5. caAt' \in DOMAIN cas => templates = <<>> \/ templateAt' \in DOMAIN templates
  BY <1>1, <1>2, <1>3 DEF NextPage, NextTemplate, NextCa, TypeOK
<1>6. collected' \in Seq(SUBSET Row)
  BY <1>1 DEF Extended
<1>7. TypeOK'
  BY <1>1, <1>4, <1>5, <1>6 DEF TypeOK, Row
<1>8. RowsOfCas'
  BY <1>1 DEF RowsOfCas
<1>9. LoopsAt'
  BY <1>1, <1>3, <1>4 DEF LoopsAt
<1> QED
  BY <1>7, <1>8, <1>9

(* The queries that what is collected came from, before the loops move on. *)
LEMMA DumpOrigins ==
    ASSUME CInv, Dump, NEW row \in Items'
    PROVE  /\ row.id < nextRow[row.ca]
           /\ \E i \in DOMAIN cas :
                /\ i <= caAt /\ row.ca = cas[i]
                /\ \/ templates = <<>>
                   \/ \E k \in DOMAIN templates :
                        row.template = templates[k] /\ (i = caAt => k <= templateAt)
<1>1. /\ TypeOK /\ RowsOfCas /\ pc = "dumping" /\ caAt \in DOMAIN cas
      /\ Items' = Items \union Answer /\ \A r \in Answer : r \in Current
  BY DumpFacts
<1>2. CASE row \in Items
  BY <1>2 DEF CInv, Reached
<1>3. CASE row \in Answer
  <2>1. /\ row \in Current /\ row \in database[cas[caAt]] /\ cas[caAt] \in CAs /\ row.ca = cas[caAt]
        /\ templates = <<>> \/ row.template = templates[templateAt]
    BY <1>1, <1>3, CurrentIs
  <2>2. caAt \in Nat /\ templateAt \in Nat /\ (templates = <<>> \/ templateAt \in DOMAIN templates)
    BY <1>1 DEF TypeOK
  <2>3. row.id < nextRow[row.ca]
    BY <1>1, <2>1 DEF RowsOfCas
  <2> QED
    BY <1>1, <2>1, <2>2, <2>3
<1> QED
  BY <1>1, <1>2, <1>3

LEMMA DumpReached ==
    ASSUME CInv, Dump
    PROVE  Reached'
<1>1. /\ TypeOK /\ cas' = cas /\ templates' = templates /\ nextRow' = nextRow
      /\ caAt \in Nat /\ templateAt \in Nat
  BY DumpFacts DEF TypeOK
<1>2. (caAt' = caAt /\ templateAt' >= templateAt) \/ caAt' = caAt + 1
  BY <1>1, DumpSteps DEF NextPage, NextTemplate, NextCa
<1>3. \A i \in DOMAIN cas : i \in Nat
  BY <1>1, Settings
<1>4. \A k \in DOMAIN templates : k \in Nat
  BY <1>1, Settings
<1>5. templateAt' \in Nat
  BY DumpLoops DEF TypeOK
<1>6. ASSUME NEW row \in Items'
      PROVE  /\ row.id < nextRow'[row.ca]
             /\ \E i \in DOMAIN cas' :
                /\ i <= caAt' /\ row.ca = cas'[i]
                /\ \/ templates' = <<>>
                   \/ \E k \in DOMAIN templates' :
                        row.template = templates'[k] /\ (i = caAt' => k <= templateAt')
  <2>1. PICK i \in DOMAIN cas :
                /\ i <= caAt /\ row.ca = cas[i]
                /\ \/ templates = <<>>
                   \/ \E k \in DOMAIN templates :
                        row.template = templates[k] /\ (i = caAt => k <= templateAt)
    BY DumpOrigins
  <2>2. row.id < nextRow'[row.ca]
    BY <1>1, DumpOrigins
  <2>3. i <= caAt' /\ row.ca = cas'[i]
    BY <1>1, <1>2, <1>3, <2>1
  <2>4. CASE templates = <<>>
    BY <1>1, <2>2, <2>3, <2>4
  <2>5. ASSUME NEW k \in DOMAIN templates, row.template = templates[k], i = caAt => k <= templateAt
        PROVE  i = caAt' => k <= templateAt'
    BY <1>1, <1>2, <1>3, <1>4, <1>5, <2>1, <2>5
  <2> QED
    BY <1>1, <2>1, <2>2, <2>3, <2>4, <2>5
<1> QED
  BY <1>6 DEF Reached

LEMMA DumpBehind ==
    ASSUME CInv, Dump
    PROVE  CollectedBehind'
<1>1. /\ TypeOK /\ RowsOfCas /\ caAt \in DOMAIN cas
      /\ Items' = Items \union Answer
      /\ database' = database /\ pending' = pending /\ approved' = approved
      /\ cas' = cas /\ templates' = templates
      /\ Read \in Int /\ \A row : Number(row, Current) \in Int
      /\ \A row \in Answer : Number(row, Current) <= Read + PageSize
  BY DumpFacts
<1>2. caAt \in Nat /\ templateAt \in Nat /\ page \in Nat /\ PageSize \in Nat
  BY <1>1, CollectionAssumption DEF TypeOK
<1>3. SUFFICES ASSUME approved = 0, caAt' \in DOMAIN cas, NEW row \in Items', row \in Current'
               PROVE  Number(row, Current') <= Read'
  BY <1>1 DEF CollectedBehind
<1>4. CASE NextPage
  <2>1. Current' = Current
    BY <1>1, <1>4 DEF NextPage, Current, Listing, Wanted, QueryTemplate
  <2>2. Read' = Read + PageSize
    BY <1>2, <1>4, AnswerIs DEF NextPage, Read
  <2>3. row \in Items => Number(row, Current) <= Read
    BY <1>1, <1>3, <2>1 DEF CInv, CollectedBehind
  <2> QED
    BY <1>1, <1>2, <1>3, <2>1, <2>2, <2>3
<1>5. CASE NextTemplate \/ NextCa
  <2>1. PICK i \in DOMAIN cas :
                /\ i <= caAt /\ row.ca = cas[i]
                /\ \/ templates = <<>>
                   \/ \E k \in DOMAIN templates :
                        row.template = templates[k] /\ (i = caAt => k <= templateAt)
    BY <1>3, DumpOrigins
  <2>2. cas[caAt'] \in CAs /\ row \in database[cas[caAt']]
    BY <1>1, <1>3, Settings DEF Current, Listing
  <2>3. row.ca = cas[caAt']
    BY <1>1, <2>2 DEF RowsOfCas
  <2>4. i = caAt'
    BY <1>1, <1>3, <2>1, <2>3, Settings
  <2>5. CASE NextCa
    BY <1>2, <2>1, <2>4, <2>5 DEF NextCa
  <2>6. CASE NextTemplate
    <3>1. /\ caAt' = caAt /\ templateAt' = templateAt + 1 /\ templateAt < Len(templates)
          /\ templates # <<>> /\ templateAt + 1 \in DOMAIN templates
      BY <1>1, <1>2, <2>6, Settings DEF NextTemplate
    <3>2. row.template = templates[templateAt + 1]
      BY <1>1, <1>3, <3>1 DEF Current, Listing, Wanted, QueryTemplate
    <3>3. PICK k \in DOMAIN templates : row.template = templates[k] /\ k <= templateAt
      BY <2>1, <2>4, <3>1
    <3>4. k = templateAt + 1
      BY <1>1, <3>1, <3>2, <3>3, Settings
    <3> QED
      BY <1>2, <3>3, <3>4
  <2> QED
    BY <1>5, <2>5, <2>6
<1> QED
  BY <1>4, <1>5, DumpSteps

LEMMA DumpDisjoint ==
    ASSUME CInv, Dump
    PROVE  PagesDisjoint'
<1>1. /\ TypeOK /\ caAt \in DOMAIN cas /\ approved' = approved
      /\ collected \in Seq(SUBSET Row) /\ collected' = Extended(Answer)
      /\ Read \in Int /\ \A row : Number(row, Current) \in Int
      /\ \A row \in Answer : row \in Current /\ Read < Number(row, Current)
  BY DumpFacts
<1>2. SUFFICES ASSUME approved = 0
               PROVE  \A i, j \in DOMAIN collected' : i # j => collected'[i] \intersect collected'[j] = {}
  BY <1>1 DEF PagesDisjoint
<1>0. CASE Answer = {}
  BY <1>0, <1>1, <1>2 DEF Extended, CInv, PagesDisjoint
<1> SUFFICES ASSUME Answer # {}
             PROVE  \A i, j \in DOMAIN collected' : i # j => collected'[i] \intersect collected'[j] = {}
  BY <1>0
<1>3. Items \intersect Answer = {}
  BY <1>1, <1>2 DEF CInv, CollectedBehind
<1>4. \A i, j \in DOMAIN collected : i # j => collected[i] \intersect collected[j] = {}
  BY <1>2 DEF CInv, PagesDisjoint
<1>5. \A i \in DOMAIN collected : collected[i] \intersect Answer = {}
  BY <1>3 DEF Items, ToSet
<1>6. /\ DOMAIN collected = 1..Len(collected) /\ Len(collected) \in Nat
      /\ DOMAIN collected' = 1..(Len(collected) + 1)
      /\ \A i \in DOMAIN collected : collected'[i] = collected[i]
      /\ collected'[Len(collected) + 1] = Answer
  BY <1>1 DEF Extended
<1>7. ASSUME NEW i \in DOMAIN collected', NEW j \in DOMAIN collected', i # j
      PROVE  collected'[i] \intersect collected'[j] = {}
  <2>1. CASE i \in DOMAIN collected /\ j \in DOMAIN collected
    BY <1>4, <1>6, <1>7, <2>1
  <2>2. CASE i = Len(collected) + 1 /\ j \in DOMAIN collected
    BY <1>5, <1>6, <2>2
  <2>3. CASE j = Len(collected) + 1 /\ i \in DOMAIN collected
    BY <1>5, <1>6, <2>3
  <2> QED
    BY <1>6, <1>7, <2>1, <2>2, <2>3
<1> QED
  BY <1>7

(* What becomes passed by a dump is on its page, or was passed before it. *)
LEMMA DumpPasses ==
    ASSUME CInv, Dump, NEW row \in InScope(cas), Passed(row)'
    PROVE  Passed(row) \/ row \in Answer
<1>1. /\ TypeOK /\ RowsOfCas /\ caAt \in DOMAIN cas
      /\ database' = database /\ pending' = pending
      /\ cas' = cas /\ templates' = templates
      /\ Read \in Int /\ \A r : Number(r, Current) \in Int
      /\ \A r : r \in Answer <=> /\ r \in Current
                                 /\ Read < Number(r, Current)
                                 /\ Number(r, Current) <= Read + PageSize
  BY DumpFacts
<1>2. caAt \in Nat /\ templateAt \in Nat \ {0} /\ page \in Nat \ {0} /\ PageSize \in Nat \ {0}
  BY <1>1, CollectionAssumption DEF TypeOK
<1>3. PICK i \in DOMAIN cas :
        /\ row.ca = cas[i]
        /\ \/ i < caAt'
           \/ i = caAt' /\ \E k \in DOMAIN templates : k < templateAt' /\ row.template = templates[k]
           \/ i = caAt' /\ row \in Current' /\ Number(row, Current') <= Read'
  BY <1>1 DEF Passed
<1>4. i \in Nat /\ \A k \in DOMAIN templates : k \in Nat
  BY <1>1, Settings
<1>5. /\ row \in database[cas[i]] /\ row \notin pending
      /\ templates = <<>> \/ \E k \in DOMAIN templates : row.template = templates[k]
  <2>1. PICK ca \in ToSet(cas) : row \in Listing(ca, ToSet(templates))
    BY DEF InScope
  <2>2. ca \in CAs
    BY <1>1, <2>1, Settings DEF ToSet
  <2>3. row.ca = ca
    BY <1>1, <2>1, <2>2 DEF Listing, RowsOfCas
  <2> QED
    BY <1>1, <1>3, <2>1, <2>3, Settings DEF Listing, Wanted, ToSet
<1>6. CASE NextPage
  <2>1. Current' = Current
    BY <1>1, <1>6 DEF NextPage, Current, Listing, Wanted, QueryTemplate
  <2>2. Read' = Read + PageSize
    BY <1>2, <1>6, AnswerIs DEF NextPage, Read
  <2>3. caAt' = caAt /\ templateAt' = templateAt
    BY <1>6 DEF NextPage
  <2>4. CASE i = caAt /\ row \in Current /\ Number(row, Current) <= Read + PageSize
    BY <1>1, <1>3, <2>4 DEF Passed
  <2> QED
    BY <1>3, <2>1, <2>2, <2>3, <2>4 DEF Passed
<1>7. ASSUME Cardinality(Answer) # PageSize, row \in Current
      PROVE  Number(row, Current) <= Read + PageSize
  <2>1. IsListing(Current) /\ Read \in Nat
    BY <1>1, <1>2, CurrentIs DEF Read
  <2>2. Answer = {r \in Current : Read < Number(r, Current) /\ Number(r, Current) <= Read + PageSize}
    BY <1>1
  <2>3. ~(Read + PageSize < Number(row, Current))
    BY <1>2, <1>7, <2>1, <2>2, PageIsFull
  <2> QED
    BY <1>1, <1>2, <2>1, <2>3
<1>8. ASSUME Cardinality(Answer) # PageSize, i = caAt, row \in Current
      PROVE  Passed(row) \/ row \in Answer
  BY <1>1, <1>3, <1>7, <1>8 DEF Passed
<1>9. ASSUME Cardinality(Answer) # PageSize, NextTemplate \/ NextCa
      PROVE  Passed(row) \/ row \in Answer
  <2>1. Read' = 0
    BY <1>2, <1>9 DEF NextTemplate, NextCa, Read
  <2>2. ~(row \in Current' /\ i = caAt' /\ Number(row, Current') <= Read')
    <3>1. SUFFICES ASSUME row \in Current', i = caAt' PROVE ~(Number(row, Current') <= 0)
      BY <2>1
    <3>2. cas[i] \in CAs /\ Current' \in SUBSET database[cas[i]]
      BY <1>1, <3>1, Settings DEF Current, Listing
    <3>3. IsListing(Current')
      BY <1>1, <3>2, ListingParts
    <3>4. Number(row, Current') > 0 /\ Number(row, Current') \in Nat
      BY <3>1, <3>3, NumberPositive, NumberType DEF IsListing
    <3> QED
      BY <3>4
  <2>3. CASE NextTemplate
    <3>1. caAt' = caAt /\ templateAt' = templateAt + 1 /\ templates # <<>>
      BY <1>1, <1>2, <2>3, Settings DEF NextTemplate
    <3>2. CASE i < caAt
      BY <1>3, <3>2 DEF Passed
    <3>3. CASE i = caAt
      <4>1. PICK k \in DOMAIN templates : k < templateAt + 1 /\ row.template = templates[k]
        BY <1>2, <1>3, <1>4, <2>2, <3>1, <3>3
      <4>2. CASE k < templateAt
        BY <1>3, <3>3, <4>1, <4>2 DEF Passed
      <4>3. CASE k = templateAt
        <5>1. row \in Current
          BY <1>5, <3>1, <3>3, <4>1, <4>3 DEF Current, Listing, Wanted, QueryTemplate
        <5> QED
          BY <1>8, <1>9, <3>3, <5>1
      <4> QED
        BY <1>2, <1>4, <4>1, <4>2, <4>3
    <3> QED
      BY <1>2, <1>3, <1>4, <2>2, <3>1, <3>2, <3>3
  <2>4. CASE NextCa
    <3>1. caAt' = caAt + 1 /\ templateAt' = 1
      BY <2>4 DEF NextCa
    <3>2. CASE i < caAt
      BY <1>3, <3>2 DEF Passed
    <3>3. CASE i = caAt
      <4>1. CASE templates = <<>>
        <5>1. row \in Current
          BY <1>5, <3>3, <4>1 DEF Current, Listing, Wanted, QueryTemplate
        <5> QED
          BY <1>8, <1>9, <3>3, <5>1
      <4>2. CASE templates # <<>>
        <5>1. PICK k \in DOMAIN templates : row.template = templates[k]
          BY <1>5, <4>2
        <5>2. k <= templateAt
          BY <1>1, <1>2, <2>4, <5>1, Settings DEF NextCa
        <5>3. CASE k < templateAt
          BY <1>3, <3>3, <5>1, <5>3 DEF Passed
        <5>4. CASE k = templateAt
          <6>1. row \in Current
            BY <1>5, <3>3, <4>2, <5>1, <5>4 DEF Current, Listing, Wanted, QueryTemplate
          <6> QED
            BY <1>8, <1>9, <3>3, <6>1
        <5> QED
          BY <1>2, <1>4, <5>2, <5>3, <5>4
      <4> QED
        BY <4>1, <4>2
    <3>4. ~(i = caAt')  \/ ~(\E k \in DOMAIN templates : k < templateAt' /\ row.template = templates[k])
      BY <1>1, <3>1, Settings
    <3> QED
      BY <1>2, <1>3, <1>4, <2>2, <3>1, <3>2, <3>3, <3>4
  <2> QED
    BY <1>9, <2>3, <2>4
<1> QED
  BY <1>6, <1>9, DumpSteps

LEMMA DumpPassed ==
    ASSUME CInv, Dump
    PROVE  PassedCollected'
<1>1. /\ pc = "dumping" /\ purged' = purged /\ before' = before /\ cas' = cas
      /\ Items' = Items \union Answer
      /\ database' = database /\ pending' = pending /\ templates' = templates
  BY DumpFacts
<1>2. SUFFICES ASSUME purged = 0
               PROVE  /\ before \subseteq InScope(cas)'
                      /\ \A row \in before : Passed(row)' => row \in Items'
  BY <1>1 DEF PassedCollected
<1>3. before \subseteq InScope(cas) /\ \A row \in before : Passed(row) => row \in Items
  BY <1>1, <1>2 DEF CInv, PassedCollected
<1>4. InScope(cas)' = InScope(cas)
  BY <1>1 DEF InScope, Listing, Wanted
<1> QED
  BY <1>1, <1>3, <1>4, DumpPasses

LEMMA DumpStep ==
    ASSUME CInv, Dump
    PROVE  CInv'
BY DumpLoops, DumpReached, DumpBehind, DumpDisjoint, DumpPassed DEF CInv

-------------------------------------------------------------------------------
LEMMA NextCInv == CInv /\ [Next]_vars => CInv'
<1> SUFFICES ASSUME CInv, [Next]_vars PROVE CInv'
  OBVIOUS
<1> QED
  BY ThreadStep, ListCasStep, DumpStep, IssueStep, ApproveStep, PurgeStep DEF Next, Step

(* What the positions of the loops say of what is collected, whatever the    *)
(* CAs do between two pages.                                                 *)
THEOREM CollectionInvariant == Spec => []CInv
BY InitCInv, NextCInv, PTL DEF Spec

THEOREM CollectionTypeOK == Spec => []TypeOK
<1>1. CInv => TypeOK
  BY DEF CInv
<1> QED
  BY <1>1, CollectionInvariant, PTL

LEMMA CInvNoneLost == CInv => NoneLost
<1> SUFFICES ASSUME CInv, pc \in {"collected", "persisting"}, purged = 0, NEW row \in before
             PROVE  row \in Items
  BY DEF NoneLost, Items
<1>1. TypeOK /\ RowsOfCas /\ caAt > Len(cas) /\ row \in InScope(cas)
  BY DEF CInv, LoopsAt, PassedCollected
<1>2. PICK ca \in ToSet(cas) : row \in database[ca]
  BY <1>1 DEF InScope, Listing
<1>3. PICK i \in DOMAIN cas : cas[i] = ca
  BY DEF ToSet
<1>4. row.ca = cas[i] /\ i < caAt
  BY <1>1, <1>2, <1>3, Settings DEF RowsOfCas, TypeOK
<1>5. Passed(row)
  BY <1>4 DEF Passed
<1> QED
  BY <1>5 DEF CInv, PassedCollected

(* A collection that persists has every certificate that was in scope when   *)
(* its dump began, unless rows were deleted meanwhile.                       *)
THEOREM NothingIsLost == Spec => []NoneLost
BY CollectionInvariant, CInvNoneLost, PTL

LEMMA CInvNoneTwice == CInv => NoneTwice
<1> SUFFICES ASSUME CInv PROVE NoneTwice
  OBVIOUS
<1>1. ASSUME NEW row \in UNION ToSet(collected)
      PROVE  row.ca \in ToSet(cas) /\ (templates = <<>> \/ row.template \in ToSet(templates))
  BY DEF CInv, Reached, Items, ToSet
<1> QED
  BY <1>1 DEF CInv, PagesDisjoint, NoneTwice

(* Nothing is collected twice unless requests were approved meanwhile, and   *)
(* nothing that is out of scope.                                             *)
THEOREM NothingIsCollectedTwice == Spec => []NoneTwice
BY CollectionInvariant, CInvNoneTwice, PTL
===============================================================================
