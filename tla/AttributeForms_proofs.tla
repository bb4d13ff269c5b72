------------------------ MODULE AttributeForms_proofs ------------------------
(***************************************************************************)
(* What AttributeForms guarantees for any authorities, forests, templates  *)
(* and databases: first that what PowerShell prints is what the parser     *)
(* reads, then what a form offers.                                         *)
(***************************************************************************)
EXTENDS AttributeForms, Counting_proofs

-------------------------------------------------------------------------------
(* The two kinds of parsers: of records and of certificates. *)
Records(keys, last) == [parser |-> "records", keys |-> keys, last |-> last]
Certificates == [parser |-> "certificates"]

Read(by, state, line) ==
    IF by.parser = "records" THEN ReadLine(by.keys, by.last, state, line)
    ELSE ReadCertificateLine(state, line)

(* A line is read, and if it is empty says nothing. *)
Reads(by, state, line, next) ==
    next = Read(by, state, line) /\ (line = OtherLine => next = state)

(* Reading lines from one state leads to another: step by step.              *)
Steps(by, from, lines, to, states) ==
    /\ states[0] = from /\ states[Len(lines)] = to
    /\ \A k \in 1..Len(lines) : Reads(by, states[k - 1], lines[k], states[k])

Leads(by, from, lines, to) == \E states : Steps(by, from, lines, to, states)

(* The fold over the lines, as a table over the sets of their positions. *)
ReadTable(by, from, lines, table) ==
    [T \in SUBSET DOMAIN lines |->
        IF T = {} THEN from
        ELSE Read(by, table[T \ {Max(T)}], lines[Max(T)])]
(* The greatest position of some. *)
LEMMA MaxOf ==
    ASSUME NEW n \in Nat, NEW T \in SUBSET (1..n), T # {}
    PROVE  Max(T) \in T /\ \A i \in T : i <= Max(T)
<1> DEFINE gaps == {k \in Nat : \E i \in T : k = n - i}
<1>1. gaps \in SUBSET Nat /\ gaps # {}
  <2>1. PICK i \in T : TRUE
    OBVIOUS
  <2>2. n - i \in gaps
    BY <2>1
  <2> QED
    BY <2>2
<1> HIDE DEF gaps
<1>2. PICK g \in gaps : \A h \in gaps : g <= h
  BY <1>1, Least
<1> USE DEF gaps
<1>3. PICK m \in T : g = n - m
  OBVIOUS
<1>4. \A i \in T : i <= m
  <2> SUFFICES ASSUME NEW i \in T PROVE i <= m
    OBVIOUS
  <2>1. n - i \in gaps
    OBVIOUS
  <2> QED
    BY <1>2, <1>3, <2>1
<1> QED
  BY <1>4 DEF Max

(* The table of the fold exists: one for the sets of at most m positions has *)
(* a next one.                                                               *)
LEMMA TableExists ==
    ASSUME NEW by, NEW from, NEW lines, NEW n \in Nat, DOMAIN lines = 1..n
    PROVE  \E table : table = ReadTable(by, from, lines, table)
<1> DEFINE Sets(m) == {T \in SUBSET (1..n) : Cardinality(T) <= m}
           next(g, T) == IF T = {} THEN from
                         ELSE Read(by, g[T \ {Max(T)}], lines[Max(T)])
           good == {m \in Nat : \E g : \A T \in Sets(m) : g[T] = next(g, T)}
<1>1. \A T \in SUBSET (1..n) : IsFiniteSet(T) /\ Cardinality(T) \in Nat /\ Cardinality(T) <= n
  <2>1. IsFiniteSet(1..n) /\ Cardinality(1..n) = n
    BY FS_Interval
  <2> QED
    BY <2>1, FS_Subset, FS_CardinalityType
<1>2. ASSUME NEW T \in SUBSET (1..n), T # {}
      PROVE  T \ {Max(T)} \in SUBSET (1..n) /\ Cardinality(T \ {Max(T)}) = Cardinality(T) - 1
  BY <1>1, <1>2, MaxOf, FS_RemoveElement
<1>3. 0 \in good
  <2>1. PICK g : g = [T \in SUBSET (1..n) |-> from]
    OBVIOUS
  <2>2. \A T \in Sets(0) : T = {}
    BY <1>1, FS_EmptySet
  <2>3. \A T \in Sets(0) : g[T] = next(g, T)
    BY <2>1, <2>2
  <2> QED
    BY <2>3
<1>4. ASSUME NEW m \in Nat, m \in good PROVE m + 1 \in good
  <2>1. PICK g : \A T \in Sets(m) : g[T] = next(g, T)
    BY <1>4
  <2>2. PICK h : h = [T \in SUBSET (1..n) |-> next(g, T)]
    OBVIOUS
  <2>3. \A T \in Sets(m) : h[T] = g[T]
    BY <2>1, <2>2
  <2>4. ASSUME NEW T \in Sets(m + 1), T # {} PROVE T \ {Max(T)} \in Sets(m)
    <3>1. T \ {Max(T)} \in SUBSET (1..n) /\ Cardinality(T \ {Max(T)}) = Cardinality(T) - 1
      BY <2>4, <1>2
    <3>2. Cardinality(T) \in Nat /\ Cardinality(T) <= m + 1
      BY <1>1
    <3> QED
      BY <3>1, <3>2
  <2>5. ASSUME NEW T \in Sets(m + 1) PROVE h[T] = next(h, T)
    <3>1. h[T] = next(g, T)
      BY <2>2
    <3>2. CASE T = {}
      BY <3>1, <3>2
    <3>3. CASE T # {}
      <4>1. h[T \ {Max(T)}] = g[T \ {Max(T)}]
        BY <3>3, <2>4, <2>3
      <4> QED
        BY <3>1, <3>3, <4>1
    <3> QED
      BY <3>2, <3>3
  <2> HIDE DEF next
  <2> QED
    BY <2>5
<1>5. n \in good
  <2> HIDE DEF good
  <2> QED
    BY <1>3, <1>4, CountingUp
<1>6. PICK g : \A T \in Sets(n) : g[T] = next(g, T)
  BY <1>5
<1>7. Sets(n) = SUBSET (1..n)
  BY <1>1
<1>8. PICK h : h = [T \in SUBSET (1..n) |-> g[T]]
  OBVIOUS
<1>9. ASSUME NEW T \in SUBSET (1..n) PROVE h[T] = next(h, T)
  <2>1. h[T] = next(g, T)
    BY <1>6, <1>7, <1>8
  <2>2. T # {} => h[T \ {Max(T)}] = g[T \ {Max(T)}]
    BY <1>2, <1>8
  <2> QED
    BY <2>1, <2>2
<1>10. h = [T \in SUBSET (1..n) |-> next(h, T)]
  <2> HIDE DEF next
  <2> QED
    BY <1>8, <1>9
<1>11. h = ReadTable(by, from, lines, h)
  BY <1>10 DEF ReadTable
<1> QED
  BY <1>11

(* Where reading the lines leads is what the fold makes of them. *)
LEMMA LeadsInTable ==
    ASSUME NEW by, NEW from, NEW to, NEW X, NEW lines \in Seq(X),
           Leads(by, from, lines, to), NEW table, table = ReadTable(by, from, lines, table)
    PROVE  table[DOMAIN lines] = to
<1> DEFINE n == Len(lines)
<1>1. n \in Nat /\ DOMAIN lines = 1..n
  BY LenProperties
<1>2. PICK states : Steps(by, from, lines, to, states)
  BY DEF Leads
<1>3. \A T \in SUBSET (1..n) : table[T] =
          IF T = {} THEN from ELSE Read(by, table[T \ {Max(T)}], lines[Max(T)])
  BY <1>1 DEF ReadTable
<1> DEFINE good == {k \in Nat : k <= n => table[1..k] = states[k]}
<1>5. 0 \in good
  <2>1. 1..0 = {} /\ states[0] = from
    BY <1>2 DEF Steps
  <2>2. table[{}] = from
    BY <1>3
  <2> QED
    BY <2>1, <2>2
<1>6. ASSUME NEW k \in Nat, k \in good PROVE k + 1 \in good
  <2> SUFFICES ASSUME k + 1 <= n PROVE table[1..(k + 1)] = states[k + 1]
    OBVIOUS
  <2>1. 1..(k + 1) \in SUBSET (1..n) /\ k + 1 \in 1..(k + 1)
    <3> HIDE DEF n
    <3> QED
      BY <1>1
  <2>2. Max(1..(k + 1)) = k + 1
    <3>1. k + 1 \in Nat /\ 1..(k + 1) \in SUBSET (1..(k + 1)) /\ 1..(k + 1) # {}
      <4>1. k + 1 \in Nat
        OBVIOUS
      <4>2. 1..(k + 1) \in SUBSET (1..(k + 1)) /\ 1..(k + 1) # {}
        BY <2>1, Zenon
      <4> QED
        BY <4>1, <4>2
    <3>2. Max(1..(k + 1)) \in 1..(k + 1) /\ \A i \in 1..(k + 1) : i <= Max(1..(k + 1))
      BY <3>1, MaxOf
    <3> QED
      BY <2>1, <3>2
  <2>3. (1..(k + 1)) \ {k + 1} = 1..k
    OBVIOUS
  <2>4. table[1..(k + 1)] = Read(by, table[1..k], lines[k + 1])
    BY <1>3, <2>1, <2>2, <2>3
  <2>5. states[k + 1] = Read(by, states[(k + 1) - 1], lines[k + 1])
    BY <1>1, <1>2 DEF Steps, Reads
  <2>6. (k + 1) - 1 = k /\ table[1..k] = states[k]
    BY <1>6, <1>1
  <2> QED
    BY <2>4, <2>5, <2>6
<1>7. n \in good
  <2> HIDE DEF good
  <2> QED
    BY <1>1, <1>5, <1>6, CountingUp
<1>8. table[1..n] = to
  BY <1>1, <1>2, <1>7 DEF Steps
<1> QED
  BY <1>1, <1>8

(* The parsers are folds over their lines. *)
RecordTable(keys, last, from, lines, table) ==
    [T \in SUBSET DOMAIN lines |->
        IF T = {} THEN from
        ELSE ReadLine(keys, last, table[T \ {Max(T)}], lines[Max(T)])]
CertificateTable(from, lines, table) ==
    [T \in SUBSET DOMAIN lines |->
        IF T = {} THEN from
        ELSE ReadCertificateLine(table[T \ {Max(T)}], lines[Max(T)])]

LEMMA ParseRecordsIs ==
    ASSUME NEW keys, NEW last, NEW X, NEW lines, Stripped(lines) \in Seq(X), NEW records,
           Leads(Records(keys, last), [record |-> NoFields(keys), result |-> <<>>], Stripped(lines),
                 [record |-> NoFields(keys), result |-> records])
    PROVE  ParseRecords(keys, last, lines) = records
<1> DEFINE from == [record |-> NoFields(keys), result |-> <<>>]
           told == Stripped(lines)
           Is(t) == t = RecordTable(keys, last, from, told, t)
           table == CHOOSE t : Is(t)
<1>1. ParseRecords(keys, last, lines) = table[DOMAIN told].result
  BY DEF ParseRecords, FoldLeft, MapThenFoldSet, RecordTable
<1> HIDE DEF from, told
<1>2. \A t : RecordTable(keys, last, from, told, t) = ReadTable(Records(keys, last), from, told, t)
  BY DEF RecordTable, ReadTable, Read, Records
<1>3. \E t : Is(t)
  <2>1. Len(told) \in Nat /\ DOMAIN told = 1..Len(told)
    BY LenProperties DEF told
  <2>2. \E t : t = ReadTable(Records(keys, last), from, told, t)
    BY <2>1, TableExists
  <2> QED
    BY <1>2, <2>2
<1>4. Is(table)
  <2> HIDE DEF Is
  <2> QED
    BY <1>3
<1> HIDE DEF table
<1>5. table = ReadTable(Records(keys, last), from, told, table)
  BY <1>2, <1>4
<1>6. table[DOMAIN told] = [record |-> NoFields(keys), result |-> records]
  BY <1>5, LeadsInTable DEF told, from
<1> QED
  BY <1>1, <1>6

LEMMA ParseCertificatesIs ==
    ASSUME NEW X, NEW lines, Stripped(lines) \in Seq(X), NEW result,
           Leads(Certificates, NoCertificate(<<>>), Stripped(lines), NoCertificate(result))
    PROVE  parse_certificates(lines) = result
<1> DEFINE from == NoCertificate(<<>>)
           told == Stripped(lines)
           Is(t) == t = CertificateTable(from, told, t)
           table == CHOOSE t : Is(t)
<1>1. parse_certificates(lines) = table[DOMAIN told].result
  BY DEF parse_certificates, FoldLeft, MapThenFoldSet, CertificateTable
<1> HIDE DEF from, told
<1>2. \A t : CertificateTable(from, told, t) = ReadTable(Certificates, from, told, t)
  BY DEF CertificateTable, ReadTable, Read, Certificates
<1>3. \E t : Is(t)
  <2>1. Len(told) \in Nat /\ DOMAIN told = 1..Len(told)
    BY LenProperties DEF told
  <2>2. \E t : t = ReadTable(Certificates, from, told, t)
    BY <2>1, TableExists
  <2> QED
    BY <1>2, <2>2
<1>4. Is(table)
  <2> HIDE DEF Is
  <2> QED
    BY <1>3
<1> HIDE DEF table
<1>5. table = ReadTable(Certificates, from, told, table)
  BY <1>2, <1>4
<1>6. table[DOMAIN told] = NoCertificate(result)
  BY <1>5, LeadsInTable DEF told, from
<1> QED
  BY <1>1, <1>6 DEF NoCertificate

(* Nothing to read leads nowhere, and reading on leads on. *)
LEMMA LeadsNowhere == \A by, from : Leads(by, from, <<>>, from)
<1> SUFFICES ASSUME NEW by, NEW from PROVE Leads(by, from, <<>>, from)
  OBVIOUS
<1>1. PICK states : states = [k \in {0} |-> from]
  OBVIOUS
<1>2. Len(<<>>) = 0 /\ 1..0 = {}
  BY EmptySeq
<1>3. Steps(by, from, <<>>, from, states)
  BY <1>1, <1>2 DEF Steps
<1> QED
  BY <1>3 DEF Leads

LEMMA LeadsOn ==
    ASSUME NEW by, NEW from, NEW via, NEW to,
           NEW X, NEW lines \in Seq(X), NEW more \in Seq(X),
           Leads(by, from, lines, via), Leads(by, via, more, to)
    PROVE  Leads(by, from, lines \o more, to)
<1> DEFINE n == Len(lines)
           m == Len(more)
           all == lines \o more
<1>1. PICK first : Steps(by, from, lines, via, first)
  BY DEF Leads
<1>2. PICK then : Steps(by, via, more, to, then)
  BY DEF Leads
<1>3. PICK states : states = [k \in 0..(n + m) |-> IF k <= n THEN first[k] ELSE then[k - n]]
  OBVIOUS
<1>4. n \in Nat /\ m \in Nat
  BY LenProperties
<1>5. /\ Len(all) = n + m
      /\ \A k \in 1..(n + m) : all[k] = IF k <= n THEN lines[k] ELSE more[k - n]
  BY ConcatProperties
<1>6. /\ first[0] = from /\ first[n] = via
      /\ \A k \in 1..n : Reads(by, first[k - 1], lines[k], first[k])
  BY <1>1 DEF Steps
<1>7. /\ then[0] = via /\ then[m] = to
      /\ \A k \in 1..m : Reads(by, then[k - 1], more[k], then[k])
  BY <1>2 DEF Steps
<1> HIDE DEF n, m, all
<1>8. states[0] = from /\ states[n + m] = to
  <2>1. 0 \in 0..(n + m) /\ n + m \in 0..(n + m) /\ 0 <= n /\ (n + m) - n = m
    BY <1>4
  <2>2. CASE m = 0
    <3>1. n + m = n /\ n <= n
      BY <1>4, <2>2
    <3> QED
      BY <3>1, <2>1, <2>2, <1>3, <1>6, <1>7
  <2>3. CASE m # 0
    <3>1. ~(n + m <= n)
      BY <1>4, <2>3
    <3> QED
      BY <3>1, <2>1, <1>3, <1>6, <1>7
  <2> QED
    BY <2>2, <2>3
<1>9. ASSUME NEW k \in 1..(n + m)
      PROVE  Reads(by, states[k - 1], all[k], states[k])
  <2>1. CASE k <= n
    <3>1. k \in 1..n /\ k - 1 \in 0..(n + m) /\ k - 1 <= n
      BY <1>4, <2>1
    <3> QED
      BY <3>1, <2>1, <1>3, <1>4, <1>5, <1>6
  <2>2. CASE k = n + 1
    <3>1. n + 1 \in 0..(n + m) /\ n \in 0..(n + m) /\ (n + 1) - n = 1 /\ 1 \in 1..m /\ ~(n + 1 <= n)
      BY <1>4, <2>2
    <3>2. states[n + 1] = then[1] /\ states[n] = via
      BY <3>1, <1>3, <1>6, <1>4
    <3>3. Reads(by, then[1 - 1], more[1], then[1]) /\ 1 - 1 = 0
      BY <3>1, <1>7
    <3>4. all[n + 1] = more[1] /\ k - 1 = n
      BY <3>1, <1>5, <2>2, <1>4
    <3> QED
      BY <2>2, <3>2, <3>3, <3>4, <1>7
  <2>3. CASE k > n + 1
    <3>1. /\ k - n \in 1..m /\ k - 1 \in 0..(n + m) /\ ~(k - 1 <= n) /\ ~(k <= n)
          /\ (k - 1) - n = (k - n) - 1 /\ k \in 0..(n + m)
      BY <1>4, <2>3
    <3>2. states[k] = then[k - n] /\ states[k - 1] = then[(k - n) - 1]
      BY <3>1, <1>3
    <3>3. all[k] = more[k - n]
      BY <3>1, <1>5
    <3> QED
      BY <3>1, <3>2, <3>3, <1>7
  <2> QED
    BY <2>1, <2>2, <2>3, <1>4
<1> QED
  BY <1>5, <1>8, <1>9 DEF Leads, Steps, n, m, all

(* The empty lines say nothing, wherever they are. *)
StaysOnOtherLines(lines, states) ==
    \A i \in 0..Len(lines) : \A j \in i..Len(lines) :
        (\A k \in (i + 1)..j : lines[k] = OtherLine) => states[j] = states[i]

LEMMA NothingOnOtherLines ==
    ASSUME NEW by, NEW from, NEW to, NEW X, NEW lines \in Seq(X),
           NEW states, Steps(by, from, lines, to, states)
    PROVE  StaysOnOtherLines(lines, states)
<1> SUFFICES ASSUME NEW i \in 0..Len(lines), NEW j \in i..Len(lines),
                    \A k \in (i + 1)..j : lines[k] = OtherLine
             PROVE  states[j] = states[i]
  BY DEF StaysOnOtherLines
<1> DEFINE good == {d \in Nat : i + d <= j => states[i + d] = states[i]}
<1>1. Len(lines) \in Nat /\ i \in Nat /\ j \in Nat /\ i <= j /\ j <= Len(lines)
  BY LenProperties
<1>2. 0 \in good
  BY <1>1
<1>3. ASSUME NEW d \in Nat, d \in good PROVE d + 1 \in good
  <2> SUFFICES ASSUME i + (d + 1) <= j PROVE states[i + (d + 1)] = states[i]
    OBVIOUS
  <2>1. i + (d + 1) \in 1..Len(lines) /\ i + (d + 1) \in (i + 1)..j /\ (i + (d + 1)) - 1 = i + d
    BY <1>1
  <2>2. lines[i + (d + 1)] = OtherLine => states[i + (d + 1)] = states[i + d]
    BY <2>1 DEF Steps, Reads
  <2>3. states[i + d] = states[i]
    BY <1>1, <1>3
  <2> QED
    BY <2>1, <2>2, <2>3
<1>4. j - i \in good
  <2> HIDE DEF good
  <2> QED
    BY <1>1, <1>2, <1>3, CountingUp
<1> QED
  BY <1>1, <1>4

LEMMA LeadsStripped ==
    ASSUME NEW by, NEW from, NEW to, NEW X, NEW lines \in Seq(X),
           Reads(by, from, OtherLine, from), Leads(by, from, lines, to)
    PROVE  /\ Leads(by, from, Stripped(lines), to)
           /\ Stripped(lines) \in Seq(X \union {OtherLine})
<1> DEFINE n == Len(lines)
           told == {i \in DOMAIN lines : lines[i] # OtherLine}
           lo == Min(told)
           hi == Max(told)
<1>1. n \in Nat /\ DOMAIN lines = 1..n
  BY LenProperties
<1>2. PICK states : Steps(by, from, lines, to, states)
  BY DEF Leads
<1>3. /\ states[0] = from /\ states[n] = to
      /\ \A i \in 0..n : \A j \in i..n :
             (\A k \in (i + 1)..j : lines[k] = OtherLine) => states[j] = states[i]
  <2>1. states[0] = from /\ states[n] = to
    BY <1>2 DEF Steps
  <2>2. StaysOnOtherLines(lines, states)
    BY <1>2, NothingOnOtherLines
  <2> QED
    BY <2>1, <2>2 DEF StaysOnOtherLines
<1>4. Reads(by, from, OtherLine, from)
  OBVIOUS
<1>5. CASE told = {}
  <2>1. \A k \in (0 + 1)..n : lines[k] = OtherLine
    BY <1>1, <1>5
  <2>2. 0 \in 0..n /\ n \in 0..n
    BY <1>1
  <2>3. to = from
    <3>1. states[n] = states[0]
      <4> HIDE DEF told, n
      <4> QED
        BY <1>3, <2>1, <2>2
    <3> QED
      BY <3>1, <1>3
  <2>4. Stripped(lines) = <<OtherLine>>
    BY <1>5 DEF Stripped
  <2>5. PICK one : one = [k \in 0..1 |-> from]
    OBVIOUS
  <2>6. Len(<<OtherLine>>) = 1 /\ <<OtherLine>>[1] = OtherLine /\ <<OtherLine>> \in Seq({OtherLine})
    OBVIOUS
  <2>7. Steps(by, from, <<OtherLine>>, from, one)
    BY <1>4, <2>5, <2>6 DEF Steps
  <2>8. <<OtherLine>> \in Seq(X \union {OtherLine})
    OBVIOUS
  <2> QED
    BY <2>3, <2>4, <2>7, <2>8 DEF Leads
<1>6. CASE told # {}
  <2>1. told \in SUBSET (1..n)
    BY <1>1
  <2>2. hi \in told /\ \A i \in told : i <= hi
    <3> HIDE DEF told
    <3> QED
      BY <1>1, <1>6, <2>1, MaxOf
  <2>3. lo \in told /\ \A i \in told : lo <= i
    <3> HIDE DEF told
    <3>1. told \in SUBSET Nat
      BY <2>1
    <3>2. PICK l \in told : \A i \in told : l <= i
      BY <1>6, <3>1, Least
    <3> QED
      BY <3>2 DEF Min
  <2>4. lo \in 1..n /\ hi \in lo..n
    BY <1>1, <2>1, <2>2, <2>3
  <2>5. \A k \in 1..n : k < lo \/ k > hi => lines[k] = OtherLine
    <3> HIDE DEF lo, hi
    <3>1. \A k \in 1..n : k < lo \/ k > hi => k \notin told
      BY <1>1, <2>2, <2>3, <2>4
    <3> QED
      BY <3>1, <1>1
  <2> HIDE DEF told, lo, hi
  <2>6. states[lo - 1] = from
    <3>1. 0 \in 0..n /\ lo - 1 \in 0..n /\ \A k \in (0 + 1)..(lo - 1) : lines[k] = OtherLine
      BY <1>1, <2>4, <2>5
    <3> QED
      BY <3>1, <1>3
  <2>7. states[hi] = to
    <3>1. hi \in 0..n /\ n \in hi..n /\ \A k \in (hi + 1)..n : lines[k] = OtherLine
      BY <1>1, <2>4, <2>5
    <3> QED
      BY <3>1, <1>3
  <2>8. Stripped(lines) = SubSeq(lines, lo, hi)
    BY <1>6 DEF Stripped, told, lo, hi
  <2>9. /\ SubSeq(lines, lo, hi) \in Seq(X)
        /\ Len(SubSeq(lines, lo, hi)) = hi - lo + 1
        /\ \A i \in 1..(hi - lo + 1) : SubSeq(lines, lo, hi)[i] = lines[lo + i - 1]
    <3>1. lo \in Int /\ hi \in Int /\ lo <= hi /\ \A i \in lo..hi : lines[i] \in X
      BY <2>4, <1>1, ElementOfSeq
    <3> QED
      BY <3>1, SubSeqProperties
  <2>10. PICK part : part = [k \in 0..(hi - lo + 1) |-> states[(lo - 1) + k]]
    OBVIOUS
  <2>11. part[0] = from /\ part[hi - lo + 1] = to
    <3>1. (lo - 1) + 0 = lo - 1 /\ (lo - 1) + (hi - lo + 1) = hi
      BY <2>4
    <3>2. 0 \in 0..(hi - lo + 1) /\ hi - lo + 1 \in 0..(hi - lo + 1)
      BY <2>4
    <3> QED
      BY <3>1, <3>2, <2>6, <2>7, <2>10
  <2>12. ASSUME NEW k \in 1..(hi - lo + 1)
         PROVE  Reads(by, part[k - 1], SubSeq(lines, lo, hi)[k], part[k])
    <3>1. /\ k \in 0..(hi - lo + 1) /\ k - 1 \in 0..(hi - lo + 1)
          /\ (lo - 1) + k \in 1..n /\ lo + k - 1 = (lo - 1) + k
          /\ ((lo - 1) + k) - 1 = (lo - 1) + (k - 1)
      BY <2>4, <1>1
    <3>2. Reads(by, states[((lo - 1) + k) - 1], lines[(lo - 1) + k], states[(lo - 1) + k])
      BY <1>2, <3>1 DEF Steps
    <3>3. SubSeq(lines, lo, hi)[k] = lines[(lo - 1) + k]
      BY <2>9, <3>1
    <3>4. part[k] = states[(lo - 1) + k] /\ part[k - 1] = states[((lo - 1) + k) - 1]
      BY <2>10, <3>1
    <3> QED
      BY <3>2, <3>3, <3>4
  <2>13. Steps(by, from, SubSeq(lines, lo, hi), to, part)
    BY <2>9, <2>11, <2>12 DEF Steps
  <2>14. SubSeq(lines, lo, hi) \in Seq(X \union {OtherLine})
    BY <2>9
  <2> QED
    BY <2>8, <2>13, <2>14 DEF Leads
<1> QED
  BY <1>5, <1>6

-------------------------------------------------------------------------------
(* The lines of an object are read into a record of its properties.          *)
PropertyLines(names, o) == [k \in DOMAIN names |-> Line(names[k], o[names[k]])]
RecordOf(names, o) == [q \in Range(names) |-> o[q]]
ReaderOf(names) == Records(Range(names), names[Len(names)])
Between(names, records) == [record |-> NoFields(Range(names)), result |-> records]

(* Keys that are told apart from each other and from the empty line. *)
AreKeys(names) ==
    /\ names \in Seq(Range(names)) /\ Len(names) # 0
    /\ \A i, j \in DOMAIN names : names[i] = names[j] => i = j
    /\ OtherLine.key \notin Range(names)

LEMMA LeadsObject ==
    ASSUME NEW names, AreKeys(names), NEW records, NEW o
    PROVE  Leads(ReaderOf(names), Between(names, records), PropertyLines(names, o),
                 Between(names, Append(records, RecordOf(names, o))))
<1> DEFINE w == Len(names)
           keys == Range(names)
           last == names[w]
           lines == PropertyLines(names, o)
           told(k) == [q \in keys |-> IF \E j \in 1..k : names[j] = q THEN o[q] ELSE NoValue]
           to == Between(names, Append(records, RecordOf(names, o)))
<1>1. /\ w \in Nat \ {0} /\ DOMAIN names = 1..w
      /\ \A i, j \in 1..w : names[i] = names[j] => i = j
      /\ keys = {names[i] : i \in 1..w}
  BY LenProperties DEF AreKeys, Range
<1>2. DOMAIN lines = 1..w /\ \A k \in 1..w : lines[k] = Line(names[k], o[names[k]])
  BY <1>1 DEF PropertyLines
<1>3. Len(lines) = w
  <2>1. PICK X : X = {lines[k] : k \in 1..w}
    OBVIOUS
  <2>2. lines \in [1..w -> X]
    BY <1>2, <2>1 DEF PropertyLines
  <2> HIDE DEF lines, w
  <2>3. lines \in Seq(X)
    BY <1>1, <2>2
  <2> QED
    BY <1>1, <1>2, <2>3, LenProperties
<1> HIDE DEF w
<1>4. PICK states : states = [k \in 0..w |-> IF k = w THEN to
                                ELSE [record |-> told(k), result |-> records]]
  OBVIOUS
<1>5. \A k \in 0..(w - 1) : states[k] = [record |-> told(k), result |-> records]
  <2>1. \A k \in 0..(w - 1) : k \in 0..w /\ k # w
    BY <1>1
  <2> HIDE DEF told, to
  <2> QED
    BY <1>4, <2>1
<1>6. states[w] = to
  <2>1. w \in 0..w
    BY <1>1
  <2> HIDE DEF told, to
  <2> QED
    BY <1>4, <2>1
<1>7. states[0] = Between(names, records)
  <2>1. told(0) = NoFields(keys)
    <3>1. \A q \in keys : ~\E j \in 1..0 : names[j] = q
      OBVIOUS
    <3> HIDE DEF keys
    <3> QED
      BY <3>1 DEF NoFields
  <2>2. 0 \in 0..(w - 1)
    BY <1>1
  <2> HIDE DEF told
  <2> QED
    BY <1>5, <2>1, <2>2 DEF Between
<1>8. ASSUME NEW k \in 1..w
      PROVE  Reads(ReaderOf(names), states[k - 1], lines[k], states[k])
  <2>1. /\ k - 1 \in 0..(w - 1) /\ names[k] \in keys
        /\ lines[k].key = names[k] /\ lines[k].value = o[names[k]]
    BY <1>1, <1>2 DEF Line
  <2>2. states[k - 1] = [record |-> told(k - 1), result |-> records]
    BY <1>5, <2>1
  <2>3. [told(k - 1) EXCEPT ![names[k]] = o[names[k]]] = told(k)
    <3>1. \A j \in 1..k : j \in 1..(k - 1) \/ j = k
      BY <1>1
    <3>2. \A j \in 1..(k - 1) : j \in 1..k
      BY <1>1
    <3>3. k \in 1..k
      BY <1>1
    <3>4. ASSUME NEW q \in keys
          PROVE  [told(k - 1) EXCEPT ![names[k]] = o[names[k]]][q] = told(k)[q]
      <4>1. CASE q = names[k]
        BY <4>1, <3>3
      <4>2. CASE q # names[k]
        <5>1. (\E j \in 1..k : names[j] = q) <=> \E j \in 1..(k - 1) : names[j] = q
          BY <4>2, <3>1, <3>2
        <5> QED
          BY <4>2, <5>1
      <4> QED
        BY <4>1, <4>2
    <3> HIDE DEF keys
    <3> QED
      BY <3>4
  <2>4. lines[k] # OtherLine
    BY <2>1 DEF AreKeys
  <2>5. ASSUME states[k] = ReadLine(keys, last, states[k - 1], lines[k])
        PROVE  Reads(ReaderOf(names), states[k - 1], lines[k], states[k])
    BY <2>4, <2>5 DEF Reads, Read, ReaderOf, Records, w
  <2>6. CASE k = w
    <3>1. told(w) = RecordOf(names, o)
      <4>1. \A q \in keys : \E j \in 1..w : names[j] = q
        BY <1>1
      <4> QED
        BY <4>1 DEF RecordOf
    <3>2. names[k] = last
      BY <2>6
    <3> HIDE DEF told, to, lines, last
    <3>3. states[k - 1].record = told(k - 1) /\ states[k - 1].result = records
      BY <2>2
    <3>4. ReadLine(keys, last, states[k - 1], lines[k])
            = [record |-> NoFields(keys), result |-> Append(records, told(k))]
      BY <2>1, <3>2, <3>3, <2>3 DEF ReadLine
    <3> QED
      BY <2>5, <2>6, <3>1, <3>4, <1>6 DEF to, Between
  <2>7. CASE k # w
    <3>1. names[k] # last /\ k \in 0..(w - 1)
      BY <1>1, <2>7
    <3> HIDE DEF told, to, lines, last
    <3>2. ReadLine(keys, last, states[k - 1], lines[k])
            = [states[k - 1] EXCEPT !.record = told(k)]
      BY <2>1, <2>2, <2>3, <3>1 DEF ReadLine
    <3>3. [states[k - 1] EXCEPT !.record = told(k)] = [record |-> told(k), result |-> records]
      BY <2>2
    <3> QED
      BY <2>5, <3>1, <3>2, <3>3, <1>5
  <2> QED
    BY <2>6, <2>7
<1> QED
  BY <1>3, <1>6, <1>7, <1>8 DEF Leads, Steps, w

(* The empty line after an object says nothing. *)
LEMMA LeadsLine ==
    ASSUME NEW by, NEW from, NEW line, NEW to, Reads(by, from, line, to)
    PROVE  Leads(by, from, <<line>>, to)
<1>1. PICK states : states = [k \in 0..1 |-> IF k = 0 THEN from ELSE to]
  OBVIOUS
<1>2. Len(<<line>>) = 1 /\ <<line>>[1] = line
  OBVIOUS
<1>3. Steps(by, from, <<line>>, to, states)
  BY <1>1, <1>2 DEF Steps
<1> QED
  BY <1>3 DEF Leads

LEMMA OtherSaysNothing ==
    ASSUME NEW names, AreKeys(names), NEW from
    PROVE  Reads(ReaderOf(names), from, OtherLine, from)
BY DEF Reads, Read, ReaderOf, Records, ReadLine, AreKeys

LEMMA LeadsPrinted ==
    ASSUME NEW names, AreKeys(names), NEW records, NEW o,
           NEW L, PropertyLines(names, o) \in Seq(L), OtherLine \in L
    PROVE  /\ Append(PropertyLines(names, o), OtherLine) \in Seq(L)
           /\ Leads(ReaderOf(names), Between(names, records), Append(PropertyLines(names, o), OtherLine),
                    Between(names, Append(records, RecordOf(names, o))))
<1>1. Append(PropertyLines(names, o), OtherLine) = PropertyLines(names, o) \o <<OtherLine>>
  BY AppendIsConcat
<1>2. <<OtherLine>> \in Seq(L)
  OBVIOUS
<1>3. Leads(ReaderOf(names), Between(names, records), PropertyLines(names, o),
            Between(names, Append(records, RecordOf(names, o))))
  BY LeadsObject
<1>4. Leads(ReaderOf(names), Between(names, Append(records, RecordOf(names, o))),
            <<OtherLine>>, Between(names, Append(records, RecordOf(names, o))))
  BY OtherSaysNothing, LeadsLine
<1>5. Leads(ReaderOf(names), Between(names, records), PropertyLines(names, o) \o <<OtherLine>>,
            Between(names, Append(records, RecordOf(names, o))))
  BY <1>2, <1>3, <1>4, LeadsOn
<1> QED
  BY <1>1, <1>2, <1>5, ConcatProperties

(* A flattened sequence is put together from its first one on. *)
Joined(seqs, n, joined) ==
    /\ joined[1] = seqs[1]
    /\ \A i \in 1..n : i # 1 => joined[i] = joined[i - 1] \o seqs[i]

LEMMA FlattenIs ==
    ASSUME NEW seqs, NEW n \in Nat \ {0}, Len(seqs) = n
    PROVE  \E joined : Joined(seqs, n, joined) /\ FlattenSeq(seqs) = joined[n]
<1> DEFINE next(f, i) == IF i = 1 THEN seqs[i] ELSE f[i - 1] \o seqs[i]
           good == {m \in Nat : \E f : \A i \in 1..m : f[i] = next(f, i)}
           joined == CHOOSE f : f = [i \in 1..n |-> next(f, i)]
<1>1. 0 \in good
  OBVIOUS
<1>2. ASSUME NEW m \in Nat, m \in good PROVE m + 1 \in good
  <2>1. PICK f : \A i \in 1..m : f[i] = next(f, i)
    BY <1>2
  <2>2. PICK g : g = [i \in 1..(m + 1) |-> next(f, i)]
    OBVIOUS
  <2>3. \A i \in 1..m : g[i] = f[i]
    BY <2>1, <2>2
  <2>4. ASSUME NEW i \in 1..(m + 1) PROVE g[i] = next(g, i)
    <3>1. g[i] = next(f, i)
      BY <2>2
    <3>2. i # 1 => i - 1 \in 1..m
      OBVIOUS
    <3> QED
      BY <3>1, <3>2, <2>3
  <2> HIDE DEF next
  <2> QED
    BY <2>4
<1>3. n \in good
  <2> HIDE DEF good
  <2> QED
    BY <1>1, <1>2, CountingUp
<1>4. PICK f : \A i \in 1..n : f[i] = next(f, i)
  BY <1>3
<1>5. PICK g : g = [i \in 1..n |-> f[i]]
  OBVIOUS
<1>6. \A i \in 1..n : g[i] = next(g, i)
  <2> SUFFICES ASSUME NEW i \in 1..n PROVE g[i] = next(g, i)
    OBVIOUS
  <2>1. i # 1 => i - 1 \in 1..n
    OBVIOUS
  <2> QED
    BY <2>1, <1>4, <1>5
<1>7. g = [i \in 1..n |-> next(g, i)]
  <2> HIDE DEF next
  <2> QED
    BY <1>5, <1>6
<1>8. joined = [i \in 1..n |-> next(joined, i)]
  <2> HIDE DEF next
  <2> QED
    BY <1>7
<1>9. FlattenSeq(seqs) = joined[n]
  BY Zenon DEF FlattenSeq
<1> HIDE DEF joined
<1>10. \A i \in 1..n : joined[i] = next(joined, i)
  <2> HIDE DEF next
  <2> QED
    BY <1>8
<1>11. Joined(seqs, n, joined)
  <2>1. 1 \in 1..n
    OBVIOUS
  <2> QED
    BY <1>10, <2>1 DEF Joined
<1> QED
  BY <1>9, <1>11

(* Reading sequences one after the other. *)
LEMMA LeadsFlattened ==
    ASSUME NEW by, NEW n \in Nat, NEW L, NEW seqs, DOMAIN seqs = 1..n, seqs = [i \in 1..n |-> seqs[i]],
           NEW at, \A i \in 1..n : seqs[i] \in Seq(L) /\ Leads(by, at[i - 1], seqs[i], at[i])
    PROVE  FlattenSeq(seqs) \in Seq(L) /\ Leads(by, at[0], FlattenSeq(seqs), at[n])
<1>1. CASE n = 0
  <2>1. seqs = <<>>
    BY <1>1
  <2>2. FlattenSeq(seqs) = <<>>
    BY <2>1, EmptySeq DEF FlattenSeq
  <2>3. <<>> \in Seq(L)
    BY EmptySeq
  <2> QED
    BY <1>1, <2>2, <2>3, LeadsNowhere
<1>2. CASE n # 0
  <2>1. Len(seqs) = n
    <3>1. PICK X : X = {seqs[i] : i \in 1..n}
      OBVIOUS
    <3>2. seqs \in [1..n -> X]
      BY <3>1
    <3>3. seqs \in Seq(X)
      BY <3>2
    <3> QED
      BY <3>3, LenProperties
  <2>2. PICK joined : Joined(seqs, n, joined) /\ FlattenSeq(seqs) = joined[n]
    BY <1>2, <2>1, FlattenIs
  <2> DEFINE good == {m \in Nat : m \in 1..n => joined[m] \in Seq(L) /\ Leads(by, at[0], joined[m], at[m])}
  <2>3. 0 \in good
    OBVIOUS
  <2>4. ASSUME NEW m \in Nat, m \in good PROVE m + 1 \in good
    <3> SUFFICES ASSUME m + 1 \in 1..n
                 PROVE  joined[m + 1] \in Seq(L) /\ Leads(by, at[0], joined[m + 1], at[m + 1])
      OBVIOUS
    <3>1. (m + 1) - 1 = m
      OBVIOUS
    <3>2. seqs[m + 1] \in Seq(L) /\ Leads(by, at[m], seqs[m + 1], at[m + 1])
      BY <3>1
    <3>3. CASE m = 0
      <4>1. joined[1] = seqs[1] /\ m + 1 = 1
        BY <2>2, <3>3 DEF Joined
      <4> QED
        BY <3>2, <3>3, <4>1
    <3>4. CASE m # 0
      <4>1. m \in 1..n /\ m + 1 # 1
        BY <3>4
      <4>2. joined[m] \in Seq(L) /\ Leads(by, at[0], joined[m], at[m])
        BY <2>4, <4>1
      <4>3. joined[m + 1] = joined[m] \o seqs[m + 1]
        BY <2>2, <3>1, <4>1 DEF Joined
      <4>4. joined[m] \o seqs[m + 1] \in Seq(L)
        BY <3>2, <4>2, ConcatProperties
      <4>5. Leads(by, at[0], joined[m] \o seqs[m + 1], at[m + 1])
        BY <3>2, <4>2, LeadsOn
      <4> QED
        BY <4>3, <4>4, <4>5
    <3> QED
      BY <3>3, <3>4
  <2>5. n \in good
    <3> HIDE DEF good
    <3> QED
      BY <2>3, <2>4, CountingUp
  <2> QED
    BY <1>2, <2>2, <2>5
<1> QED
  BY <1>1, <1>2

(* One more of what has been read so far. *)
LEMMA OneMore ==
    ASSUME NEW m \in Nat, NEW list, NEW all, DOMAIN all = 1..(m + 1), all = [i \in 1..(m + 1) |-> all[i]],
           list = [i \in 1..m |-> all[i]]
    PROVE  Append(list, all[m + 1]) = all
<1>1. PICK R : R = {all[i] : i \in 1..(m + 1)}
  OBVIOUS
<1>2. list \in Seq(R) /\ all \in Seq(R) /\ all[m + 1] \in R
  <2>1. \A i \in 1..(m + 1) : all[i] \in R
    BY <1>1
  <2>2. list \in [1..m -> R] /\ all \in [1..(m + 1) -> R]
    BY <2>1
  <2> QED
    BY <2>1, <2>2
<1>3. Len(list) = m /\ Len(all) = m + 1
  BY <1>2, LenProperties
<1>4. PICK s : s = Append(list, all[m + 1])
  OBVIOUS
<1>5. s \in Seq(R) /\ Len(s) = m + 1 /\ (\A i \in 1..m : s[i] = list[i]) /\ s[m + 1] = all[m + 1]
  BY <1>2, <1>3, <1>4, AppendProperties
<1>6. ASSUME NEW i \in 1..(m + 1) PROVE s[i] = all[i]
  <2>1. i \in 1..m \/ i = m + 1
    OBVIOUS
  <2> QED
    BY <2>1, <1>5
<1> QED
  BY <1>2, <1>3, <1>4, <1>5, <1>6, SeqEqual

(* What Format-List prints of any objects, the record parsers read: one      *)
(* record per object, in their order, with every property at its key.        *)
THEOREM ParsesPrinted ==
    ASSUME NEW names, AreKeys(names), NEW O, NEW objects \in Seq(O)
    PROVE  ParseRecords(Range(names), names[Len(names)], PrintedObjects(names, objects))
             = [i \in DOMAIN objects |-> RecordOf(names, objects[i])]
<1> DEFINE n == Len(objects)
           by == ReaderOf(names)
           printed(i) == Append(PropertyLines(names, objects[i]), OtherLine)
           seqs == [i \in DOMAIN objects |-> printed(i)]
           read(m) == [i \in 1..m |-> RecordOf(names, objects[i])]
           L == {Line(names[k], objects[i][names[k]]) : k \in 1..Len(names), i \in 1..n}
                  \union {OtherLine}
           all == PrintedObjects(names, objects)
<1>1. n \in Nat /\ DOMAIN objects = 1..n
  BY LenProperties
<1>2. Len(names) \in Nat \ {0} /\ DOMAIN names = 1..Len(names)
  BY LenProperties DEF AreKeys
<1>3. all = FlattenSeq(seqs)
  BY DEF PrintedObjects, PropertyLines
<1>4. OtherLine \in L
  OBVIOUS
<1>5. ASSUME NEW i \in 1..n PROVE PropertyLines(names, objects[i]) \in Seq(L)
  <2>1. \A k \in 1..Len(names) : Line(names[k], objects[i][names[k]]) \in L
    OBVIOUS
  <2> HIDE DEF L
  <2> QED
    BY <1>2, <2>1 DEF PropertyLines
<1> HIDE DEF L, n, seqs, printed, read, by
<1>6. PICK at : at = [m \in 0..n |-> Between(names, read(m))]
  OBVIOUS
<1>7. DOMAIN seqs = 1..n /\ seqs = [i \in 1..n |-> seqs[i]] /\ \A i \in 1..n : seqs[i] = printed(i)
  BY <1>1 DEF seqs
<1>8. ASSUME NEW i \in 1..n PROVE seqs[i] \in Seq(L) /\ Leads(by, at[i - 1], seqs[i], at[i])
  <2>1. PICK m \in Nat : i = m + 1 /\ m \in 0..n /\ i \in 0..n
    BY <1>1
  <2>2. Append(read(m), RecordOf(names, objects[m + 1])) = read(m + 1)
    <3>1. /\ DOMAIN read(m + 1) = 1..(m + 1) /\ read(m + 1) = [k \in 1..(m + 1) |-> read(m + 1)[k]]
          /\ read(m) = [k \in 1..m |-> read(m + 1)[k]]
          /\ read(m + 1)[m + 1] = RecordOf(names, objects[m + 1])
      BY DEF read
    <3> QED
      BY <3>1, OneMore
  <2>3. /\ seqs[i] \in Seq(L)
        /\ Leads(by, Between(names, read(m)), seqs[i],
                 Between(names, Append(read(m), RecordOf(names, objects[i]))))
    BY <1>4, <1>5, <1>7, LeadsPrinted DEF printed, by
  <2>4. at[i - 1] = Between(names, read(m)) /\ at[i] = Between(names, read(i)) /\ i - 1 = m
    BY <1>6, <2>1
  <2> QED
    BY <2>1, <2>2, <2>3, <2>4
<1>9. all \in Seq(L) /\ Leads(by, at[0], all, at[n])
  <2> HIDE DEF all
  <2> QED
    BY <1>1, <1>3, <1>7, <1>8, LeadsFlattened
<1>10. at[0] = Between(names, <<>>) /\ at[n] = Between(names, read(n))
  BY <1>1, <1>6 DEF read
<1>11. Leads(by, Between(names, <<>>), Stripped(all), Between(names, read(n)))
       /\ Stripped(all) \in Seq(L \union {OtherLine})
  <2>1. Reads(by, Between(names, <<>>), OtherLine, Between(names, <<>>))
    BY OtherSaysNothing DEF by
  <2> HIDE DEF all
  <2> QED
    BY <2>1, <1>9, <1>10, LeadsStripped
<1> HIDE DEF all
<1>12. ParseRecords(Range(names), names[Len(names)], all) = read(n)
  BY <1>11, ParseRecordsIs DEF Between, by, ReaderOf
<1> QED
  BY <1>1, <1>12 DEF read, all

-------------------------------------------------------------------------------
(* The lines of a row of the CA database are read into a certificate.        *)
RowHead(row) ==
    <<OtherLine, Line("CertificateTemplate", row.template), Line("RawCertificate", row.chunks[1])>>
RowMore(row) == [c \in 1..(Len(row.chunks) - 1) |-> Line("more", row.chunks[c + 1])]
RowTail(row) ==
    <<Line("CertificateTemplateOid", row.template), OtherLine, Line("more", NoValue), OtherLine>>
RowLines(row) == RowHead(row) \o RowMore(row) \o RowTail(row)

HasChunks(row) == row.chunks \in Seq(Range(row.chunks)) \ {<<>>}
CertificateIn(row) == [template |-> row.template, certificate |-> row.chunks]

(* Within a certificate, with so many of its chunks read. *)
Outside(cert, template, result) ==
    [in_cert |-> FALSE, cert |-> cert, template |-> template, result |-> result]
Inside(cert, template, result) ==
    [in_cert |-> TRUE, cert |-> cert, template |-> template, result |-> result]
Within(row, k, result) == Inside([i \in 1..k |-> row.chunks[i]], row.template, result)

(* A chunk is read, or the first one. *)
More(s, chunk) == [s EXCEPT !.cert = Append(@, chunk)]
Started(s, chunk) == [s EXCEPT !.cert = Append(@, chunk), !.in_cert = TRUE]

LEMMA Extended ==
    ASSUME NEW cert, NEW template, NEW result, NEW chunk
    PROVE  /\ More(Inside(cert, template, result), chunk) = Inside(Append(cert, chunk), template, result)
           /\ Started(Outside(cert, template, result), chunk) = Inside(Append(cert, chunk), template, result)
<1>1. PICK next, yes, no : next = Append(cert, chunk) /\ yes = TRUE /\ no = FALSE
  OBVIOUS
<1>2. ASSUME NEW s, NEW in, s = [in_cert |-> in, cert |-> cert, template |-> template, result |-> result]
      PROVE  /\ s.cert = cert
             /\ [s EXCEPT !.cert = next]
                  = [in_cert |-> in, cert |-> next, template |-> template, result |-> result]
             /\ [s EXCEPT !.cert = next, !.in_cert = yes]
                  = [in_cert |-> yes, cert |-> next, template |-> template, result |-> result]
  <2>1. PICK one : one = [s EXCEPT !.cert = next]
    OBVIOUS
  <2>2. one = [in_cert |-> in, cert |-> next, template |-> template, result |-> result]
    BY <1>2, <2>1
  <2>3. [one EXCEPT !.in_cert = yes] = [in_cert |-> yes, cert |-> next, template |-> template, result |-> result]
    BY <2>2
  <2>4. s.cert = cert
    BY <1>2
  <2> QED
    BY <2>1, <2>2, <2>3, <2>4
<1>3. PICK s : s = [in_cert |-> yes, cert |-> cert, template |-> template, result |-> result]
  OBVIOUS
<1>4. PICK t : t = [in_cert |-> no, cert |-> cert, template |-> template, result |-> result]
  OBVIOUS
<1>5. s = Inside(cert, template, result) /\ t = Outside(cert, template, result)
  BY <1>1, <1>3, <1>4, Zenon DEF Inside, Outside
<1>6. More(s, chunk) = [in_cert |-> yes, cert |-> next, template |-> template, result |-> result]
  BY <1>1, <1>2, <1>3 DEF More
<1>7. Started(t, chunk) = [in_cert |-> yes, cert |-> next, template |-> template, result |-> result]
  <2>1. t.cert = cert /\ [t EXCEPT !.cert = next, !.in_cert = yes]
                            = [in_cert |-> yes, cert |-> next, template |-> template, result |-> result]
    BY <1>2, <1>4
  <2> QED
    BY <1>1, <2>1, Zenon DEF Started
<1>8. Inside(Append(cert, chunk), template, result)
        = [in_cert |-> yes, cert |-> next, template |-> template, result |-> result]
  BY <1>1, Zenon DEF Inside
<1> QED
  BY <1>5, <1>6, <1>7, <1>8

LEMMA LeadsThree ==
    ASSUME NEW by, NEW s0, NEW l1, NEW s1, NEW l2, NEW s2, NEW l3, NEW s3,
           Reads(by, s0, l1, s1), Reads(by, s1, l2, s2), Reads(by, s2, l3, s3)
    PROVE  Leads(by, s0, <<l1, l2, l3>>, s3)
<1>1. PICK states : states = [k \in 0..3 |-> IF k = 0 THEN s0 ELSE IF k = 1 THEN s1 ELSE IF k = 2 THEN s2 ELSE s3]
  OBVIOUS
<1>2. states[0] = s0 /\ states[1] = s1 /\ states[2] = s2 /\ states[3] = s3
  BY <1>1
<1>3. Len(<<l1, l2, l3>>) = 3
  OBVIOUS
<1>4. ASSUME NEW k \in 1..3 PROVE Reads(by, states[k - 1], <<l1, l2, l3>>[k], states[k])
  <2>1. CASE k = 1
    BY <1>2, <2>1
  <2>2. CASE k = 2
    BY <1>2, <2>2
  <2>3. CASE k = 3
    BY <1>2, <2>3
  <2> QED
    BY <2>1, <2>2, <2>3
<1>5. Steps(by, s0, <<l1, l2, l3>>, s3, states)
  BY <1>2, <1>3, <1>4 DEF Steps
<1> QED
  BY <1>5 DEF Leads

(* What a line says outside a certificate and within one. *)
LEMMA LineOutside ==
    ASSUME NEW result, NEW value, NEW key \in {"other", "more"}
    PROVE  /\ Reads(Certificates, NoCertificate(result), Line(key, value), NoCertificate(result))
           /\ Reads(Certificates, NoCertificate(result), OtherLine, NoCertificate(result))
BY DEF Reads, Read, Certificates, NoCertificate, ReadCertificateLine, Line, OtherLine

LEMMA HeadRead ==
    ASSUME NEW row, HasChunks(row), NEW result
    PROVE  Leads(Certificates, NoCertificate(result), RowHead(row), Within(row, 1, result))
<1>1. PICK named : named = [NoCertificate(result) EXCEPT !.template = row.template]
  OBVIOUS
<1>2. named = Outside(<<>>, row.template, result)
  BY <1>1 DEF NoCertificate, Inside, Outside
<1>3. Reads(Certificates, NoCertificate(result), OtherLine, NoCertificate(result))
  BY LineOutside
<1>4. Reads(Certificates, NoCertificate(result), Line("CertificateTemplate", row.template), named)
  BY <1>1 DEF Reads, Read, Certificates, NoCertificate, ReadCertificateLine, Line, OtherLine
<1>5. PICK chunk : chunk = row.chunks[1]
  OBVIOUS
<1>6. Append(<<>>, chunk) = [i \in 1..1 |-> row.chunks[i]]
  BY <1>5
<1>7. Reads(Certificates, named, Line("RawCertificate", chunk), Within(row, 1, result))
  <2>1. PICK one : one = Append(<<>>, chunk)
    OBVIOUS
  <2>2. Within(row, 1, result) = Inside(one, row.template, result)
    BY <1>6, <2>1 DEF Within
  <2>3. Started(named, chunk) = Within(row, 1, result)
    <3>1. Started(named, chunk) = Inside(Append(<<>>, chunk), row.template, result)
      BY <1>2, Extended
    <3> QED
      BY <2>1, <2>2, <3>1
  <2>4. named.in_cert = FALSE
    BY <1>2 DEF Inside, Outside
  <2> QED
    BY <2>3, <2>4 DEF Started, Reads, Read, Certificates, ReadCertificateLine, Line, OtherLine
<1> QED
  BY <1>3, <1>4, <1>5, <1>7, LeadsThree DEF RowHead

LEMMA MoreRead ==
    ASSUME NEW row, HasChunks(row), NEW result
    PROVE  Leads(Certificates, Within(row, 1, result), RowMore(row), Within(row, Len(row.chunks), result))
<1> DEFINE n == Len(row.chunks)
           lines == RowMore(row)
<1>1. n \in Nat \ {0} /\ DOMAIN row.chunks = 1..n
  BY LenProperties, EmptySeq DEF HasChunks
<1>2. Len(lines) = n - 1 /\ \A c \in 1..(n - 1) : lines[c] = Line("more", row.chunks[c + 1])
  <2>1. PICK X : X = {lines[c] : c \in 1..(n - 1)}
    OBVIOUS
  <2>2. lines \in [1..(n - 1) -> X]
    BY <2>1 DEF RowMore
  <2>3. lines \in Seq(X)
    <3> HIDE DEF lines, n
    <3> QED
      BY <1>1, <2>2
  <2>4. Len(lines) = n - 1
    <3> HIDE DEF lines, n
    <3> QED
      BY <1>1, <2>2, <2>3, LenProperties
  <2> QED
    BY <2>4 DEF RowMore
<1> HIDE DEF n, lines
<1>3. PICK states : states = [k \in 0..(n - 1) |-> Within(row, k + 1, result)]
  OBVIOUS
<1>4. states[0] = Within(row, 1, result) /\ states[n - 1] = Within(row, n, result)
  BY <1>1, <1>3
<1>5. ASSUME NEW k \in 1..(n - 1) PROVE Reads(Certificates, states[k - 1], lines[k], states[k])
  <2>1. states[k - 1] = Within(row, k, result) /\ states[k] = Within(row, k + 1, result)
    BY <1>1, <1>3
  <2>2. PICK chunk : chunk = row.chunks[k + 1]
    OBVIOUS
  <2>3. Append([i \in 1..k |-> row.chunks[i]], chunk) = [i \in 1..(k + 1) |-> row.chunks[i]]
    <3>1. PICK all : all = [i \in 1..(k + 1) |-> row.chunks[i]]
      OBVIOUS
    <3>2. /\ DOMAIN all = 1..(k + 1) /\ all = [i \in 1..(k + 1) |-> all[i]] /\ all[k + 1] = chunk
          /\ [i \in 1..k |-> row.chunks[i]] = [i \in 1..k |-> all[i]] /\ k \in Nat
      BY <1>1, <2>2, <3>1
    <3> QED
      BY <3>1, <3>2, OneMore
  <2>4. lines[k] = Line("more", chunk)
    BY <1>2, <2>2
  <2>5. PICK s : s = Within(row, k, result)
    OBVIOUS
  <2>6. More(s, chunk) = Within(row, k + 1, result)
    <3>1. PICK list, more : list = [i \in 1..k |-> row.chunks[i]] /\ more = Append(list, chunk)
      OBVIOUS
    <3>2. s = Inside(list, row.template, result)
      BY <2>5, <3>1 DEF Within, Inside, Outside
    <3>3. Within(row, k + 1, result) = Inside(more, row.template, result)
      BY <2>3, <3>1 DEF Within, Inside, Outside
    <3>4. More(s, chunk) = Inside(Append(list, chunk), row.template, result)
      BY <3>2, Extended
    <3> QED
      BY <3>1, <3>3, <3>4
  <2>7. s.in_cert = TRUE
    BY <2>5 DEF Within, Inside, Outside
  <2>8. Reads(Certificates, s, Line("more", chunk), Within(row, k + 1, result))
    BY <2>6, <2>7 DEF More, Reads, Read, Certificates, ReadCertificateLine, Line, OtherLine
  <2> QED
    BY <2>1, <2>4, <2>5, <2>8
<1>6. Steps(Certificates, Within(row, 1, result), lines, Within(row, n, result), states)
  BY <1>2, <1>4, <1>5 DEF Steps
<1> QED
  BY <1>6 DEF Leads, lines, n

LEMMA TailRead ==
    ASSUME NEW row, HasChunks(row), NEW result, NEW n, n = Len(row.chunks)
    PROVE  Leads(Certificates, Within(row, n, result), RowTail(row),
                 NoCertificate(Append(result, CertificateIn(row))))
<1>1. n \in Nat \ {0} /\ DOMAIN row.chunks = 1..n /\ row.chunks = [i \in 1..n |-> row.chunks[i]]
  BY LenProperties, EmptySeq DEF HasChunks
<1>2. PICK read : read = NoCertificate(Append(result, CertificateIn(row)))
  OBVIOUS
<1>3. PICK s : s = Within(row, n, result)
  OBVIOUS
<1>4. s.in_cert = TRUE /\ s.template = row.template /\ s.cert = row.chunks /\ s.result = result
  BY <1>1, <1>3 DEF Within, Inside, Outside
<1>5. Reads(Certificates, s, Line("CertificateTemplateOid", row.template), read)
  <2>1. NoCertificate(Append(s.result, [template |-> s.template, certificate |-> s.cert])) = read
    BY <1>2, <1>4 DEF CertificateIn
  <2> QED
    BY <1>4, <2>1 DEF Reads, Read, Certificates, ReadCertificateLine, Line, OtherLine
<1>6. /\ Reads(Certificates, read, OtherLine, read)
      /\ Reads(Certificates, read, Line("more", NoValue), read)
  BY <1>2, LineOutside
<1>7. Leads(Certificates, s, <<Line("CertificateTemplateOid", row.template), OtherLine, Line("more", NoValue)>>, read)
  BY <1>5, <1>6, LeadsThree
<1>8. Leads(Certificates, read, <<OtherLine>>, read)
  BY <1>6, LeadsLine
<1>9. PICK x, y, z : x = Line("CertificateTemplateOid", row.template) /\ y = OtherLine /\ z = Line("more", NoValue)
  OBVIOUS
<1>10. <<x, y, z>> \in Seq({x, y, z}) /\ <<y>> \in Seq({x, y, z}) /\ <<x, y, z>> \o <<y>> = <<x, y, z, y>>
  <2>1. <<x, y, z>> \in Seq({x, y, z}) /\ <<y>> \in Seq({x, y, z})
    OBVIOUS
  <2>2. <<x, y, z>> \o <<y>> = Append(<<x, y, z>>, y)
    BY <2>1, AppendIsConcat
  <2>3. PICK four : four = Append(<<x, y, z>>, y)
    OBVIOUS
  <2>4. four \in Seq({x, y, z}) /\ Len(four) = 4 /\ four[1] = x /\ four[2] = y /\ four[3] = z /\ four[4] = y
    BY <2>1, <2>3
  <2>5. four = <<x, y, z, y>>
    BY <2>4
  <2> QED
    BY <2>1, <2>2, <2>3, <2>5
<1>11. Leads(Certificates, s, <<x, y, z>> \o <<y>>, read)
  BY <1>7, <1>8, <1>9, <1>10, LeadsOn
<1> QED
  BY <1>2, <1>3, <1>9, <1>10, <1>11 DEF RowTail

LEMMA RowRead ==
    ASSUME NEW row, HasChunks(row), NEW result, NEW L, RowHead(row) \in Seq(L),
           RowMore(row) \in Seq(L), RowTail(row) \in Seq(L)
    PROVE  /\ RowLines(row) \in Seq(L)
           /\ Leads(Certificates, NoCertificate(result), RowLines(row),
                    NoCertificate(Append(result, CertificateIn(row))))
<1>1. PICK n : n = Len(row.chunks)
  OBVIOUS
<1>2. Leads(Certificates, NoCertificate(result), RowHead(row) \o RowMore(row), Within(row, n, result))
  BY <1>1, HeadRead, MoreRead, LeadsOn
<1>3. RowHead(row) \o RowMore(row) \in Seq(L)
  BY ConcatProperties
<1>4. Leads(Certificates, Within(row, n, result), RowTail(row), NoCertificate(Append(result, CertificateIn(row))))
  BY <1>1, TailRead
<1> QED
  BY <1>2, <1>3, <1>4, LeadsOn, ConcatProperties DEF RowLines

(* Of what Get-AdcsDatabaseRow prints, parse_certificates reads one          *)
(* certificate per row, in their order, whole and with its row's template.   *)
THEOREM ParsesRows ==
    ASSUME NEW R, NEW rows \in Seq(R), \A i \in DOMAIN rows : HasChunks(rows[i])
    PROVE  parse_certificates(PrintedRows(rows)) = [i \in DOMAIN rows |-> CertificateIn(rows[i])]
<1> DEFINE n == Len(rows)
           seqs == [i \in DOMAIN rows |-> RowLines(rows[i])]
           read(m) == [i \in 1..m |-> CertificateIn(rows[i])]
           L == UNION {Range(RowHead(rows[i])) \union Range(RowMore(rows[i])) \union Range(RowTail(rows[i])) : i \in 1..n}
           all == PrintedRows(rows)
<1>1. n \in Nat /\ DOMAIN rows = 1..n
  BY LenProperties
<1>2. all = FlattenSeq(seqs)
  BY DEF PrintedRows, RowLines, RowHead, RowMore, RowTail
<1>3. ASSUME NEW i \in 1..n
      PROVE  RowHead(rows[i]) \in Seq(L) /\ RowMore(rows[i]) \in Seq(L) /\ RowTail(rows[i]) \in Seq(L)
  <2>1. PICK row : row = rows[i]
    OBVIOUS
  <2>2. Range(RowHead(row)) \subseteq L /\ Range(RowMore(row)) \subseteq L /\ Range(RowTail(row)) \subseteq L
    BY <2>1
  <2>3. PICK w : w = Len(row.chunks) - 1
    OBVIOUS
  <2>4. w \in Nat
    BY <1>1, <2>1, <2>3, LenProperties, EmptySeq DEF HasChunks
  <2>5. RowMore(row) \in [1..w -> Range(RowMore(row))]
    BY <2>3 DEF RowMore, Range
  <2>6. RowMore(row) \in Seq(L)
    <3> HIDE DEF L
    <3> QED
      BY <2>2, <2>4, <2>5
  <2>7. \A x, y, z : Range(<<x, y, z>>) = {x, y, z}
    BY DEF Range
  <2>8. \A x, y, z, u : Range(<<x, y, z, u>>) = {x, y, z, u}
    BY DEF Range
  <2>9. RowHead(row) \in Seq(L) /\ RowTail(row) \in Seq(L)
    <3> HIDE DEF L
    <3> QED
      BY <2>2, <2>7, <2>8 DEF RowHead, RowTail
  <2> QED
    BY <2>1, <2>6, <2>9
<1> HIDE DEF L, n, seqs, read
<1>4. PICK at : at = [m \in 0..n |-> NoCertificate(read(m))]
  OBVIOUS
<1>5. DOMAIN seqs = 1..n /\ seqs = [i \in 1..n |-> seqs[i]] /\ \A i \in 1..n : seqs[i] = RowLines(rows[i])
  BY <1>1 DEF seqs
<1>6. ASSUME NEW i \in 1..n PROVE seqs[i] \in Seq(L) /\ Leads(Certificates, at[i - 1], seqs[i], at[i])
  <2>1. PICK m \in Nat : i = m + 1 /\ m \in 0..n /\ i \in 0..n
    BY <1>1
  <2>2. Append(read(m), CertificateIn(rows[m + 1])) = read(m + 1)
    <3>1. /\ DOMAIN read(m + 1) = 1..(m + 1) /\ read(m + 1) = [k \in 1..(m + 1) |-> read(m + 1)[k]]
          /\ read(m) = [k \in 1..m |-> read(m + 1)[k]]
          /\ read(m + 1)[m + 1] = CertificateIn(rows[m + 1])
      BY DEF read
    <3> QED
      BY <3>1, OneMore
  <2>3. /\ seqs[i] \in Seq(L)
        /\ Leads(Certificates, NoCertificate(read(m)), seqs[i],
                 NoCertificate(Append(read(m), CertificateIn(rows[i]))))
    BY <1>1, <1>3, <1>5, RowRead
  <2>4. at[i - 1] = NoCertificate(read(m)) /\ at[i] = NoCertificate(read(i)) /\ i - 1 = m
    BY <1>4, <2>1
  <2> QED
    BY <2>1, <2>2, <2>3, <2>4
<1>7. all \in Seq(L) /\ Leads(Certificates, at[0], all, at[n])
  <2> HIDE DEF all
  <2> QED
    BY <1>1, <1>2, <1>5, <1>6, LeadsFlattened
<1>8. at[0] = NoCertificate(<<>>) /\ at[n] = NoCertificate(read(n))
  BY <1>1, <1>4 DEF read
<1>9. Leads(Certificates, NoCertificate(<<>>), Stripped(all), NoCertificate(read(n)))
      /\ Stripped(all) \in Seq(L \union {OtherLine})
  <2>1. Reads(Certificates, NoCertificate(<<>>), OtherLine, NoCertificate(<<>>))
    BY LineOutside
  <2> HIDE DEF all
  <2> QED
    BY <2>1, <1>7, <1>8, LeadsStripped
<1> HIDE DEF all
<1>10. parse_certificates(all) = read(n)
  BY <1>9, ParseCertificatesIs
<1> QED
  BY <1>1, <1>10 DEF read, all

-------------------------------------------------------------------------------
(* The keys of the parsers are told apart. *)
LEMMA TheKeys == AreKeys(TemplateKeys) /\ AreKeys(AuthorityKeys) /\ AreKeys(IdentifiedKeys)
<1>1. AreKeys(TemplateKeys)
  BY DEF AreKeys, TemplateKeys, OtherLine, Line, Range
<1>2. AreKeys(AuthorityKeys)
  BY DEF AreKeys, AuthorityKeys, OtherLine, Line, Range
<1>3. AreKeys(IdentifiedKeys)
  BY DEF AreKeys, IdentifiedKeys, OtherLine, Line, Range
<1> QED
  BY <1>1, <1>2, <1>3

(* A list of the server's CAs or templates, every property in its field. *)
CaOf(o) ==
    [name |-> o["Name"], display_name |-> o["DisplayName"], computer_name |-> o["ComputerName"],
     config_string |-> o["ConfigString"], ca_type |-> o["Type"],
     is_enterprise |-> o["IsEnterprise"], is_root |-> o["IsRoot"],
     is_accessible |-> o["IsAccessible"], service_status |-> o["ServiceStatus"]]
TemplateOf(o) ==
    [name |-> o["Name"], display_name |-> o["DisplayName"], schema_version |-> o["SchemaVersion"],
     version |-> o["Version"], oid |-> o["OID"]]

LEMMA CasRead ==
    ASSUME NEW a \in Authorities
    PROVE  get_cas(a) = [i \in DOMAIN Forest[a] |-> CaOf(Forest[a][i])]
<1>1. Forest[a] \in Seq(Range(Forest[a]))
  BY FormsAssumption
<1>2. Len(AuthorityKeys) = 9 /\ AuthorityKeys[9] = "ServiceStatus"
  BY DEF AuthorityKeys
<1>3. ParseRecords(Range(AuthorityKeys), "ServiceStatus", PrintedObjects(AuthorityKeys, Forest[a]))
        = [i \in DOMAIN Forest[a] |-> RecordOf(AuthorityKeys, Forest[a][i])]
  <2>1. ParseRecords(Range(AuthorityKeys), AuthorityKeys[Len(AuthorityKeys)], PrintedObjects(AuthorityKeys, Forest[a]))
          = [i \in DOMAIN Forest[a] |-> RecordOf(AuthorityKeys, Forest[a][i])]
    BY <1>1, TheKeys, ParsesPrinted
  <2> QED
    BY <2>1, <1>2
<1>4. \A k \in {"Name", "DisplayName", "ComputerName", "ConfigString", "Type", "IsEnterprise",
                "IsRoot", "IsAccessible", "ServiceStatus"} : k \in Range(AuthorityKeys)
  BY DEF AuthorityKeys, Range
<1> QED
  BY <1>3, <1>4 DEF get_cas, parse_authority_data, CaOf, RecordOf

LEMMA TemplatesRead ==
    ASSUME NEW a \in Authorities
    PROVE  get_templates(a) = [i \in DOMAIN TemplatesOf[a] |-> TemplateOf(TemplatesOf[a][i])]
<1>1. TemplatesOf[a] \in Seq(Range(TemplatesOf[a]))
  BY FormsAssumption
<1>2. Len(TemplateKeys) = 5 /\ TemplateKeys[5] = "OID"
  BY DEF TemplateKeys
<1>3. ParseRecords(Range(TemplateKeys), "OID", PrintedObjects(TemplateKeys, TemplatesOf[a]))
        = [i \in DOMAIN TemplatesOf[a] |-> RecordOf(TemplateKeys, TemplatesOf[a][i])]
  <2>1. ParseRecords(Range(TemplateKeys), TemplateKeys[Len(TemplateKeys)], PrintedObjects(TemplateKeys, TemplatesOf[a]))
          = [i \in DOMAIN TemplatesOf[a] |-> RecordOf(TemplateKeys, TemplatesOf[a][i])]
    BY <1>1, TheKeys, ParsesPrinted
  <2> QED
    BY <2>1, <1>2
<1>4. \A k \in {"Name", "DisplayName", "SchemaVersion", "Version", "OID"} : k \in Range(TemplateKeys)
  BY DEF TemplateKeys, Range
<1> QED
  BY <1>3, <1>4 DEF get_templates, parse_template_data, TemplateOf, RecordOf

-------------------------------------------------------------------------------
(* What a form's attributes are, by their names.                             *)
CaNames == {"discovery_ca_name", "raprofile_ca_name"}
TemplateNames == {"discovery_template_name", "raprofile_template_name"}
Groups == {"discovery_ca_select_group", "raprofile_ca_select_group"}
MethodNames == {"discovery_select_ca_method", "raprofile_select_ca_method"}
(* What takes one value only, what is required, and what is typed in. *)
SingleNames == MethodNames \union
    {"discovery_authority_instance", "discovery_config_string",
     "raprofile_ca_name", "raprofile_config_string", "raprofile_template_name"}
RequiredNames == MethodNames \union {"discovery_authority_instance", "raprofile_template_name"}
AlwaysShown == RequiredNames \union {"discovery_template_name"}
PlainNames == {"discovery_config_string", "raprofile_config_string"}

ValueNames(kind) ==
    CASE kind = "discovery" -> DiscoveryNames
      [] kind = "raprofile" -> RaProfileNames
      [] OTHER -> {}
FormNames(kind) ==
    CASE kind = "discovery" -> DiscoveryNames \union
             {"discovery_info", "discovery_issued_after", "discovery_ca_select_group"}
      [] kind = "raprofile" -> RaProfileNames \union {"raprofile_ca_select_group"}
      [] OTHER -> {}

CallbackOf(name) ==
    CASE name = "discovery_ca_select_group" -> get_discovery_ca_select_group_attribute.callback
      [] name = "raprofile_ca_select_group" -> get_raprofile_ca_select_group_attribute.callback
      [] name = "discovery_template_name" -> get_discovery_template_name_attribute.callback
      [] OTHER -> NoCallback
TypeOf(name) == IF name \in Groups THEN "group" ELSE IF name = "discovery_info" THEN "info" ELSE "data"

IsList(s) == s \in Seq(Range(s))
NamedApart(s) == \A i, j \in DOMAIN s : s[i].name = s[j].name => i = j

Fields == {"name", "type", "contentType", "required", "visible", "list", "multi", "content", "callback"}

Described(d, kind) ==
    /\ d = [f \in Fields |-> d[f]]
    /\ d.name \in FormNames(kind)
    /\ d.type = TypeOf(d.name) /\ d.callback = CallbackOf(d.name)
    /\ d.name = "raprofile_authority_uuid" => d.visible = FALSE
    /\ d.name \in Groups => d.content = <<>>
    /\ d.name \in CaNames \union TemplateNames => d.list = TRUE /\ IsList(d.content)

Flagged(d) ==
    /\ d.name \in SingleNames => d.multi = FALSE
    /\ d.name \in RequiredNames => d.required = TRUE
    /\ d.name \in MethodNames => d.list = TRUE /\ d.content = CaSelectMethods
    /\ d.name \in PlainNames => d.list = FALSE

(* What the callback of the group brings. *)
SelectionName(kind, method) ==
    IF kind = "discovery"
    THEN IF method = "configstring" THEN "discovery_config_string" ELSE "discovery_ca_name"
    ELSE IF method = "configstring" THEN "raprofile_config_string" ELSE "raprofile_ca_name"
MethodOf(kind) == IF kind = "discovery" THEN "discovery_select_ca_method" ELSE "raprofile_select_ca_method"

-------------------------------------------------------------------------------
(* The inductive invariant: the attributes shown are those of the form, each *)
(* once, the group of the CA among them, but none that it brings while its   *)
(* callback is still to be run; and what is offered is up to date unless the *)
(* callback that renews it is still to be run.                               *)
ShownOK ==
    /\ IsList(shown)
    /\ NamedApart(shown)
    /\ \A d \in Range(shown) : Described(d, form.kind)

FormOK ==
    /\ form.kind \in {"none", "discovery", "raprofile"}
    /\ form.kind = "none" => shown = <<>>
    /\ form.kind # "none" => \E d \in Range(shown) : d.name \in Groups
    /\ authorities \subseteq Authorities

ValuesOK ==
    /\ form.kind # "none" => DOMAIN values = ValueNames(form.kind)
    /\ \A n \in (CaNames \union TemplateNames) \intersect ValueNames(form.kind) : IsList(values[n])
    /\ form.kind = "raprofile" =>
           form.uuid \in Authorities /\ values["raprofile_authority_uuid"] = <<form.uuid>>

PendingOK ==
    /\ pending \subseteq Groups \union {"discovery_template_name"}
    /\ pending \subseteq FormNames(form.kind)
    /\ pending \intersect Groups # {} => \A d \in Range(shown) : d.name \notin GroupNames

Offered(d, list) == d.content = list /\ Range(values[d.name]) \subseteq Range(list)

OffersOK ==
    \A d \in Range(shown) :
        /\ d.name \in CaNames => ChosenAuthority \in Authorities /\ Offered(d, get_cas(ChosenAuthority))
        /\ \/ d.name = "raprofile_template_name"
           \/ /\ d.name = "discovery_template_name" /\ d.name \notin pending
              /\ values["discovery_authority_instance"] # <<>>
           => ChosenAuthority \in Authorities /\ Offered(d, get_templates(ChosenAuthority))

FormInv == ShownOK /\ FormOK /\ ValuesOK /\ PendingOK /\ OffersOK

LEMMA EmptyIsList == IsList(<<>>)
BY EmptySeq DEF IsList

(* The definitions of the two forms, and those that the callbacks bring. *)
LEMMA DiscoveryDescribed ==
    ASSUME NEW instances
    PROVE  /\ \A i \in 1..6 : Described(get_discovery_attributes_list(instances)[i], "discovery")
           /\ Len(get_discovery_attributes_list(instances)) = 6
           /\ DOMAIN get_discovery_attributes_list(instances) = 1..6
           /\ \A i \in 1..6 : get_discovery_attributes_list(instances)[i].name =
                  <<"discovery_info", "discovery_authority_instance", "discovery_select_ca_method",
                    "discovery_ca_select_group", "discovery_template_name", "discovery_issued_after">>[i]
<1> DEFINE all == get_discovery_attributes_list(instances)
<1>1. all = <<get_discovery_info_attribute, get_authority_instances_attribute(instances),
              get_discovery_select_ca_method_attribute, get_discovery_ca_select_group_attribute,
              get_discovery_template_name_attribute, get_issued_after_attribute>>
  BY DEF get_discovery_attributes_list
<1> USE DEF Described, Fields, FormNames, DiscoveryNames, TypeOf, Groups, CallbackOf, CaNames,
            TemplateNames, DataAttribute
<1>2. Described(get_discovery_info_attribute, "discovery")
  BY DEF get_discovery_info_attribute, InfoAttribute
<1>3. Described(get_authority_instances_attribute(instances), "discovery")
  BY DEF get_authority_instances_attribute
<1>4. Described(get_discovery_select_ca_method_attribute, "discovery")
  BY DEF get_discovery_select_ca_method_attribute
<1>5. Described(get_discovery_ca_select_group_attribute, "discovery")
  BY DEF get_discovery_ca_select_group_attribute, GroupAttribute
<1>6. Described(get_discovery_template_name_attribute, "discovery")
  BY EmptyIsList DEF get_discovery_template_name_attribute
<1>7. Described(get_issued_after_attribute, "discovery")
  BY DEF get_issued_after_attribute
<1>8. \A i \in 1..6 : Described(all[i], "discovery")
  <2> HIDE DEF Described
  <2> QED
    BY <1>1, <1>2, <1>3, <1>4, <1>5, <1>6, <1>7
<1>9. /\ get_discovery_info_attribute.name = "discovery_info"
      /\ get_authority_instances_attribute(instances).name = "discovery_authority_instance"
      /\ get_discovery_select_ca_method_attribute.name = "discovery_select_ca_method"
      /\ get_discovery_ca_select_group_attribute.name = "discovery_ca_select_group"
      /\ get_discovery_template_name_attribute.name = "discovery_template_name"
      /\ get_issued_after_attribute.name = "discovery_issued_after"
  BY DEF get_discovery_info_attribute, InfoAttribute, get_authority_instances_attribute,
         get_discovery_select_ca_method_attribute, get_discovery_ca_select_group_attribute,
         GroupAttribute, get_discovery_template_name_attribute, get_issued_after_attribute
<1>10. Len(all) = 6 /\ DOMAIN all = 1..6
  BY <1>1
<1> QED
  BY <1>1, <1>8, <1>9, <1>10

LEMMA RaProfileDescribed ==
    ASSUME NEW a, NEW templates, IsList(templates)
    PROVE  /\ \A i \in 1..4 : Described(get_raprofile_attributes_list(a, templates)[i], "raprofile")
           /\ Len(get_raprofile_attributes_list(a, templates)) = 4
           /\ DOMAIN get_raprofile_attributes_list(a, templates) = 1..4
           /\ \A i \in 1..4 : get_raprofile_attributes_list(a, templates)[i].name =
                  <<"raprofile_select_ca_method", "raprofile_authority_uuid",
                    "raprofile_ca_select_group", "raprofile_template_name">>[i]
           /\ get_raprofile_attributes_list(a, templates)[4].content = templates
<1> DEFINE all == get_raprofile_attributes_list(a, templates)
<1>1. all = <<get_raprofile_select_ca_method_attribute, get_authority_uuid_attribute(a),
              get_raprofile_ca_select_group_attribute, get_raprofile_template_name_attribute(templates)>>
  BY DEF get_raprofile_attributes_list
<1> USE DEF Described, Fields, FormNames, RaProfileNames, TypeOf, Groups, CallbackOf, CaNames,
            TemplateNames, DataAttribute
<1>2. Described(get_raprofile_select_ca_method_attribute, "raprofile")
  BY DEF get_raprofile_select_ca_method_attribute
<1>3. Described(get_authority_uuid_attribute(a), "raprofile")
  BY DEF get_authority_uuid_attribute
<1>4. Described(get_raprofile_ca_select_group_attribute, "raprofile")
  BY DEF get_raprofile_ca_select_group_attribute, GroupAttribute
<1>5. Described(get_raprofile_template_name_attribute(templates), "raprofile")
  BY DEF get_raprofile_template_name_attribute
<1>6. \A i \in 1..4 : Described(all[i], "raprofile")
  <2> HIDE DEF Described
  <2> QED
    BY <1>1, <1>2, <1>3, <1>4, <1>5
<1>7. /\ get_raprofile_select_ca_method_attribute.name = "raprofile_select_ca_method"
      /\ get_authority_uuid_attribute(a).name = "raprofile_authority_uuid"
      /\ get_raprofile_ca_select_group_attribute.name = "raprofile_ca_select_group"
      /\ get_raprofile_template_name_attribute(templates).name = "raprofile_template_name"
      /\ get_raprofile_template_name_attribute(templates).content = templates
  BY DEF get_raprofile_select_ca_method_attribute, get_authority_uuid_attribute,
         get_raprofile_ca_select_group_attribute, GroupAttribute, get_raprofile_template_name_attribute
<1>8. Len(all) = 4 /\ DOMAIN all = 1..4
  BY <1>1
<1> QED
  BY <1>1, <1>6, <1>7, <1>8

LEMMA BroughtDescribed ==
    ASSUME NEW cas, IsList(cas)
    PROVE  /\ Described(get_discovery_ca_name_attribute(cas), "discovery")
           /\ Described(get_discovery_config_string_attribute, "discovery")
           /\ Described(get_raprofile_ca_name_attribute(cas), "raprofile")
           /\ Described(get_raprofile_config_string_attribute, "raprofile")
           /\ get_discovery_ca_name_attribute(cas).name = "discovery_ca_name"
           /\ get_discovery_ca_name_attribute(cas).content = cas
           /\ get_discovery_config_string_attribute.name = "discovery_config_string"
           /\ get_raprofile_ca_name_attribute(cas).name = "raprofile_ca_name"
           /\ get_raprofile_ca_name_attribute(cas).content = cas
           /\ get_raprofile_config_string_attribute.name = "raprofile_config_string"
<1> USE DEF Described, Fields, FormNames, DiscoveryNames, RaProfileNames, TypeOf, Groups,
            CallbackOf, CaNames, TemplateNames, DataAttribute
<1>1. Described(get_discovery_ca_name_attribute(cas), "discovery")
  BY DEF get_discovery_ca_name_attribute
<1>2. Described(get_discovery_config_string_attribute, "discovery")
  BY DEF get_discovery_config_string_attribute
<1>3. Described(get_raprofile_ca_name_attribute(cas), "raprofile")
  BY DEF get_raprofile_ca_name_attribute
<1>4. Described(get_raprofile_config_string_attribute, "raprofile")
  BY DEF get_raprofile_config_string_attribute
<1>5. /\ get_discovery_ca_name_attribute(cas).name = "discovery_ca_name"
      /\ get_discovery_ca_name_attribute(cas).content = cas
      /\ get_discovery_config_string_attribute.name = "discovery_config_string"
      /\ get_raprofile_ca_name_attribute(cas).name = "raprofile_ca_name"
      /\ get_raprofile_ca_name_attribute(cas).content = cas
      /\ get_raprofile_config_string_attribute.name = "raprofile_config_string"
  BY DEF get_discovery_ca_name_attribute, get_discovery_config_string_attribute,
         get_raprofile_ca_name_attribute, get_raprofile_config_string_attribute
<1> HIDE DEF Described
<1> QED
  BY <1>1, <1>2, <1>3, <1>4, <1>5

-------------------------------------------------------------------------------
(* One attribute of a list gives way to others: what RunCallback shows.      *)
Splice(s, i, b) == SubSeq(s, 1, i - 1) \o b \o SubSeq(s, i + 1, Len(s))
AtPlace(out, s, i, b) ==
    \A p \in 1..(Len(s) - 1 + Len(b)) :
        out[p] = IF p < i THEN s[p] ELSE IF p < i + Len(b) THEN b[p - i + 1]
                 ELSE s[p - Len(b) + 1]

LEMMA Spliced ==
    ASSUME NEW X, NEW s \in Seq(X), NEW i \in 1..Len(s), NEW b \in Seq(X)
    PROVE  /\ Splice(s, i, b) \in Seq(X) /\ Len(Splice(s, i, b)) = Len(s) - 1 + Len(b)
           /\ AtPlace(Splice(s, i, b), s, i, b)
<1> DEFINE n == Len(s)
           out == Splice(s, i, b)
           m == Len(b)
           front == SubSeq(s, 1, i - 1)
           back == SubSeq(s, i + 1, n)
<1>1. n \in Nat /\ m \in Nat /\ i \in Nat /\ 1 <= i /\ i <= n
  BY LenProperties
<1>2. \A j \in 1..n : s[j] \in X
  BY ElementOfSeq
<1>3. /\ front \in Seq(X) /\ Len(front) = i - 1
      /\ \A j \in 1..(i - 1) : front[j] = s[j]
  <2> HIDE DEF n
  <2>1. \A j \in 1..(i - 1) : s[j] \in X
    BY <1>1, <1>2
  <2>2. /\ front \in Seq(X)
        /\ Len(front) = IF 1 <= i - 1 THEN (i - 1) - 1 + 1 ELSE 0
        /\ \A j \in 1..((i - 1) - 1 + 1) : front[j] = s[1 + j - 1]
    BY <1>1, <2>1, SubSeqProperties
  <2>3. (i - 1) - 1 + 1 = i - 1 /\ \A j \in 1..(i - 1) : 1 + j - 1 = j
    BY <1>1
  <2> HIDE DEF front
  <2>4. Len(front) = i - 1
    BY <1>1, <2>2
  <2> QED
    BY <2>2, <2>3, <2>4
<1>4. /\ back \in Seq(X) /\ Len(back) = n - i
      /\ \A j \in 1..(n - i) : back[j] = s[i + j]
  <2> HIDE DEF n
  <2>1. \A j \in (i + 1)..n : s[j] \in X
    BY <1>1, <1>2
  <2>2. /\ back \in Seq(X)
        /\ Len(back) = IF i + 1 <= n THEN n - (i + 1) + 1 ELSE 0
        /\ \A j \in 1..(n - (i + 1) + 1) : back[j] = s[(i + 1) + j - 1]
    BY <1>1, <2>1, SubSeqProperties
  <2>3. n - (i + 1) + 1 = n - i /\ \A j \in 1..(n - i) : (i + 1) + j - 1 = i + j
    BY <1>1
  <2> HIDE DEF back
  <2>4. Len(back) = n - i
    BY <1>1, <2>2
  <2> QED
    BY <2>2, <2>3, <2>4
<1> HIDE DEF n, front, back, m
<1>5. /\ front \o b \in Seq(X) /\ Len(front \o b) = (i - 1) + m
      /\ \A p \in 1..((i - 1) + m) :
             (front \o b)[p] = IF p <= i - 1 THEN front[p] ELSE b[p - (i - 1)]
  <2>1. /\ front \o b \in Seq(X) /\ Len(front \o b) = Len(front) + Len(b)
        /\ \A p \in 1..(Len(front) + Len(b)) :
               (front \o b)[p] = IF p <= Len(front) THEN front[p] ELSE b[p - Len(front)]
    BY <1>3, ConcatProperties
  <2> QED
    BY <2>1, <1>3 DEF m
<1>6. PICK fb : fb = front \o b
  OBVIOUS
<1>7. out = fb \o back
  BY <1>6 DEF front, back, n, Splice
<1> HIDE DEF out
<1>8. /\ out \in Seq(X) /\ Len(out) = ((i - 1) + m) + (n - i)
      /\ \A p \in 1..(((i - 1) + m) + (n - i)) :
             out[p] = IF p <= (i - 1) + m THEN fb[p] ELSE back[p - ((i - 1) + m)]
  <2>1. fb \in Seq(X) /\ Len(fb) = (i - 1) + m
    BY <1>5, <1>6
  <2>2. /\ out \in Seq(X) /\ Len(out) = Len(fb) + Len(back)
        /\ \A p \in 1..(Len(fb) + Len(back)) :
               out[p] = IF p <= Len(fb) THEN fb[p] ELSE back[p - Len(fb)]
    <3>1. back \in Seq(X)
      BY <1>4
    <3>2. /\ fb \o back \in Seq(X) /\ Len(fb \o back) = Len(fb) + Len(back)
          /\ \A p \in 1..(Len(fb) + Len(back)) :
                 (fb \o back)[p] = IF p <= Len(fb) THEN fb[p] ELSE back[p - Len(fb)]
      BY <2>1, <3>1, ConcatProperties
    <3> QED
      BY <3>2, <1>7
  <2> QED
    BY <2>1, <2>2, <1>4
<1>9. ((i - 1) + m) + (n - i) = n - 1 + m
  BY <1>1
<1>10. ASSUME NEW p \in 1..(n - 1 + m)
       PROVE  out[p] = IF p < i THEN s[p] ELSE IF p < i + m THEN b[p - i + 1] ELSE s[p - m + 1]
  <2>1. CASE p < i
    <3>1. p <= (i - 1) + m /\ p \in 1..((i - 1) + m) /\ p <= i - 1 /\ p \in 1..(i - 1)
      BY <1>1, <2>1
    <3>2. out[p] = fb[p] /\ fb[p] = front[p] /\ front[p] = s[p]
      BY <3>1, <1>3, <1>5, <1>6, <1>8, <1>9
    <3> QED
      BY <2>1, <3>2
  <2>2. CASE ~(p < i) /\ p < i + m
    <3>1. /\ p <= (i - 1) + m /\ p \in 1..((i - 1) + m) /\ ~(p <= i - 1)
          /\ p - (i - 1) = p - i + 1
      BY <1>1, <2>2
    <3>2. out[p] = fb[p] /\ fb[p] = b[p - (i - 1)]
      BY <3>1, <1>5, <1>6, <1>8, <1>9
    <3> QED
      BY <2>2, <3>1, <3>2
  <2>3. CASE ~(p < i + m)
    <3>1. /\ ~(p <= (i - 1) + m) /\ p - ((i - 1) + m) \in 1..(n - i) /\ ~(p < i)
          /\ i + (p - ((i - 1) + m)) = p - m + 1
      BY <1>1, <2>3
    <3>2. out[p] = back[p - ((i - 1) + m)] /\ back[p - ((i - 1) + m)] = s[p - m + 1]
      BY <3>1, <1>4, <1>8, <1>9
    <3> QED
      BY <2>3, <3>1, <3>2
  <2> QED
    BY <2>1, <2>2, <2>3
<1> QED
  BY <1>8, <1>9, <1>10 DEF n, m, out, AtPlace

(* What is shown then is the rest and what is brought, each name once if     *)
(* what is brought has no name of the rest.                                  *)
LEMMA SplicedNames ==
    ASSUME NEW X, NEW s \in Seq(X), NEW i \in 1..Len(s), NEW b \in Seq(X),
           NamedApart(s), NamedApart(b),
           \A k \in 1..Len(b) : \A j \in 1..Len(s) : s[j].name = b[k].name => j = i
    PROVE  /\ IsList(Splice(s, i, b)) /\ NamedApart(Splice(s, i, b))
           /\ \A d \in Range(Splice(s, i, b)) : d \in Range(b) \/ (d \in Range(s) /\ d.name # s[i].name)
           /\ \A d \in Range(b) : d \in Range(Splice(s, i, b))
<1> DEFINE n == Len(s)
           m == Len(b)
           out == Splice(s, i, b)
<1>1. n \in Nat /\ m \in Nat /\ i \in Nat /\ 1 <= i /\ i <= n /\ DOMAIN s = 1..n /\ DOMAIN b = 1..m
  BY LenProperties
<1>2. /\ out \in Seq(X) /\ Len(out) = n - 1 + m
      /\ \A p \in 1..(n - 1 + m) :
             out[p] = IF p < i THEN s[p] ELSE IF p < i + m THEN b[p - i + 1] ELSE s[p - m + 1]
  <2>1. out \in Seq(X) /\ Len(out) = Len(s) - 1 + Len(b) /\ AtPlace(out, s, i, b)
    BY Spliced
  <2> QED
    BY <2>1 DEF AtPlace
<1>3. DOMAIN out = 1..(n - 1 + m)
  BY <1>2, LenProperties
<1>4. /\ \A j, k \in 1..n : s[j].name = s[k].name => j = k
      /\ \A j, k \in 1..m : b[j].name = b[k].name => j = k
      /\ \A k \in 1..m : \A j \in 1..n : s[j].name = b[k].name => j = i
  BY <1>1 DEF NamedApart
<1> HIDE DEF n, m, out
<1>5. ASSUME NEW p \in 1..(n - 1 + m)
      PROVE  \/ p < i /\ p \in 1..n /\ out[p] = s[p]
             \/ p >= i /\ p < i + m /\ p - i + 1 \in 1..m /\ out[p] = b[p - i + 1]
             \/ p >= i + m /\ p - m + 1 \in 1..n /\ p - m + 1 > i /\ out[p] = s[p - m + 1]
  <2>1. out[p] = IF p < i THEN s[p] ELSE IF p < i + m THEN b[p - i + 1] ELSE s[p - m + 1]
    BY <1>2
  <2>2. p \in Int /\ 1 <= p /\ p <= n - 1 + m
    BY <1>1
  <2>3. CASE p < i
    <3>1. p \in 1..n
      BY <1>1, <2>2, <2>3
    <3> QED
      BY <2>1, <2>3, <3>1
  <2>4. CASE ~(p < i) /\ p < i + m
    <3>1. p >= i /\ p - i + 1 \in 1..m
      BY <1>1, <2>2, <2>4
    <3> QED
      BY <2>1, <2>4, <3>1
  <2>5. CASE ~(p < i) /\ ~(p < i + m)
    <3>1. p >= i + m /\ p - m + 1 \in 1..n /\ p - m + 1 > i
      BY <1>1, <2>2, <2>5
    <3> QED
      BY <2>1, <2>5, <3>1
  <2> QED
    BY <2>3, <2>4, <2>5
<1>6. NamedApart(out)
  <2> SUFFICES ASSUME NEW p \in 1..(n - 1 + m), NEW q \in 1..(n - 1 + m), out[p].name = out[q].name
               PROVE  p = q
    BY <1>3 DEF NamedApart
  <2>1. p \in Int /\ q \in Int
    BY <1>1
  <2>2. CASE p < i /\ p \in 1..n /\ out[p] = s[p]
    <3>1. CASE q < i /\ q \in 1..n /\ out[q] = s[q]
      BY <2>2, <3>1, <1>4
    <3>2. CASE q >= i /\ q < i + m /\ q - i + 1 \in 1..m /\ out[q] = b[q - i + 1]
      <4>1. p = i
        BY <2>2, <3>2, <1>4
      <4> QED
        BY <4>1, <2>2, <1>1
    <3>3. CASE q >= i + m /\ q - m + 1 \in 1..n /\ q - m + 1 > i /\ out[q] = s[q - m + 1]
      <4>1. p = q - m + 1
        BY <2>2, <3>3, <1>4
      <4> QED
        BY <4>1, <2>2, <3>3, <1>1, <2>1
    <3> QED
      BY <1>5, <3>1, <3>2, <3>3
  <2>3. CASE p >= i /\ p < i + m /\ p - i + 1 \in 1..m /\ out[p] = b[p - i + 1]
    <3>1. CASE q < i /\ q \in 1..n /\ out[q] = s[q]
      <4>1. q = i
        BY <2>3, <3>1, <1>4
      <4> QED
        BY <4>1, <3>1, <1>1
    <3>2. CASE q >= i /\ q < i + m /\ q - i + 1 \in 1..m /\ out[q] = b[q - i + 1]
      <4>1. p - i + 1 = q - i + 1
        BY <2>3, <3>2, <1>4
      <4> QED
        BY <4>1, <2>1, <1>1
    <3>3. CASE q >= i + m /\ q - m + 1 \in 1..n /\ q - m + 1 > i /\ out[q] = s[q - m + 1]
      <4>1. q - m + 1 = i
        BY <2>3, <3>3, <1>4
      <4> QED
        BY <4>1, <3>3, <1>1, <2>1
    <3> QED
      BY <1>5, <3>1, <3>2, <3>3
  <2>4. CASE p >= i + m /\ p - m + 1 \in 1..n /\ p - m + 1 > i /\ out[p] = s[p - m + 1]
    <3>1. CASE q < i /\ q \in 1..n /\ out[q] = s[q]
      <4>1. q = p - m + 1
        BY <2>4, <3>1, <1>4
      <4> QED
        BY <4>1, <2>4, <3>1, <1>1, <2>1
    <3>2. CASE q >= i /\ q < i + m /\ q - i + 1 \in 1..m /\ out[q] = b[q - i + 1]
      <4>1. p - m + 1 = i
        BY <2>4, <3>2, <1>4
      <4> QED
        BY <4>1, <2>4, <1>1, <2>1
    <3>3. CASE q >= i + m /\ q - m + 1 \in 1..n /\ q - m + 1 > i /\ out[q] = s[q - m + 1]
      <4>1. p - m + 1 = q - m + 1
        BY <2>4, <3>3, <1>4
      <4> QED
        BY <4>1, <2>1, <1>1
    <3> QED
      BY <1>5, <3>1, <3>2, <3>3
  <2> QED
    BY <1>5, <2>2, <2>3, <2>4
<1>7. ASSUME NEW d \in Range(out)
      PROVE  d \in Range(b) \/ (d \in Range(s) /\ d.name # s[i].name)
  <2>1. PICK p \in 1..(n - 1 + m) : d = out[p]
    BY <1>3 DEF Range
  <2>2. \/ \E j \in 1..m : d = b[j]
        \/ \E j \in 1..n : j # i /\ d = s[j]
    <3>1. CASE p < i /\ p \in 1..n /\ out[p] = s[p]
      <4>1. p # i
        BY <3>1, <1>1
      <4> QED
        BY <2>1, <3>1, <4>1
    <3>2. CASE p >= i /\ p < i + m /\ p - i + 1 \in 1..m /\ out[p] = b[p - i + 1]
      BY <2>1, <3>2
    <3>3. CASE p >= i + m /\ p - m + 1 \in 1..n /\ p - m + 1 > i /\ out[p] = s[p - m + 1]
      <4>1. p - m + 1 # i
        BY <3>3, <1>1
      <4> QED
        BY <2>1, <3>3, <4>1
    <3> QED
      BY <1>5, <3>1, <3>2, <3>3
  <2>3. i \in 1..n
    BY <1>1
  <2> QED
    BY <2>2, <2>3, <1>1, <1>4 DEF Range
<1>8. ASSUME NEW d \in Range(b) PROVE d \in Range(out)
  <2>1. PICK j \in 1..m : d = b[j]
    BY <1>1 DEF Range
  <2>2. /\ i + j - 1 \in 1..(n - 1 + m) /\ ~(i + j - 1 < i) /\ i + j - 1 < i + m
        /\ (i + j - 1) - i + 1 = j
    BY <1>1
  <2>3. out[i + j - 1] = b[j]
    BY <1>2, <2>2
  <2> QED
    BY <2>1, <2>2, <2>3, <1>3 DEF Range
<1>9. IsList(out)
  BY <1>2, SeqOfRange DEF IsList
<1> QED
  BY <1>6, <1>7, <1>8, <1>9 DEF out

-------------------------------------------------------------------------------
(* Some of a list, in its order, is a list: what Fill keeps. *)
LEMMA SomeOfList ==
    ASSUME NEW s, IsList(s), NEW positions, positions \subseteq DOMAIN s
    PROVE  /\ IsList(Elements(s, positions))
           /\ \A x \in Range(Elements(s, positions)) : \E i \in positions : x = s[i]
           /\ \A i \in positions : s[i] \in Range(Elements(s, positions))
           /\ NamedApart(s) => NamedApart(Elements(s, positions))
<1> DEFINE n == Cardinality(positions)
           e == Elements(s, positions)
<1>1. Len(s) \in Nat /\ DOMAIN s = 1..Len(s)
  BY LenProperties DEF IsList
<1>2. positions \subseteq Nat /\ IsFiniteSet(positions)
  <2>1. IsFiniteSet(1..Len(s)) /\ 1..Len(s) \subseteq Nat
    BY <1>1, FS_Interval
  <2> QED
    BY <1>1, <2>1, FS_Subset
<1>3. n \in Nat /\ DOMAIN e = 1..n
  BY <1>2, ElementsFrom
<1>4. PICK nth : Numbers(nth, s, positions)
  BY <1>2, ElementsOnce
<1>5. /\ nth \in [1..n -> positions]
      /\ \A k \in 1..n : e[k] = s[nth[k]]
      /\ \A k, l \in 1..n : nth[k] = nth[l] => k = l
      /\ \A i \in positions : \E k \in 1..n : nth[k] = i
  BY <1>4 DEF Numbers
<1>6. IsList(e)
  <2>1. e \in Seq({s[i] : i \in positions})
    BY <1>2, ElementsRange
  <2> QED
    BY <2>1, SeqOfRange DEF IsList
<1> HIDE DEF n, e
<1>7. \A x \in Range(e) : \E i \in positions : x = s[i]
  BY <1>3, <1>5 DEF Range
<1>8. \A i \in positions : s[i] \in Range(e)
  BY <1>3, <1>5 DEF Range
<1>9. ASSUME NamedApart(s) PROVE NamedApart(e)
  <2> SUFFICES ASSUME NEW k \in 1..n, NEW l \in 1..n, e[k].name = e[l].name PROVE k = l
    BY <1>3 DEF NamedApart
  <2>1. nth[k] \in DOMAIN s /\ nth[l] \in DOMAIN s
    BY <1>5
  <2>2. s[nth[k]].name = s[nth[l]].name
    BY <1>5
  <2>3. nth[k] = nth[l]
    BY <1>9, <2>1, <2>2 DEF NamedApart
  <2> QED
    BY <2>3, <1>5
<1> QED
  BY <1>6, <1>7, <1>8, <1>9 DEF e

(* The variables of the callbacks' paths. *)
LEMMA PathIs ==
    ASSUME NEW callback, NEW variable, NEW m \in callback.mappings, m.variable = variable,
           \A o \in callback.mappings : o.variable = variable => o = m
    PROVE  PathVariable(callback, variable)
             = IF m.property = "uuid" THEN values[m.attribute][1].uuid ELSE values[m.attribute][1]
<1>1. (CHOOSE o \in callback.mappings : o.variable = variable) = m
  OBVIOUS
<1> QED
  BY <1>1 DEF PathVariable

LEMMA DiscoveryGroupPath ==
    LET callback == CallbackOf("discovery_ca_select_group")
    IN  /\ Mapped(callback) = {"discovery_select_ca_method", "discovery_authority_instance"}
        /\ callback.context = "discovery/caSelect"
        /\ PathVariable(callback, "ca_select_method") = values["discovery_select_ca_method"][1]
        /\ PathVariable(callback, "authority_instance_uuid")
             = values["discovery_authority_instance"][1].uuid
<1> DEFINE callback == CallbackOf("discovery_ca_select_group")
           m1 == [attribute |-> "discovery_select_ca_method", property |-> "all",
                  variable |-> "ca_select_method"]
           m2 == [attribute |-> "discovery_authority_instance", property |-> "uuid",
                  variable |-> "authority_instance_uuid"]
<1>1. callback = [context |-> "discovery/caSelect", mappings |-> {m1, m2}]
  BY DEF CallbackOf, get_discovery_ca_select_group_attribute, GroupAttribute, DataAttribute, From, FromUuid
<1>2. /\ m1.attribute = "discovery_select_ca_method" /\ m1.property = "all" /\ m1.variable = "ca_select_method"
      /\ m2.attribute = "discovery_authority_instance" /\ m2.property = "uuid" /\ m2.variable = "authority_instance_uuid"
  OBVIOUS
<1>3. callback.mappings = {m1, m2} /\ callback.context = "discovery/caSelect"
  BY <1>1
<1> HIDE DEF callback, m1, m2
<1>4. Mapped(callback) = {"discovery_select_ca_method", "discovery_authority_instance"}
  <2>1. Mapped(callback) = {m.attribute : m \in {m1, m2}}
    BY <1>3 DEF Mapped
  <2> QED
    BY <2>1, <1>2
<1>5. PathVariable(callback, "ca_select_method")
        = values["discovery_select_ca_method"][1]
  <2>1. m1 \in callback.mappings /\ \A o \in callback.mappings : o.variable = "ca_select_method" => o = m1
    BY <1>2, <1>3
  <2> QED
    BY <2>1, <1>2, PathIs
<1>6. PathVariable(callback, "authority_instance_uuid")
        = values["discovery_authority_instance"][1].uuid
  <2>1. m2 \in callback.mappings /\ \A o \in callback.mappings : o.variable = "authority_instance_uuid" => o = m2
    BY <1>2, <1>3
  <2> QED
    BY <2>1, <1>2, PathIs
<1> QED
  BY <1>3, <1>4, <1>5, <1>6 DEF callback

LEMMA RaProfileGroupPath ==
    LET callback == CallbackOf("raprofile_ca_select_group")
    IN  /\ Mapped(callback) = {"raprofile_select_ca_method", "raprofile_authority_uuid"}
        /\ callback.context = "raProfile/caSelect"
        /\ PathVariable(callback, "ca_select_method") = values["raprofile_select_ca_method"][1]
        /\ PathVariable(callback, "authority_instance_uuid") = values["raprofile_authority_uuid"][1]
<1> DEFINE callback == CallbackOf("raprofile_ca_select_group")
           m1 == [attribute |-> "raprofile_select_ca_method", property |-> "all",
                  variable |-> "ca_select_method"]
           m2 == [attribute |-> "raprofile_authority_uuid", property |-> "all",
                  variable |-> "authority_instance_uuid"]
<1>1. callback = [context |-> "raProfile/caSelect", mappings |-> {m1, m2}]
  BY DEF CallbackOf, get_raprofile_ca_select_group_attribute, GroupAttribute, DataAttribute, From
<1>2. /\ m1.attribute = "raprofile_select_ca_method" /\ m1.property = "all" /\ m1.variable = "ca_select_method"
      /\ m2.attribute = "raprofile_authority_uuid" /\ m2.property = "all" /\ m2.variable = "authority_instance_uuid"
  OBVIOUS
<1>3. callback.mappings = {m1, m2} /\ callback.context = "raProfile/caSelect"
  BY <1>1
<1> HIDE DEF callback, m1, m2
<1>4. Mapped(callback) = {"raprofile_select_ca_method", "raprofile_authority_uuid"}
  <2>1. Mapped(callback) = {m.attribute : m \in {m1, m2}}
    BY <1>3 DEF Mapped
  <2> QED
    BY <2>1, <1>2
<1>5. PathVariable(callback, "ca_select_method")
        = values["raprofile_select_ca_method"][1]
  <2>1. m1 \in callback.mappings /\ \A o \in callback.mappings : o.variable = "ca_select_method" => o = m1
    BY <1>2, <1>3
  <2> QED
    BY <2>1, <1>2, PathIs
<1>6. PathVariable(callback, "authority_instance_uuid")
        = values["raprofile_authority_uuid"][1]
  <2>1. m2 \in callback.mappings /\ \A o \in callback.mappings : o.variable = "authority_instance_uuid" => o = m2
    BY <1>2, <1>3
  <2> QED
    BY <2>1, <1>2, PathIs
<1> QED
  BY <1>3, <1>4, <1>5, <1>6 DEF callback

LEMMA TemplatePath ==
    LET callback == CallbackOf("discovery_template_name")
    IN  /\ Mapped(callback) = {"discovery_authority_instance"}
        /\ callback.context = "discovery/listTemplate"
        /\ PathVariable(callback, "authority_instance_uuid")
             = values["discovery_authority_instance"][1].uuid
<1> DEFINE callback == CallbackOf("discovery_template_name")
           m2 == [attribute |-> "discovery_authority_instance", property |-> "uuid",
                  variable |-> "authority_instance_uuid"]
<1>1. callback = [context |-> "discovery/listTemplate", mappings |-> {m2}]
  BY DEF CallbackOf, get_discovery_template_name_attribute, DataAttribute, From, FromUuid
<1>2. /\ m2.attribute = "discovery_authority_instance" /\ m2.property = "uuid" /\ m2.variable = "authority_instance_uuid"
  OBVIOUS
<1>3. callback.mappings = {m2} /\ callback.context = "discovery/listTemplate"
  BY <1>1
<1> HIDE DEF callback, m2
<1>4. Mapped(callback) = {"discovery_authority_instance"}
  <2>1. Mapped(callback) = {m.attribute : m \in {m2}}
    BY <1>3 DEF Mapped
  <2> QED
    BY <2>1, <1>2
<1>5. PathVariable(callback, "authority_instance_uuid")
        = values["discovery_authority_instance"][1].uuid
  <2>1. m2 \in callback.mappings /\ \A o \in callback.mappings : o.variable = "authority_instance_uuid" => o = m2
    BY <1>2, <1>3
  <2> QED
    BY <2>1, <1>2, PathIs
<1> QED
  BY <1>3, <1>4, <1>5 DEF callback

(* No other attribute has a callback. *)
LEMMA NothingMapped ==
    ASSUME NEW name, name \notin Groups \union {"discovery_template_name"}
    PROVE  Mapped(CallbackOf(name)) = {}
BY DEF Mapped, CallbackOf, NoCallback, Groups

(* Which attributes a changed value makes outdated. *)
LEMMA MappedOf ==
    ASSUME NEW d, NEW kind \in {"discovery", "raprofile"}, Described(d, kind)
    PROVE  /\ d.name \in Groups =>
                  /\ d.type = "group"
                  /\ kind = "discovery" => Mapped(d.callback) =
                         {"discovery_select_ca_method", "discovery_authority_instance"}
                  /\ kind = "raprofile" => Mapped(d.callback) =
                         {"raprofile_select_ca_method", "raprofile_authority_uuid"}
           /\ d.name = "discovery_template_name" =>
                  kind = "discovery" /\ d.type = "data"
                  /\ Mapped(d.callback) = {"discovery_authority_instance"}
           /\ d.name \notin Groups \union {"discovery_template_name"} =>
                  d.type # "group" /\ Mapped(d.callback) = {}
<1>1. /\ d.callback = CallbackOf(d.name) /\ d.type = TypeOf(d.name)
      /\ d.name \in FormNames(kind)
  BY DEF Described
<1>2. ASSUME d.name \in Groups
      PROVE  /\ d.type = "group"
             /\ kind = "discovery" => Mapped(d.callback) =
                    {"discovery_select_ca_method", "discovery_authority_instance"}
             /\ kind = "raprofile" => Mapped(d.callback) =
                    {"raprofile_select_ca_method", "raprofile_authority_uuid"}
  <2>1. /\ kind = "discovery" => d.name = "discovery_ca_select_group"
        /\ kind = "raprofile" => d.name = "raprofile_ca_select_group"
    BY <1>1, <1>2 DEF FormNames, Groups, DiscoveryNames, RaProfileNames
  <2> QED
    BY <1>1, <1>2, <2>1, DiscoveryGroupPath, RaProfileGroupPath DEF TypeOf
<1>3. ASSUME d.name = "discovery_template_name"
      PROVE  kind = "discovery" /\ d.type = "data"
             /\ Mapped(d.callback) = {"discovery_authority_instance"}
  <2>1. kind = "discovery" /\ d.type = "data"
    BY <1>1, <1>3 DEF FormNames, RaProfileNames, TypeOf, Groups
  <2> QED
    BY <1>1, <1>3, <2>1, TemplatePath
<1>4. ASSUME d.name \notin Groups \union {"discovery_template_name"}
      PROVE  d.type # "group" /\ Mapped(d.callback) = {}
  BY <1>1, <1>4, NothingMapped DEF TypeOf
<1> QED
  BY <1>2, <1>3, <1>4

-------------------------------------------------------------------------------
(* The invariant holds when a form is described. *)
LEMMA NamedList ==
    ASSUME NEW s, NEW n \in Nat, DOMAIN s = 1..n, s = [i \in 1..n |-> s[i]]
    PROVE  IsList(s)
<1>1. s \in [1..n -> Range(s)]
  BY DEF Range
<1> QED
  BY <1>1 DEF IsList

LEMMA FormInit == Init => FormInv
<1> SUFFICES ASSUME Init PROVE FormInv
  OBVIOUS
<1>1. shown = <<>> /\ form.kind = "none" /\ authorities = Authorities /\ pending = {}
  BY DEF Init
<1>2. Range(<<>>) = {} /\ DOMAIN <<>> = {}
  BY DEF Range
<1>3. ShownOK
  BY <1>1, <1>2, EmptyIsList DEF ShownOK, NamedApart
<1>4. ValuesOK
  BY <1>1 DEF ValuesOK, ValueNames
<1>5. FormOK /\ PendingOK /\ OffersOK
  BY <1>1, <1>2 DEF FormOK, PendingOK, OffersOK, FormNames
<1> QED
  BY <1>3, <1>4, <1>5 DEF FormInv

LEMMA DiscoveryFormStep == FormInv /\ get_discovery_attributes => FormInv'
<1> SUFFICES ASSUME FormInv, get_discovery_attributes PROVE FormInv'
  OBVIOUS
<1>1. PICK instances : shown' = get_discovery_attributes_list(instances)
  BY DEF get_discovery_attributes
<1>2. form'.kind = "discovery" /\ values' = [n \in DiscoveryNames |-> <<>>]
      /\ authorities' = authorities /\ pending' = pending
  BY DEF get_discovery_attributes
<1>3. /\ DOMAIN shown' = 1..6 /\ \A i \in 1..6 : Described(shown'[i], "discovery")
      /\ \A i \in 1..6 : shown'[i].name =
             <<"discovery_info", "discovery_authority_instance", "discovery_select_ca_method",
               "discovery_ca_select_group", "discovery_template_name", "discovery_issued_after">>[i]
  BY <1>1, DiscoveryDescribed
<1>4. Range(shown') = {shown'[i] : i \in 1..6}
  BY <1>3 DEF Range
<1>5. ShownOK'
  <2>1. IsList(shown')
    <3>1. shown' = [i \in 1..6 |-> shown'[i]]
      BY <1>1 DEF get_discovery_attributes_list
    <3> QED
      BY <1>3, <3>1, NamedList
  <2>2. NamedApart(shown')
    BY <1>3 DEF NamedApart
  <2> QED
    BY <2>1, <2>2, <1>2, <1>3, <1>4 DEF ShownOK
<1>6. FormOK'
  <2>1. shown'[4].name \in Groups /\ shown'[4] \in Range(shown')
    BY <1>3, <1>4 DEF Groups
  <2> QED
    BY <2>1, <1>2 DEF FormOK, FormInv
<1>7. ValuesOK'
  BY <1>2, EmptyIsList DEF ValuesOK, ValueNames
<1>8. \A d \in Range(shown') : d.name \notin GroupNames /\ d.name \notin CaNames
                                /\ d.name # "raprofile_template_name"
  BY <1>3, <1>4 DEF GroupNames, CaNames
<1>9. PendingOK'
  <2>1. pending = {}
    BY DEF get_discovery_attributes, PendingOK, FormInv, FormNames
  <2> QED
    BY <1>2, <1>8, <2>1 DEF PendingOK
<1>10. values'["discovery_authority_instance"] = <<>>
  BY <1>2 DEF DiscoveryNames
<1>11. OffersOK'
  BY <1>8, <1>10 DEF OffersOK
<1> QED
  BY <1>5, <1>6, <1>7, <1>9, <1>11 DEF FormInv

LEMMA RaProfileFormStep == ASSUME NEW a PROVE FormInv /\ get_raprofile_attributes(a) => FormInv'
<1> SUFFICES ASSUME FormInv, get_raprofile_attributes(a) PROVE FormInv'
  OBVIOUS
<1>1. /\ a \in Authorities
      /\ shown' = get_raprofile_attributes_list(a, get_templates(a))
      /\ form' = [kind |-> "raprofile", uuid |-> a]
      /\ values' = [n \in RaProfileNames |-> IF n = "raprofile_authority_uuid" THEN <<a>> ELSE <<>>]
      /\ authorities' = authorities /\ pending' = pending
  BY DEF get_raprofile_attributes, FormInv, FormOK
<1>2. IsList(get_templates(a))
  <2>1. PICK n \in Nat : DOMAIN TemplatesOf[a] = 1..n
    BY <1>1, FormsAssumption, LenProperties
  <2>2. get_templates(a) = [i \in 1..n |-> get_templates(a)[i]] /\ DOMAIN get_templates(a) = 1..n
    BY <1>1, <2>1, TemplatesRead
  <2> QED
    BY <2>2, NamedList
<1>3. /\ DOMAIN shown' = 1..4 /\ \A i \in 1..4 : Described(shown'[i], "raprofile")
      /\ \A i \in 1..4 : shown'[i].name =
             <<"raprofile_select_ca_method", "raprofile_authority_uuid",
               "raprofile_ca_select_group", "raprofile_template_name">>[i]
      /\ shown'[4].content = get_templates(a)
  BY <1>1, <1>2, RaProfileDescribed
<1>4. Range(shown') = {shown'[i] : i \in 1..4}
  BY <1>3 DEF Range
<1>5. ShownOK'
  <2>1. IsList(shown')
    <3>1. shown' = [i \in 1..4 |-> shown'[i]]
      BY <1>1 DEF get_raprofile_attributes_list
    <3> QED
      BY <1>3, <3>1, NamedList
  <2>2. NamedApart(shown')
    BY <1>3 DEF NamedApart
  <2> QED
    BY <2>1, <2>2, <1>1, <1>3, <1>4 DEF ShownOK
<1>6. FormOK'
  <2>1. shown'[3].name \in Groups /\ shown'[3] \in Range(shown')
    BY <1>3, <1>4 DEF Groups
  <2> QED
    BY <2>1, <1>1 DEF FormOK, FormInv
<1>7. ValuesOK'
  <2>1. DOMAIN values' = RaProfileNames /\ values'["raprofile_authority_uuid"] = <<a>>
    BY <1>1 DEF RaProfileNames
  <2>2. \A n \in CaNames \union TemplateNames : n # "raprofile_authority_uuid"
    BY DEF CaNames, TemplateNames
  <2>3. \A n \in (CaNames \union TemplateNames) \intersect RaProfileNames : values'[n] = <<>>
    BY <1>1, <2>2
  <2> QED
    BY <1>1, <2>1, <2>3, EmptyIsList DEF ValuesOK, ValueNames
<1>8. ASSUME NEW d \in Range(shown')
      PROVE  /\ d.name \notin GroupNames /\ d.name \notin CaNames
             /\ d.name # "discovery_template_name"
             /\ d.name = "raprofile_template_name" => d = shown'[4]
  BY <1>3, <1>4 DEF GroupNames, CaNames
<1>9. PendingOK'
  <2>1. pending' = {}
    BY <1>1 DEF get_raprofile_attributes, PendingOK, FormInv, FormNames
  <2>2. \A d \in Range(shown') : d.name \notin GroupNames
    BY <1>8
  <2> QED
    BY <2>1, <2>2 DEF PendingOK
<1>10. /\ values'["raprofile_template_name"] = <<>> /\ Range(<<>>) = {}
       /\ ChosenAuthority' = a /\ shown'[4].name = "raprofile_template_name"
  <2>1. values'["raprofile_template_name"] = <<>>
    BY <1>1 DEF RaProfileNames
  <2>2. ChosenAuthority' = a
    BY <1>1 DEF ChosenAuthority
  <2> QED
    BY <2>1, <2>2, <1>3 DEF Range
<1>11. OffersOK'
  <2>1. (ChosenAuthority \in Authorities /\ Offered(shown[4], get_templates(ChosenAuthority)))'
    <3>1. /\ shown'[4].content = get_templates(a) /\ shown'[4].name = "raprofile_template_name"
          /\ Range(values'["raprofile_template_name"]) = {}
      BY <1>3, <1>10
    <3> QED
      BY <1>1, <1>10, <3>1 DEF Offered
  <2>2. ASSUME NEW d \in Range(shown')
        PROVE  /\ d.name \notin CaNames /\ d.name # "discovery_template_name"
               /\ d.name = "raprofile_template_name" => d = shown'[4]
    BY <1>8
  <2> QED
    BY <2>1, <2>2 DEF OffersOK
<1> QED
  BY <1>5, <1>6, <1>7, <1>9, <1>11 DEF FormInv

-------------------------------------------------------------------------------
(* Choosing: what the content of an attribute may become, and what becomes   *)
(* of an attribute whose list is outdated.                                   *)
LEMMA SelectableOf ==
    ASSUME NEW d, d.list = TRUE, IsList(d.content), NEW content \in Selectable(d)
    PROVE  IsList(content) /\ Range(content) \subseteq Range(d.content)
<1>1. CASE d.multi
  <2>1. PICK S \in SUBSET Range(d.content) :
            content = Elements(d.content, {i \in DOMAIN d.content : d.content[i] \in S})
    BY <1>1 DEF Selectable
  <2>2. PICK positions : positions = {i \in DOMAIN d.content : d.content[i] \in S}
    OBVIOUS
  <2>3. /\ IsList(Elements(d.content, positions))
        /\ \A x \in Range(Elements(d.content, positions)) : \E i \in positions : x = d.content[i]
    <3>1. positions \subseteq DOMAIN d.content
      BY <2>2
    <3> QED
      BY <3>1, SomeOfList
  <2>4. content = Elements(d.content, positions)
    BY <2>1, <2>2
  <2>5. IsList(content) /\ \A x \in Range(content) : \E i \in positions : x = d.content[i]
    BY <2>3, <2>4
  <2>6. \A i \in positions : d.content[i] \in Range(d.content)
    BY <2>2 DEF Range
  <2>7. Range(content) \subseteq Range(d.content)
    BY <2>5, <2>6
  <2> QED
    BY <2>5, <2>7
<1>2. CASE ~d.multi
  <2>1. PICK c \in Range(d.content) : content = <<c>>
    BY <1>2 DEF Selectable
  <2>2. Range(<<c>>) = {c} /\ <<c>> \in Seq({c})
    BY DEF Range
  <2> QED
    BY <2>1, <2>2 DEF IsList
<1> QED
  BY <1>1, <1>2

Emptied(d) == [d EXCEPT !.content = <<>>]

LEMMA EmptiedDescribed ==
    ASSUME NEW d, NEW kind, Described(d, kind)
    PROVE  /\ Described(Emptied(d), kind)
           /\ Emptied(d).name = d.name
<1>1. d = [f \in Fields |-> d[f]]
  BY DEF Described
<1>2. PICK e : e = Emptied(d)
  OBVIOUS
<1>3. /\ e = [f \in Fields |-> e[f]] /\ e.content = <<>>
      /\ \A f \in Fields \ {"content"} : e[f] = d[f]
  BY <1>1, <1>2 DEF Emptied, Fields
<1>4. /\ e.name = d.name /\ e.type = d.type /\ e.callback = d.callback
      /\ e.visible = d.visible /\ e.list = d.list
  BY <1>3 DEF Fields
<1>5. Described(e, kind)
  BY <1>3, <1>4, EmptyIsList DEF Described
<1> QED
  BY <1>2, <1>4, <1>5

(* What is shown once the attribute of a name has been chosen. *)
Renewed(d, name) == IF name \in Mapped(d.callback) /\ d.type = "data" THEN Emptied(d) ELSE d

LEMMA RenewedDescribed ==
    ASSUME NEW d, NEW kind, Described(d, kind), NEW name
    PROVE  Described(Renewed(d, name), kind) /\ Renewed(d, name).name = d.name
BY EmptiedDescribed DEF Renewed

(* Only some attributes go, and the others stay in place. *)
Keeping(group) == {i \in DOMAIN shown : ~group \/ shown[i].name \notin GroupNames}
Kept(group) == Elements(shown, Keeping(group))

LEMMA KeptOf ==
    ASSUME FormInv, NEW group \in BOOLEAN
    PROVE  /\ IsList(Kept(group)) /\ NamedApart(Kept(group))
           /\ \A d \in Range(Kept(group)) : d \in Range(shown) /\ (group => d.name \notin GroupNames)
           /\ \A d \in Range(shown) : ~group \/ d.name \notin GroupNames => d \in Range(Kept(group))
<1>1. IsList(shown) /\ NamedApart(shown)
  BY DEF FormInv, ShownOK
<1>2. Keeping(group) \subseteq DOMAIN shown
  BY DEF Keeping
<1>3. /\ IsList(Elements(shown, Keeping(group)))
      /\ \A x \in Range(Elements(shown, Keeping(group))) : \E i \in Keeping(group) : x = shown[i]
      /\ \A i \in Keeping(group) : shown[i] \in Range(Elements(shown, Keeping(group)))
      /\ NamedApart(Elements(shown, Keeping(group)))
  BY <1>1, <1>2, SomeOfList
<1>4. \A d \in Range(Kept(group)) : d \in Range(shown) /\ (group => d.name \notin GroupNames)
  BY <1>3 DEF Kept, Keeping, Range
<1>5. \A d \in Range(shown) : ~group \/ d.name \notin GroupNames => d \in Range(Kept(group))
  BY <1>3 DEF Kept, Keeping, Range
<1> QED
  BY <1>1, <1>3, <1>4, <1>5 DEF Kept

(* A choice, in the words of this module. *)
FillIs(attribute, content, outdated, group, kept) ==
    /\ attribute \in Range(shown)
    /\ attribute.type = "data" /\ attribute.visible /\ attribute.name \in DOMAIN values
    /\ content \in Selectable(attribute) /\ values' = [values EXCEPT ![attribute.name] = content]
    /\ outdated = {b \in Range(shown) : attribute.name \in Mapped(b.callback)}
    /\ group \in BOOLEAN /\ (group <=> \E b \in outdated : b.type = "group")
    /\ kept = Kept(group)
    /\ DOMAIN shown' = DOMAIN kept
    /\ shown' = [i \in DOMAIN kept |-> shown'[i]]
    /\ \A i \in DOMAIN kept : kept[i] \in Range(shown) /\ shown'[i] = Renewed(kept[i], attribute.name)
    /\ pending' = pending \union {b.name : b \in outdated}
    /\ sent = <<>> /\ form' = form /\ authorities' = authorities
    /\ sent' = sent /\ outcome' = outcome

LEMMA FillGives ==
    ASSUME FormInv, Fill
    PROVE  \E attribute, content, outdated, group, kept :
               FillIs(attribute, content, outdated, group, kept)
<1>1. PICK attribute \in Range(shown) :
          /\ attribute.type = "data" /\ attribute.visible /\ attribute.name \in DOMAIN values
          /\ \E content \in Selectable(attribute) : values' = [values EXCEPT ![attribute.name] = content]
          /\ LET outdated == {b \in Range(shown) : attribute.name \in Mapped(b.callback)}
                 group == \E b \in outdated : b.type = "group"
                 kept == Elements(shown, {i \in DOMAIN shown : ~group \/ shown[i].name \notin GroupNames})
             IN  /\ shown' = [i \in DOMAIN kept |->
                                  IF kept[i] \in outdated /\ kept[i].type = "data"
                                  THEN [kept[i] EXCEPT !.content = <<>>] ELSE kept[i]]
                 /\ pending' = pending \union {b.name : b \in outdated}
  BY DEF Fill
<1> DEFINE n == attribute.name
<1>2. PICK content \in Selectable(attribute) : values' = [values EXCEPT ![n] = content]
  BY <1>1
<1>3. PICK outdated : outdated = {b \in Range(shown) : n \in Mapped(b.callback)}
  OBVIOUS
<1>4. PICK group \in BOOLEAN : group <=> \E b \in outdated : b.type = "group"
  OBVIOUS
<1>5. PICK kept : kept = Kept(group)
  OBVIOUS
<1>6. /\ shown' = [i \in DOMAIN kept |->
                       IF kept[i] \in outdated /\ kept[i].type = "data"
                       THEN [kept[i] EXCEPT !.content = <<>>] ELSE kept[i]]
      /\ pending' = pending \union {b.name : b \in outdated}
  BY <1>1, <1>3, <1>4, <1>5 DEF Kept, Keeping
<1>7. \A i \in DOMAIN kept : kept[i] \in Range(shown)
  BY <1>5, KeptOf DEF Range
<1>8. /\ DOMAIN shown' = DOMAIN kept /\ shown' = [i \in DOMAIN kept |-> shown'[i]]
      /\ \A i \in DOMAIN kept : shown'[i] = Renewed(kept[i], n)
  BY <1>3, <1>6, <1>7 DEF Renewed, Emptied
<1>9. /\ sent = <<>> /\ form' = form /\ authorities' = authorities
      /\ sent' = sent /\ outcome' = outcome
  BY DEF Fill
<1>10. FillIs(attribute, content, outdated, group, kept)
  BY <1>1, <1>2, <1>3, <1>4, <1>5, <1>6, <1>7, <1>8, <1>9 DEF FillIs
<1> QED
  BY <1>10

LEMMA FillStep == FormInv /\ Fill => FormInv'
<1> SUFFICES ASSUME FormInv, Fill PROVE FormInv'
  OBVIOUS
<1>1. PICK attribute, content, outdated, group, kept :
          FillIs(attribute, content, outdated, group, kept)
  BY FillGives
<1> DEFINE n == attribute.name
           kind == form.kind
<1>2. /\ attribute \in Range(shown)
      /\ attribute.type = "data" /\ attribute.visible /\ attribute.name \in DOMAIN values
      /\ content \in Selectable(attribute) /\ values' = [values EXCEPT ![n] = content]
  BY <1>1 DEF FillIs
<1>3. outdated = {b \in Range(shown) : n \in Mapped(b.callback)}
  BY <1>1 DEF FillIs
<1>4. group \in BOOLEAN /\ (group <=> \E b \in outdated : b.type = "group")
  BY <1>1 DEF FillIs
<1>5. kept = Kept(group)
  BY <1>1 DEF FillIs
<1>6. pending' = pending \union {b.name : b \in outdated}
  BY <1>1 DEF FillIs
<1>7. /\ form' = form /\ authorities' = authorities
      /\ ShownOK /\ FormOK /\ ValuesOK /\ PendingOK /\ OffersOK
  BY <1>1 DEF FillIs, FormInv
<1>8. /\ IsList(kept) /\ NamedApart(kept)
      /\ \A d \in Range(kept) : d \in Range(shown) /\ (group => d.name \notin GroupNames)
      /\ \A d \in Range(shown) : d.name \notin GroupNames => d \in Range(kept)
  BY <1>4, <1>5, KeptOf
<1>9. kind \in {"discovery", "raprofile"} /\ \A d \in Range(shown) : Described(d, kind)
  <2>1. shown # <<>>
    BY <1>2 DEF Range
  <2> QED
    BY <1>7, <2>1 DEF FormOK, ShownOK
<1>10. /\ n # "raprofile_authority_uuid" /\ DOMAIN values = ValueNames(kind)
       /\ n \in ValueNames(kind)
  <2>1. Described(attribute, kind) /\ DOMAIN values = ValueNames(kind)
    BY <1>2, <1>7, <1>9 DEF ValuesOK
  <2> QED
    BY <2>1, <1>2 DEF Described
<1>11. /\ DOMAIN values' = DOMAIN values /\ values'[n] = content
       /\ \A m \in DOMAIN values : m # n => values'[m] = values[m]
  BY <1>2
<1>12. /\ DOMAIN shown' = DOMAIN kept /\ shown' = [i \in DOMAIN kept |-> shown'[i]]
       /\ \A i \in DOMAIN kept : shown'[i] = Renewed(kept[i], n)
  BY <1>1 DEF FillIs
<1> HIDE DEF n, kind
<1>13. ASSUME NEW i \in DOMAIN kept
       PROVE  Described(shown'[i], kind) /\ shown'[i].name = kept[i].name
  <2>1. kept[i] \in Range(shown)
    BY <1>8 DEF Range
  <2> QED
    BY <2>1, <1>9, <1>12, RenewedDescribed
<1>14. ASSUME NEW d \in Range(shown')
       PROVE  \E b \in Range(kept) : b \in Range(shown) /\ d = Renewed(b, n) /\ d.name = b.name
  BY <1>8, <1>12, <1>13 DEF Range
<1>15. ShownOK'
  <2>1. IsList(shown')
    <3>1. PICK l \in Nat : DOMAIN kept = 1..l
      BY <1>8, LenProperties DEF IsList
    <3>2. shown' = [i \in 1..l |-> shown'[i]]
      BY <1>12, <3>1
    <3> QED
      BY <1>12, <3>1, <3>2, NamedList
  <2>2. NamedApart(shown')
    BY <1>8, <1>12, <1>13 DEF NamedApart
  <2>3. \A d \in Range(shown') : Described(d, kind)
    BY <1>12, <1>13 DEF Range
  <2> QED
    BY <2>1, <2>2, <2>3, <1>7 DEF ShownOK, kind
<1>16. FormOK'
  <2>1. PICK g \in Range(shown) : g.name \in Groups
    BY <1>7, <1>9 DEF FormOK, kind
  <2>2. g \in Range(kept)
    BY <2>1, <1>8 DEF Groups, GroupNames
  <2>3. PICK i \in DOMAIN kept : g = kept[i]
    BY <2>2 DEF Range
  <2>4. shown'[i] \in Range(shown') /\ shown'[i].name \in Groups
    BY <2>1, <2>3, <1>12, <1>13 DEF Range
  <2> QED
    BY <2>4, <1>7, <1>9 DEF FormOK, kind
<1>17. n \in CaNames \union TemplateNames =>
           IsList(content) /\ Range(content) \subseteq Range(attribute.content)
  <2>1. Described(attribute, kind)
    BY <1>2, <1>9
  <2> QED
    BY <1>2, <2>1, SelectableOf DEF Described, n
<1>18. ValuesOK'
  <2>1. \A m \in (CaNames \union TemplateNames) \intersect ValueNames(kind) : IsList(values'[m])
    BY <1>7, <1>10, <1>11, <1>17 DEF ValuesOK, kind
  <2>2. kind = "raprofile" => values'["raprofile_authority_uuid"] = values["raprofile_authority_uuid"]
    <3>1. kind = "raprofile" => "raprofile_authority_uuid" \in ValueNames(kind)
      BY DEF ValueNames, RaProfileNames
    <3> QED
      BY <3>1, <1>10, <1>11
  <2> QED
    BY <2>1, <2>2, <1>7, <1>10, <1>11 DEF ValuesOK, kind
<1>19. ASSUME NEW b \in Range(shown)
       PROVE  /\ b.name \in Groups =>
                     b.type = "group" /\ (n = "discovery_authority_instance" => b \in outdated \/ kind = "raprofile")
              /\ b.name = "discovery_template_name" =>
                     kind = "discovery" /\ (n = "discovery_authority_instance" => b \in outdated)
              /\ b.name \notin Groups \union {"discovery_template_name"} => b \notin outdated
  <2>1. Described(b, kind)
    BY <1>9
  <2>2. /\ b.name \in Groups =>
               /\ b.type = "group"
               /\ kind = "discovery" => Mapped(b.callback) =
                      {"discovery_select_ca_method", "discovery_authority_instance"}
        /\ b.name = "discovery_template_name" =>
               kind = "discovery" /\ Mapped(b.callback) = {"discovery_authority_instance"}
        /\ b.name \notin Groups \union {"discovery_template_name"} => Mapped(b.callback) = {}
    BY <2>1, <1>9, MappedOf
  <2> QED
    BY <2>2, <1>3, <1>9
<1>20. PendingOK'
  <2>1. pending' \subseteq Groups \union {"discovery_template_name"}
    BY <1>3, <1>6, <1>7, <1>19 DEF PendingOK
  <2>2. ASSUME pending' \intersect Groups # {}, NEW d \in Range(shown') PROVE d.name \notin GroupNames
    <3>1. PICK b \in Range(kept) : b \in Range(shown) /\ d.name = b.name
      BY <1>14
    <3>2. CASE pending \intersect Groups # {}
      BY <3>1, <3>2, <1>7 DEF PendingOK
    <3>3. CASE pending \intersect Groups = {}
      <4>1. PICK o \in outdated : o.name \in Groups
        BY <2>2, <3>3, <1>6
      <4>2. group
        BY <4>1, <1>3, <1>4, <1>19
      <4> QED
        BY <3>1, <4>2, <1>8
    <3> QED
      BY <3>2, <3>3
  <2>3. pending' \subseteq FormNames(kind)
    BY <1>3, <1>6, <1>7, <1>9 DEF PendingOK, Described, kind
  <2> QED
    BY <2>1, <2>2, <2>3, <1>7 DEF PendingOK, kind
<1>21. ASSUME kind = "discovery" => n # "discovery_authority_instance"
       PROVE  ChosenAuthority' = ChosenAuthority
  <2>1. CASE kind = "raprofile"
    BY <2>1, <1>7 DEF ChosenAuthority, kind
  <2>2. CASE kind = "discovery"
    <3>1. "discovery_authority_instance" \in DOMAIN values
      BY <2>2, <1>10 DEF ValueNames, DiscoveryNames
    <3>2. values'["discovery_authority_instance"] = values["discovery_authority_instance"]
      BY <3>1, <2>2, <1>11, <1>21
    <3> QED
      BY <2>2, <3>2, <1>7 DEF ChosenAuthority, kind
  <2> QED
    BY <2>1, <2>2, <1>9
<1>22. ASSUME NEW b \in Range(shown), b.name \in CaNames \union TemplateNames, NEW list, Offered(b, list)
       PROVE  (b.content = list /\ Range(values'[b.name]) \subseteq Range(list))
  <2>1. CASE b.name = n
    <3>1. b = attribute
      BY <2>1, <1>2, <1>7 DEF ShownOK, NamedApart, Range, n
    <3> QED
      BY <2>1, <3>1, <1>11, <1>17, <1>22 DEF Offered
  <2>2. CASE b.name # n
    <3>1. b.name \in DOMAIN values
      <4>1. Described(b, kind)
        BY <1>9
      <4> QED
        BY <4>1, <1>9, <1>10, <1>22 DEF Described, FormNames, ValueNames, CaNames, TemplateNames,
               DiscoveryNames, RaProfileNames
    <3> QED
      BY <2>2, <3>1, <1>11, <1>22 DEF Offered
  <2> QED
    BY <2>1, <2>2
<1>23. ASSUME NEW d \in Range(shown'), d.name \in CaNames
       PROVE  ChosenAuthority' \in Authorities /\ d.content = get_cas(ChosenAuthority')
              /\ Range(values'[d.name]) \subseteq Range(get_cas(ChosenAuthority'))
  <2>1. PICK b \in Range(kept) : b \in Range(shown) /\ d = Renewed(b, n) /\ d.name = b.name
    BY <1>14
  <2>2. b.name \in GroupNames /\ b.name \notin Groups \union {"discovery_template_name"}
    BY <2>1, <1>23 DEF CaNames, GroupNames, Groups
  <2>3. ~group
    BY <2>1, <2>2, <1>8
  <2>4. PICK g \in Range(shown) : g.name \in Groups
    BY <1>7, <1>9 DEF FormOK, kind
  <2>5. kind = "discovery" => n # "discovery_authority_instance"
    BY <2>3, <2>4, <1>4, <1>19
  <2>6. d = b
    BY <2>1, <2>2, <1>3, <1>19 DEF Renewed
  <2>7. ChosenAuthority \in Authorities /\ Offered(b, get_cas(ChosenAuthority))
    BY <2>1, <1>7, <1>23 DEF OffersOK
  <2> QED
    BY <2>1, <2>5, <2>6, <2>7, <1>21, <1>22, <1>23
<1>24. ASSUME NEW d \in Range(shown'),
              \/ d.name = "raprofile_template_name"
              \/ /\ d.name = "discovery_template_name" /\ d.name \notin pending'
                 /\ values'["discovery_authority_instance"] # <<>>
       PROVE  ChosenAuthority' \in Authorities /\ d.content = get_templates(ChosenAuthority')
              /\ Range(values'[d.name]) \subseteq Range(get_templates(ChosenAuthority'))
  <2>1. PICK b \in Range(kept) : b \in Range(shown) /\ d = Renewed(b, n) /\ d.name = b.name
    BY <1>14
  <2>2. d.name \in TemplateNames
    BY <1>24 DEF TemplateNames
  <2>3. /\ kind = "discovery" => n # "discovery_authority_instance"
        /\ b \notin outdated
        /\ ChosenAuthority \in Authorities /\ Offered(b, get_templates(ChosenAuthority))
    <3>1. CASE d.name = "raprofile_template_name"
      <4>1. kind # "discovery"
        <5>1. Described(b, kind)
          BY <2>1, <1>9
        <5> QED
          BY <2>1, <3>1, <5>1 DEF Described, FormNames, DiscoveryNames
      <4>2. b \notin outdated
        BY <2>1, <3>1, <1>19 DEF Groups
      <4> QED
        BY <2>1, <3>1, <4>1, <4>2, <1>7 DEF OffersOK
    <3>2. CASE d.name # "raprofile_template_name"
      <4>1. b \notin outdated /\ b.name = "discovery_template_name" /\ b.name \notin pending
        BY <2>1, <3>2, <1>6, <1>24
      <4>2. kind = "discovery" /\ n # "discovery_authority_instance"
        BY <2>1, <4>1, <1>19
      <4>3. values["discovery_authority_instance"] # <<>>
        <5>1. "discovery_authority_instance" \in DOMAIN values
          BY <4>2, <1>10 DEF ValueNames, DiscoveryNames
        <5> QED
          BY <5>1, <3>2, <4>2, <1>11, <1>24
      <4> QED
        BY <2>1, <4>1, <4>2, <4>3, <1>7 DEF OffersOK
    <3> QED
      BY <3>1, <3>2
  <2>4. d = b
    BY <2>1, <2>3, <1>3 DEF Renewed
  <2> QED
    BY <2>1, <2>2, <2>3, <2>4, <1>21, <1>22
<1>25. OffersOK'
  BY <1>23, <1>24 DEF OffersOK, Offered
<1> QED
  BY <1>15, <1>16, <1>18, <1>20, <1>25 DEF FormInv

-------------------------------------------------------------------------------
(* The callbacks: what the server is asked, and what it brings.              *)
LEMMA CasAreList == ASSUME NEW a \in Authorities PROVE IsList(get_cas(a))
<1>1. PICK n \in Nat : DOMAIN Forest[a] = 1..n
  BY FormsAssumption, LenProperties
<1>2. get_cas(a) = [i \in 1..n |-> get_cas(a)[i]] /\ DOMAIN get_cas(a) = 1..n
  BY <1>1, CasRead
<1> QED
  BY <1>2, NamedList

LEMMA TemplatesAreList == ASSUME NEW a \in Authorities PROVE IsList(get_templates(a))
<1>1. PICK n \in Nat : DOMAIN TemplatesOf[a] = 1..n
  BY FormsAssumption, LenProperties
<1>2. get_templates(a) = [i \in 1..n |-> get_templates(a)[i]] /\ DOMAIN get_templates(a) = 1..n
  BY <1>1, TemplatesRead
<1> QED
  BY <1>2, NamedList

(* The attribute that is run is replaced by itself, or brings one that is    *)
(* not shown.                                                                *)
BroughtBy(attribute, brought) ==
    \/ \E d : /\ attribute.name \in Groups
              /\ brought = <<attribute, d>> /\ d.name \in GroupNames
              /\ d.name = SelectionName(form.kind, values[MethodOf(form.kind)][1])
              /\ Described(d, form.kind) /\ Flagged(d)
              /\ d.name \in CaNames =>
                     ChosenAuthority \in authorities /\ d.content = get_cas(ChosenAuthority)
    \/ \E d : /\ attribute.name = "discovery_template_name"
              /\ brought = <<d>> /\ d.name = "discovery_template_name"
              /\ Described(d, form.kind)
              /\ ChosenAuthority \in authorities /\ d.content = get_templates(ChosenAuthority)

CanRun(attribute) ==
    /\ attribute.name \in pending
    /\ NeedsSession(attribute) =>
           PathVariable(attribute.callback, "authority_instance_uuid") \in authorities

LEMMA OneAndOne == \A x, y : <<x>> \o <<y>> = <<x, y>>
<1> SUFFICES ASSUME NEW x, NEW y PROVE <<x>> \o <<y>> = <<x, y>>
  OBVIOUS
<1>1. <<x>> \in Seq({x, y}) /\ <<y>> \in Seq({x, y}) /\ Len(<<x>>) = 1 /\ Len(<<y>>) = 1
  OBVIOUS
<1>2. PICK both : both = <<x>> \o <<y>>
  OBVIOUS
<1>3. both \in Seq({x, y}) /\ Len(both) = 2 /\ both[1] = x /\ both[2] = y
  <2>1. /\ both \in Seq({x, y}) /\ Len(both) = Len(<<x>>) + Len(<<y>>)
        /\ \A i \in 1..(Len(<<x>>) + Len(<<y>>)) :
               both[i] = IF i <= Len(<<x>>) THEN <<x>>[i] ELSE <<y>>[i - Len(<<x>>)]
    BY <1>1, <1>2, ConcatProperties
  <2>2. 1 \in 1..2 /\ 2 \in 1..2 /\ 1 + 1 = 2 /\ ~(2 <= 1) /\ 1 <= 1 /\ 2 - 1 = 1
    OBVIOUS
  <2> QED
    BY <1>1, <2>1, <2>2
<1>4. both = <<x, y>>
  BY <1>3
<1> QED
  BY <1>2, <1>4

LEMMA BroughtFlagged ==
    ASSUME NEW cas
    PROVE  /\ Flagged(get_discovery_ca_name_attribute(cas))
           /\ Flagged(get_discovery_config_string_attribute)
           /\ Flagged(get_raprofile_ca_name_attribute(cas))
           /\ Flagged(get_raprofile_config_string_attribute)
<1>1. /\ ("multi" \in {}) = FALSE /\ ("list" \in {}) = FALSE /\ ("multi" \in {"list"}) = FALSE
  OBVIOUS
<1> USE DEF Flagged, SingleNames, RequiredNames, MethodNames, PlainNames
<1>2. Flagged(get_discovery_ca_name_attribute(cas))
  BY DEF get_discovery_ca_name_attribute, DataAttribute
<1>3. ASSUME NEW d, d = get_discovery_config_string_attribute PROVE Flagged(d)
  <2>1. d.name = "discovery_config_string" /\ d.multi = ("multi" \in {}) /\ d.list = ("list" \in {})
    BY <1>3 DEF get_discovery_config_string_attribute, DataAttribute
  <2> QED
    BY <1>1, <2>1
<1>4. ASSUME NEW d, d = get_raprofile_ca_name_attribute(cas) PROVE Flagged(d)
  <2>1. d.name = "raprofile_ca_name" /\ d.multi = ("multi" \in {"list"})
    BY <1>4 DEF get_raprofile_ca_name_attribute, DataAttribute
  <2> QED
    BY <1>1, <2>1
<1>5. ASSUME NEW d, d = get_raprofile_config_string_attribute PROVE Flagged(d)
  <2>1. d.name = "raprofile_config_string" /\ d.multi = ("multi" \in {}) /\ d.list = ("list" \in {})
    BY <1>5 DEF get_raprofile_config_string_attribute, DataAttribute
  <2> QED
    BY <1>1, <2>1
<1> HIDE DEF Flagged
<1> QED
  BY <1>2, <1>3, <1>4, <1>5

LEMMA DiscoveryGroupBrings ==
    ASSUME FormInv, NEW attribute \in Range(shown), CanRun(attribute),
           attribute.name = "discovery_ca_select_group"
    PROVE  BroughtBy(attribute, Routed(attribute))
<1>1. Described(attribute, form.kind) /\ authorities \subseteq Authorities
  BY DEF FormInv, ShownOK, FormOK
<1>2. attribute.callback = CallbackOf("discovery_ca_select_group") /\ form.kind = "discovery"
      /\ attribute.type = "group"
  BY <1>1 DEF Described, FormNames, RaProfileNames, TypeOf, Groups
<1>3. PICK a : a = PathVariable(attribute.callback, "authority_instance_uuid")
  OBVIOUS
<1>4. PICK method : method = PathVariable(attribute.callback, "ca_select_method")
  OBVIOUS
<1>5. a = ChosenAuthority
  BY <1>2, <1>3, DiscoveryGroupPath DEF ChosenAuthority
<1>6. Routed(attribute) = <<attribute>> \o get_discovery_ca_select_configuration(method, a)
  BY <1>2, <1>3, <1>4, DiscoveryGroupPath DEF Routed
<1>7. method = values[MethodOf(form.kind)][1]
  BY <1>2, <1>4, DiscoveryGroupPath DEF MethodOf
<1>8. CASE method = "configstring"
  <2>1. PICK d : d = get_discovery_config_string_attribute
    OBVIOUS
  <2>2. Routed(attribute) = <<attribute, d>>
    <3>1. get_discovery_ca_select_configuration(method, a) = <<d>>
      BY <1>8, <2>1 DEF get_discovery_ca_select_configuration
    <3> QED
      BY <3>1, <1>6, OneAndOne
  <2>3. Described(d, form.kind) /\ d.name \in GroupNames /\ d.name \notin CaNames
    BY <1>2, <2>1, BroughtDescribed, EmptyIsList DEF GroupNames, CaNames
  <2>4. Flagged(d) /\ d.name = SelectionName(form.kind, values[MethodOf(form.kind)][1])
    BY <1>2, <1>8, <1>7, <2>1, BroughtFlagged, BroughtDescribed, EmptyIsList DEF SelectionName
  <2> QED
    BY <2>2, <2>3, <2>4 DEF BroughtBy, Groups
<1>9. CASE method # "configstring"
  <2>1. a \in authorities
    BY <1>2, <1>3, <1>4, <1>9 DEF CanRun, NeedsSession
  <2>2. PICK d : d = get_discovery_ca_name_attribute(get_cas(a))
    OBVIOUS
  <2>3. Routed(attribute) = <<attribute, d>>
    <3>1. get_discovery_ca_select_configuration(method, a) = <<d>>
      BY <1>9, <2>2 DEF get_discovery_ca_select_configuration
    <3> QED
      BY <3>1, <1>6, OneAndOne
  <2>4. Described(d, form.kind) /\ d.name \in GroupNames /\ d.content = get_cas(a)
    BY <1>1, <1>2, <2>1, <2>2, BroughtDescribed, CasAreList DEF GroupNames
  <2>5. Flagged(d) /\ d.name = SelectionName(form.kind, values[MethodOf(form.kind)][1])
    BY <1>1, <1>2, <1>9, <1>7, <2>1, <2>2, BroughtFlagged, BroughtDescribed, CasAreList DEF SelectionName
  <2> QED
    BY <1>5, <2>1, <2>3, <2>4, <2>5 DEF BroughtBy, Groups
<1> QED
  BY <1>8, <1>9

LEMMA RaProfileGroupBrings ==
    ASSUME FormInv, NEW attribute \in Range(shown), CanRun(attribute),
           attribute.name = "raprofile_ca_select_group"
    PROVE  BroughtBy(attribute, Routed(attribute))
<1>1. Described(attribute, form.kind) /\ authorities \subseteq Authorities
  BY DEF FormInv, ShownOK, FormOK
<1>2. attribute.callback = CallbackOf("raprofile_ca_select_group") /\ form.kind = "raprofile"
      /\ attribute.type = "group"
  <2>1. form.kind = "raprofile"
    BY <1>1 DEF Described, FormNames, DiscoveryNames
  <2> QED
    BY <1>1, <2>1 DEF Described, TypeOf, Groups
<1>3. PICK a : a = PathVariable(attribute.callback, "authority_instance_uuid")
  OBVIOUS
<1>4. PICK method : method = PathVariable(attribute.callback, "ca_select_method")
  OBVIOUS
<1>5. a = ChosenAuthority
  <2>1. values["raprofile_authority_uuid"] = <<form.uuid>>
    BY <1>2 DEF FormInv, ValuesOK
  <2>2. a = form.uuid
    BY <1>2, <1>3, <2>1, RaProfileGroupPath
  <2> QED
    BY <1>2, <2>2 DEF ChosenAuthority
<1>6. Routed(attribute) = <<attribute>> \o get_raprofile_ca_select_configuration(method, a)
  BY <1>2, <1>3, <1>4, RaProfileGroupPath DEF Routed
<1>7. method = values[MethodOf(form.kind)][1]
  BY <1>2, <1>4, RaProfileGroupPath DEF MethodOf
<1>8. CASE method = "configstring"
  <2>1. PICK d : d = get_raprofile_config_string_attribute
    OBVIOUS
  <2>2. Routed(attribute) = <<attribute, d>>
    <3>1. get_raprofile_ca_select_configuration(method, a) = <<d>>
      BY <1>8, <2>1 DEF get_raprofile_ca_select_configuration
    <3> QED
      BY <3>1, <1>6, OneAndOne
  <2>3. Described(d, form.kind) /\ d.name \in GroupNames /\ d.name \notin CaNames
    BY <1>2, <2>1, BroughtDescribed, EmptyIsList DEF GroupNames, CaNames
  <2>4. Flagged(d) /\ d.name = SelectionName(form.kind, values[MethodOf(form.kind)][1])
    BY <1>2, <1>8, <1>7, <2>1, BroughtFlagged, BroughtDescribed, EmptyIsList DEF SelectionName
  <2> QED
    BY <2>2, <2>3, <2>4 DEF BroughtBy, Groups
<1>9. CASE method # "configstring"
  <2>1. a \in authorities
    BY <1>2, <1>3, <1>4, <1>9 DEF CanRun, NeedsSession
  <2>2. PICK d : d = get_raprofile_ca_name_attribute(get_cas(a))
    OBVIOUS
  <2>3. Routed(attribute) = <<attribute, d>>
    <3>1. get_raprofile_ca_select_configuration(method, a) = <<d>>
      BY <1>9, <2>2 DEF get_raprofile_ca_select_configuration
    <3> QED
      BY <3>1, <1>6, OneAndOne
  <2>4. Described(d, form.kind) /\ d.name \in GroupNames /\ d.content = get_cas(a)
    BY <1>1, <1>2, <2>1, <2>2, BroughtDescribed, CasAreList DEF GroupNames
  <2>5. Flagged(d) /\ d.name = SelectionName(form.kind, values[MethodOf(form.kind)][1])
    BY <1>1, <1>2, <1>9, <1>7, <2>1, <2>2, BroughtFlagged, BroughtDescribed, CasAreList DEF SelectionName
  <2> QED
    BY <1>5, <2>1, <2>3, <2>4, <2>5 DEF BroughtBy, Groups
<1> QED
  BY <1>8, <1>9

Filled(d, list) == [d EXCEPT !.content = list]

LEMMA FilledDescribed ==
    ASSUME NEW d, NEW kind, Described(d, kind), NEW list, IsList(list), d.name \notin Groups
    PROVE  Described(Filled(d, list), kind) /\ Filled(d, list).name = d.name /\ Filled(d, list).content = list
<1>1. d = [f \in Fields |-> d[f]]
  BY DEF Described
<1>2. PICK e : e = Filled(d, list)
  OBVIOUS
<1>3. /\ e = [f \in Fields |-> e[f]] /\ e.content = list
      /\ \A f \in Fields \ {"content"} : e[f] = d[f]
  BY <1>1, <1>2 DEF Filled, Fields
<1>4. /\ e.name = d.name /\ e.type = d.type /\ e.callback = d.callback
      /\ e.visible = d.visible /\ e.list = d.list
  BY <1>3 DEF Fields
<1>5. Described(e, kind)
  BY <1>3, <1>4 DEF Described
<1> QED
  BY <1>2, <1>3, <1>4, <1>5

LEMMA TemplateBrings ==
    ASSUME FormInv, NEW attribute \in Range(shown), CanRun(attribute),
           attribute.name = "discovery_template_name"
    PROVE  BroughtBy(attribute, Routed(attribute))
<1>1. Described(attribute, form.kind) /\ authorities \subseteq Authorities
  BY DEF FormInv, ShownOK, FormOK
<1>2. attribute.callback = CallbackOf("discovery_template_name") /\ form.kind = "discovery"
      /\ attribute.type # "group" /\ attribute.name \notin Groups
  BY <1>1 DEF Described, FormNames, RaProfileNames, TypeOf, Groups
<1>3. PICK a : a = PathVariable(attribute.callback, "authority_instance_uuid")
  OBVIOUS
<1>4. a = ChosenAuthority
  BY <1>2, <1>3, TemplatePath DEF ChosenAuthority
<1>5. a \in authorities
  BY <1>2, <1>3 DEF CanRun, NeedsSession
<1>6. PICK d : d = Filled(attribute, get_templates(a))
  OBVIOUS
<1>7. Routed(attribute) = <<d>>
  BY <1>2, <1>3, <1>6, TemplatePath DEF Routed, Filled
<1>8. Described(d, form.kind) /\ d.name = "discovery_template_name" /\ d.content = get_templates(a)
  BY <1>1, <1>2, <1>5, <1>6, TemplatesAreList, FilledDescribed
<1> QED
  BY <1>4, <1>5, <1>7, <1>8 DEF BroughtBy

LEMMA RunBrings ==
    ASSUME FormInv, NEW attribute \in Range(shown), CanRun(attribute)
    PROVE  BroughtBy(attribute, Routed(attribute))
<1>1. attribute.name \in Groups \union {"discovery_template_name"}
  BY DEF FormInv, PendingOK, CanRun
<1> QED
  BY <1>1, DiscoveryGroupBrings, RaProfileGroupBrings, TemplateBrings DEF Groups

(* The other attributes stay. *)
LEMMA SplicedKeeps ==
    ASSUME NEW X, NEW s \in Seq(X), NEW i \in 1..Len(s), NEW b \in Seq(X), NEW j \in 1..Len(s), j # i
    PROVE  s[j] \in Range(Splice(s, i, b))
<1> DEFINE n == Len(s)
           m == Len(b)
           out == Splice(s, i, b)
<1>1. n \in Nat /\ m \in Nat /\ i \in Nat /\ 1 <= i /\ i <= n /\ j \in Nat /\ 1 <= j /\ j <= n
  BY LenProperties
<1>2. /\ out \in Seq(X) /\ Len(out) = n - 1 + m
      /\ \A p \in 1..(n - 1 + m) :
             out[p] = IF p < i THEN s[p] ELSE IF p < i + m THEN b[p - i + 1] ELSE s[p - m + 1]
  <2>1. out \in Seq(X) /\ Len(out) = Len(s) - 1 + Len(b) /\ AtPlace(out, s, i, b)
    BY Spliced
  <2> QED
    BY <2>1 DEF AtPlace
<1>3. DOMAIN out = 1..(n - 1 + m)
  BY <1>2, LenProperties
<1> HIDE DEF n, m, out
<1>4. CASE j < i
  <2>1. j \in 1..(n - 1 + m)
    BY <1>1, <1>4
  <2> QED
    BY <2>1, <1>2, <1>3, <1>4 DEF Range, out
<1>5. CASE j > i
  <2>1. /\ j + m - 1 \in 1..(n - 1 + m) /\ ~(j + m - 1 < i) /\ ~(j + m - 1 < i + m)
        /\ (j + m - 1) - m + 1 = j
    BY <1>1, <1>5
  <2>2. out[j + m - 1] = s[j]
    BY <2>1, <1>2
  <2> QED
    BY <2>1, <2>2, <1>3 DEF Range, out
<1> QED
  BY <1>1, <1>4, <1>5

(* What the brought attributes are, whichever callback has run. *)
BroughtIs(attribute, brought, d) ==
    /\ \/ /\ attribute.name \in Groups /\ brought = <<attribute, d>> /\ d.name \in GroupNames
          /\ d.name = SelectionName(form.kind, values[MethodOf(form.kind)][1])
       \/ /\ attribute.name = "discovery_template_name" /\ brought = <<d>>
          /\ d.name = "discovery_template_name"
    /\ Described(d, form.kind) /\ Flagged(d)
    /\ d.name \in CaNames => ChosenAuthority \in authorities /\ d.content = get_cas(ChosenAuthority)
    /\ d.name = "discovery_template_name" =>
           ChosenAuthority \in authorities /\ d.content = get_templates(ChosenAuthority)

LEMMA BroughtOne ==
    ASSUME NEW attribute, NEW brought, BroughtBy(attribute, brought)
    PROVE  \E d : BroughtIs(attribute, brought, d)
<1>1. ASSUME NEW d, d.name \in GroupNames
      PROVE  d.name # "discovery_template_name"
  BY <1>1 DEF GroupNames
<1>2. "discovery_template_name" \notin CaNames
  BY DEF CaNames
<1>3. ASSUME NEW d, d.name = "discovery_template_name"
      PROVE  Flagged(d)
  BY <1>3 DEF Flagged, SingleNames, RequiredNames, MethodNames, PlainNames
<1> QED
  BY <1>1, <1>2, <1>3 DEF BroughtBy, BroughtIs

(* The run of a callback, in the words of this module. *)
RunIs(attribute, brought, d) ==
    /\ attribute \in Range(shown) /\ attribute.name \in pending /\ BroughtIs(attribute, brought, d)
    /\ form.kind \in {"discovery", "raprofile"}
    /\ Range(brought) \subseteq {attribute, d} /\ d \in Range(brought)
    /\ attribute.name \in Groups => attribute \in Range(brought)
    /\ d.name \in GroupNames \union {"discovery_template_name"}
    /\ attribute.name \notin Groups => Range(brought) = {d}
    /\ \A b \in Range(brought), s \in Range(shown) : s.name = b.name => s = attribute
    /\ IsList(shown') /\ NamedApart(shown')
    /\ \A b \in Range(shown') : b \in Range(brought) \/ (b \in Range(shown) /\ b.name # attribute.name)
    /\ \A b \in Range(brought) : b \in Range(shown')
    /\ \A b \in Range(shown) : b.name # attribute.name => b \in Range(shown')
    /\ DOMAIN values' = DOMAIN values /\ DOMAIN values = ValueNames(form.kind)
    /\ \A m \in DOMAIN values : m # attribute.name /\ m # d.name => values'[m] = values[m]
    /\ attribute.name \notin ValueNames(form.kind) \/ attribute.name = d.name
    /\ d.name \in DOMAIN values => values'[d.name] =
           IF d.list THEN Elements(values[d.name], {k \in DOMAIN values[d.name] :
                                       values[d.name][k] \in Range(d.content)})
           ELSE values[d.name]
    /\ pending' = pending \ {attribute.name}
    /\ sent = <<>> /\ form' = form /\ authorities' = authorities
    /\ sent' = sent /\ outcome' = outcome

LEMMA RunGives ==
    ASSUME FormInv, RunCallback
    PROVE  \E attribute, brought, d : RunIs(attribute, brought, d)
<1>1. PICK i \in DOMAIN shown :
        LET attribute == shown[i] IN
        /\ sent = <<>> /\ attribute.name \in pending /\ Runnable(attribute.callback)
        /\ NeedsSession(attribute) =>
               PathVariable(attribute.callback, "authority_instance_uuid") \in authorities
        /\ LET brought == Routed(attribute)
               offered == UNION {Range(b.content) : b \in Range(brought)}
               lists == {b.name : b \in {b \in Range(brought) : b.list}}
           IN  /\ shown' = SubSeq(shown, 1, i - 1) \o brought \o SubSeq(shown, i + 1, Len(shown))
               /\ values' = [n \in DOMAIN values |->
                                IF n \in lists
                                THEN Elements(values[n], {k \in DOMAIN values[n] : values[n][k] \in offered})
                                ELSE values[n]]
        /\ pending' = pending \ {attribute.name}
        /\ UNCHANGED <<authorities, form, sent, outcome>>
  BY DEF RunCallback
<1>2. PICK attribute : attribute = shown[i]
  OBVIOUS
<1>3. PICK brought : brought = Routed(attribute)
  OBVIOUS
<1>4. PICK offered : offered = UNION {Range(b.content) : b \in Range(brought)}
  OBVIOUS
<1>5. PICK lists : lists = {b.name : b \in {b \in Range(brought) : b.list}}
  OBVIOUS
<1>6. /\ CanRun(attribute) /\ attribute.name \in pending
      /\ shown' = Splice(shown, i, brought)
      /\ values' = [n \in DOMAIN values |->
                       IF n \in lists
                       THEN Elements(values[n], {k \in DOMAIN values[n] : values[n][k] \in offered})
                       ELSE values[n]]
      /\ pending' = pending \ {attribute.name}
      /\ form' = form /\ authorities' = authorities
      /\ sent = <<>> /\ sent' = sent /\ outcome' = outcome
  BY <1>1, <1>2, <1>3, <1>4, <1>5 DEF CanRun, Splice
<1>7. ShownOK /\ FormOK /\ ValuesOK /\ PendingOK /\ OffersOK
  BY DEF FormInv
<1>8. attribute \in Range(shown)
  BY <1>2 DEF Range
<1>9. PICK d : BroughtIs(attribute, brought, d)
  BY <1>3, <1>6, <1>8, RunBrings, BroughtOne
<1> DEFINE kind == form.kind
<1>10. kind \in {"discovery", "raprofile"} /\ \A b \in Range(shown) : Described(b, kind)
  <2>1. shown # <<>>
    BY <1>1
  <2> QED
    BY <1>7, <2>1 DEF FormOK, ShownOK
<1>11. /\ Range(brought) \subseteq {attribute, d} /\ d \in Range(brought)
       /\ attribute.name \in Groups => attribute \in Range(brought)
       /\ d.name \in GroupNames \union {"discovery_template_name"}
       /\ DOMAIN brought = 1..Len(brought)
       /\ brought \in Seq({attribute, d})
       /\ attribute.name \notin Groups => Range(brought) = {d}
  <2>1. CASE attribute.name \in Groups /\ brought = <<attribute, d>> /\ d.name \in GroupNames
    <3>1. Range(<<attribute, d>>) = {attribute, d}
      BY DEF Range
    <3>2. /\ <<attribute, d>> \in Seq({attribute, d}) /\ Len(<<attribute, d>>) = 2
          /\ DOMAIN <<attribute, d>> = 1..2
      OBVIOUS
    <3> QED
      BY <2>1, <3>1, <3>2
  <2>2. CASE /\ attribute.name = "discovery_template_name" /\ brought = <<d>>
             /\ d.name = "discovery_template_name"
    <3>1. Range(<<d>>) = {d}
      BY DEF Range
    <3>2. <<d>> \in Seq({attribute, d}) /\ Len(<<d>>) = 1 /\ DOMAIN <<d>> = 1..1
      OBVIOUS
    <3>3. attribute.name \notin Groups
      BY <2>2 DEF Groups
    <3> QED
      BY <2>2, <3>1, <3>2, <3>3
  <2> QED
    BY <2>1, <2>2, <1>9 DEF BroughtIs
<1>12. NamedApart(brought)
  <2>1. ASSUME attribute.name \in Groups, d.name \in GroupNames PROVE attribute.name # d.name
    BY <2>1 DEF Groups, GroupNames
  <2>2. CASE brought = <<attribute, d>> /\ attribute.name # d.name
    BY <2>2 DEF NamedApart
  <2>3. CASE brought = <<d>>
    BY <2>3 DEF NamedApart
  <2> QED
    BY <2>1, <2>2, <2>3, <1>9 DEF BroughtIs
<1>13. ASSUME NEW b \in Range(brought), NEW j \in DOMAIN shown, shown[j].name = b.name PROVE j = i
  <2>1. CASE b.name = attribute.name
    BY <2>1, <1>2, <1>7, <1>13 DEF ShownOK, NamedApart
  <2>2. CASE b.name # attribute.name
    <3>1. attribute.name \in Groups /\ b.name \in GroupNames
      BY <2>2, <1>9, <1>11 DEF BroughtIs
    <3>2. \A s \in Range(shown) : s.name \notin GroupNames
      BY <3>1, <1>6, <1>7 DEF PendingOK
    <3> QED
      BY <3>1, <3>2, <1>13 DEF Range
  <2> QED
    BY <2>1, <2>2
<1> DEFINE X == Range(shown) \union {attribute, d}
<1>14. /\ shown \in Seq(X) /\ brought \in Seq(X) /\ i \in 1..Len(shown) /\ NamedApart(shown)
       /\ DOMAIN shown = 1..Len(shown)
  BY <1>7, <1>11, LenProperties DEF ShownOK, IsList
<1>15. \A k \in 1..Len(brought) : \A j \in 1..Len(shown) : shown[j].name = brought[k].name => j = i
  BY <1>11, <1>13, <1>14 DEF Range
<1> HIDE DEF X, kind
<1>16. /\ IsList(shown') /\ NamedApart(shown')
       /\ \A b \in Range(shown') : b \in Range(brought) \/ (b \in Range(shown) /\ b.name # attribute.name)
       /\ \A b \in Range(brought) : b \in Range(shown')
  <2>1. /\ IsList(Splice(shown, i, brought)) /\ NamedApart(Splice(shown, i, brought))
        /\ \A b \in Range(Splice(shown, i, brought)) :
               b \in Range(brought) \/ (b \in Range(shown) /\ b.name # shown[i].name)
        /\ \A b \in Range(brought) : b \in Range(Splice(shown, i, brought))
    BY <1>12, <1>14, <1>15, SplicedNames
  <2> QED
    BY <2>1, <1>2, <1>6
<1>17. \A b \in Range(shown) : b.name # attribute.name => b \in Range(shown')
  <2> SUFFICES ASSUME NEW j \in 1..Len(shown), j # i PROVE shown[j] \in Range(shown')
    BY <1>2, <1>14 DEF Range
  <2> QED
    BY <1>6, <1>14, SplicedKeeps
<1>18. ASSUME NEW m \in DOMAIN values, m # attribute.name, m # d.name
       PROVE  values'[m] = values[m]
  BY <1>5, <1>6, <1>11, <1>18
<1>19. DOMAIN values' = DOMAIN values /\ DOMAIN values = ValueNames(kind)
  BY <1>6, <1>7, <1>10 DEF ValuesOK, kind
<1>20. offered = Range(d.content)
  <2>1. attribute.name \in Groups => attribute.content = <<>>
    BY <1>8, <1>10 DEF Described
  <2>2. Range(<<>>) = {}
    BY DEF Range
  <2> QED
    BY <2>1, <2>2, <1>4, <1>11
<1>21. attribute.name \notin ValueNames(kind) \/ attribute.name = d.name
  BY <1>9, <1>10 DEF BroughtIs, ValueNames, Groups, DiscoveryNames, RaProfileNames
<1>22. ASSUME d.name \in DOMAIN values
       PROVE  values'[d.name] =
                  IF d.list THEN Elements(values[d.name], {k \in DOMAIN values[d.name] :
                                              values[d.name][k] \in Range(d.content)})
                  ELSE values[d.name]
  <2>1. CASE d.list
    <3>1. d.name \in lists
      BY <2>1, <1>5, <1>11
    <3> QED
      BY <2>1, <3>1, <1>6, <1>20, <1>22
  <2>2. CASE ~d.list
    <3>1. d.name \notin lists
      <4>1. attribute.name = d.name => attribute.name \notin Groups
        BY <1>19, <1>10, <1>22 DEF ValueNames, Groups, DiscoveryNames, RaProfileNames
      <4> QED
        BY <4>1, <2>2, <1>5, <1>11
    <3> QED
      BY <2>2, <3>1, <1>6, <1>22
  <2> QED
    BY <2>1, <2>2
<1>23. \A b \in Range(brought), s \in Range(shown) : s.name = b.name => s = attribute
  BY <1>2, <1>13 DEF Range
<1>24. RunIs(attribute, brought, d)
  BY <1>6, <1>8, <1>9, <1>10, <1>11, <1>16, <1>17, <1>18, <1>19, <1>21, <1>22, <1>23 DEF RunIs, kind
<1> QED
  BY <1>24

LEMMA RunStep == FormInv /\ RunCallback => FormInv'
<1> SUFFICES ASSUME FormInv, RunCallback PROVE FormInv'
  OBVIOUS
<1>1. PICK attribute, brought, d : RunIs(attribute, brought, d)
  BY RunGives
<1> DEFINE kind == form.kind
<1>2. attribute \in Range(shown)
  BY <1>1 DEF RunIs
<1>3. BroughtIs(attribute, brought, d)
  BY <1>1 DEF RunIs
<1>4. /\ attribute.name \in pending /\ pending' = pending \ {attribute.name}
      /\ form' = form /\ authorities' = authorities
  BY <1>1 DEF RunIs
<1>5. ShownOK /\ FormOK /\ ValuesOK /\ PendingOK /\ OffersOK
  BY DEF FormInv
<1>6. kind \in {"discovery", "raprofile"} /\ \A b \in Range(shown) : Described(b, kind)
  BY <1>1, <1>5 DEF RunIs, ShownOK
<1>7. /\ Range(brought) \subseteq {attribute, d} /\ d \in Range(brought)
      /\ attribute.name \in Groups => attribute \in Range(brought)
      /\ d.name \in GroupNames \union {"discovery_template_name"}
      /\ attribute.name \notin Groups => Range(brought) = {d}
  BY <1>1 DEF RunIs
<1>8. \A b \in Range(brought), s \in Range(shown) : s.name = b.name => s = attribute
  BY <1>1 DEF RunIs
<1>9. /\ IsList(shown') /\ NamedApart(shown')
      /\ \A b \in Range(shown') : b \in Range(brought) \/ (b \in Range(shown) /\ b.name # attribute.name)
      /\ \A b \in Range(brought) : b \in Range(shown')
  BY <1>1 DEF RunIs
<1>10. \A b \in Range(shown) : b.name # attribute.name => b \in Range(shown')
  BY <1>1 DEF RunIs
<1>11. ASSUME NEW m \in DOMAIN values, m # attribute.name, m # d.name
       PROVE  values'[m] = values[m]
  BY <1>1, <1>11 DEF RunIs
<1>12. DOMAIN values' = DOMAIN values /\ DOMAIN values = ValueNames(kind)
  BY <1>1 DEF RunIs
<1>13. attribute.name \notin ValueNames(kind) \/ attribute.name = d.name
  BY <1>1 DEF RunIs
<1> HIDE DEF kind
<1>14. ShownOK'
  <2>1. Described(attribute, kind) /\ Described(d, kind)
    BY <1>2, <1>3, <1>6 DEF BroughtIs, kind
  <2>2. \A b \in Range(shown') : Described(b, kind)
    BY <2>1, <1>6, <1>7, <1>9
  <2> QED
    BY <2>2, <1>4, <1>9 DEF ShownOK, kind
<1>15. FormOK'
  <2>1. PICK g \in Range(shown) : g.name \in Groups
    BY <1>5, <1>6 DEF FormOK, kind
  <2>2. \E b \in Range(shown') : b.name \in Groups
    BY <2>1, <1>7, <1>9, <1>10
  <2> QED
    BY <2>2, <1>4, <1>5, <1>6 DEF FormOK, kind
<1>16. PendingOK'
  <2>1. ASSUME pending' \intersect Groups # {}, NEW b \in Range(shown') PROVE b.name \notin GroupNames
    <3>1. \A s \in Range(shown) : s.name \notin GroupNames
      BY <2>1, <1>4, <1>5 DEF PendingOK
    <3>2. attribute.name \notin Groups
      <4>1. pending \subseteq FormNames(kind)
        BY <1>5 DEF PendingOK, kind
      <4>2. \A g, h \in Groups \intersect FormNames(kind) : g = h
        BY <1>6 DEF Groups, FormNames, DiscoveryNames, RaProfileNames
      <4> QED
        BY <2>1, <4>1, <4>2, <1>4
    <3>3. d.name \notin GroupNames
      BY <3>2, <1>3 DEF BroughtIs, GroupNames
    <3> QED
      BY <3>1, <3>2, <3>3, <1>7, <1>9
  <2> QED
    BY <2>1, <1>4, <1>5 DEF PendingOK
<1>17. ASSUME d.name \in CaNames \union TemplateNames, d.name \in ValueNames(kind)
       PROVE  IsList(values'[d.name]) /\ Range(values'[d.name]) \subseteq Range(d.content)
  <2>1. d.list /\ IsList(values[d.name])
    BY <1>5, <1>3, <1>17 DEF BroughtIs, Described, ValuesOK, kind
  <2>2. PICK positions : positions = {k \in DOMAIN values[d.name] : values[d.name][k] \in Range(d.content)}
    OBVIOUS
  <2>3. values'[d.name] = Elements(values[d.name], positions)
    BY <1>1, <1>12, <1>17, <2>1, <2>2 DEF RunIs
  <2>4. /\ IsList(Elements(values[d.name], positions))
        /\ \A x \in Range(Elements(values[d.name], positions)) : \E k \in positions : x = values[d.name][k]
    <3>1. positions \subseteq DOMAIN values[d.name]
      BY <2>2
    <3> QED
      BY <2>1, <3>1, SomeOfList
  <2> QED
    BY <2>2, <2>3, <2>4
<1>18. ValuesOK'
  <2>1. \A m \in (CaNames \union TemplateNames) \intersect ValueNames(kind) : IsList(values'[m])
    BY <1>5, <1>11, <1>12, <1>17, <1>13 DEF ValuesOK, kind
  <2>2. kind = "raprofile" => values'["raprofile_authority_uuid"] = values["raprofile_authority_uuid"]
    <3>1. kind = "raprofile" => "raprofile_authority_uuid" \in ValueNames(kind)
      BY DEF ValueNames, RaProfileNames
    <3>2. d.name # "raprofile_authority_uuid"
      BY <1>7 DEF GroupNames
    <3> QED
      BY <3>1, <3>2, <1>11, <1>12, <1>13
  <2> QED
    BY <2>1, <2>2, <1>4, <1>5, <1>6, <1>12 DEF ValuesOK, kind
<1>19. kind = "discovery" =>
           values'["discovery_authority_instance"] = values["discovery_authority_instance"]
  <2>1. kind = "discovery" => "discovery_authority_instance" \in ValueNames(kind)
    BY DEF ValueNames, DiscoveryNames
  <2>2. d.name # "discovery_authority_instance"
    BY <1>7 DEF GroupNames
  <2> QED
    BY <2>1, <2>2, <1>11, <1>12, <1>13
<1>20. ChosenAuthority' = ChosenAuthority
  BY <1>4, <1>6, <1>19 DEF ChosenAuthority, kind
<1>21. \A b \in Range(shown') : b.name \in CaNames \union TemplateNames => b.name \in ValueNames(kind)
  <2>1. \A b \in Range(shown') : Described(b, kind)
    BY <1>14, <1>4 DEF ShownOK, kind
  <2> QED
    BY <2>1, <1>6 DEF Described, FormNames, ValueNames, CaNames, TemplateNames, DiscoveryNames, RaProfileNames
<1>22. ASSUME NEW b \in Range(shown'), b.name \in CaNames \union TemplateNames
       PROVE  \/ b = d
              \/ /\ b \in Range(shown) /\ b.name # attribute.name
                 /\ values'[b.name] = values[b.name]
  <2>1. CASE b \in Range(brought)
    <3>1. b = attribute => b = d
      <4>1. attribute.name \in Groups => attribute.name \notin CaNames \union TemplateNames
        BY DEF Groups, CaNames, TemplateNames
      <4> QED
        BY <4>1, <2>1, <1>7, <1>22
    <3> QED
      BY <3>1, <2>1, <1>7
  <2>2. CASE b \in Range(shown) /\ b.name # attribute.name
    <3>1. b.name # d.name
      BY <2>2, <1>7, <1>8
    <3> QED
      BY <2>2, <3>1, <1>11, <1>12, <1>21, <1>22
  <2> QED
    BY <2>1, <2>2, <1>9
<1>23. ASSUME NEW b \in Range(shown'), b.name \in CaNames
       PROVE  ChosenAuthority' \in Authorities /\ b.content = get_cas(ChosenAuthority')
              /\ Range(values'[b.name]) \subseteq Range(get_cas(ChosenAuthority'))
  <2>1. CASE b = d
    BY <2>1, <1>5, <1>3, <1>17, <1>20, <1>21, <1>23 DEF BroughtIs, FormOK
  <2>2. CASE b \in Range(shown) /\ values'[b.name] = values[b.name]
    BY <2>2, <1>5, <1>20, <1>23 DEF OffersOK, Offered
  <2> QED
    BY <2>1, <2>2, <1>22, <1>23
<1>24. ASSUME NEW b \in Range(shown'),
              \/ b.name = "raprofile_template_name"
              \/ /\ b.name = "discovery_template_name" /\ b.name \notin pending'
                 /\ values'["discovery_authority_instance"] # <<>>
       PROVE  ChosenAuthority' \in Authorities /\ b.content = get_templates(ChosenAuthority')
              /\ Range(values'[b.name]) \subseteq Range(get_templates(ChosenAuthority'))
  <2>1. b.name \in TemplateNames
    BY <1>24 DEF TemplateNames
  <2>2. CASE b = d
    <3>1. d.name = "discovery_template_name"
      BY <1>7, <1>24, <2>2 DEF GroupNames
    <3> QED
      BY <2>1, <2>2, <3>1, <1>5, <1>3, <1>17, <1>20, <1>21 DEF BroughtIs, FormOK
  <2>3. CASE b \in Range(shown) /\ b.name # attribute.name /\ values'[b.name] = values[b.name]
    <3>1. b.name = "discovery_template_name" => kind = "discovery"
      <4>1. Described(b, kind)
        BY <2>3, <1>6
      <4> QED
        BY <4>1, <1>6 DEF Described, FormNames, RaProfileNames
    <3>2. \/ b.name = "raprofile_template_name"
          \/ /\ b.name = "discovery_template_name" /\ b.name \notin pending
             /\ values["discovery_authority_instance"] # <<>>
      BY <2>3, <3>1, <1>4, <1>19, <1>24
    <3>3. ChosenAuthority \in Authorities /\ Offered(b, get_templates(ChosenAuthority))
      BY <2>3, <3>2, <1>5 DEF OffersOK
    <3> QED
      BY <2>3, <3>3, <1>20 DEF Offered
  <2> QED
    BY <2>1, <2>2, <2>3, <1>22
<1>25. OffersOK'
  BY <1>23, <1>24 DEF OffersOK, Offered
<1> QED
  BY <1>14, <1>15, <1>16, <1>18, <1>25 DEF FormInv

-------------------------------------------------------------------------------
(* Nothing else changes a form, and no authority ever comes back.            *)
LEMMA OtherFormSteps ==
    ASSUME FormInv,
           \/ UNCHANGED vars
           \/ Submit \/ run_discovery
           \/ \E a \in Authorities : DeleteAuthority(a)
           \/ \E request_dto \in Requests : prepare_and_issue(request_dto)
           \/ \E serial \in Serials : identify(serial)
    PROVE  FormInv'
<1>1. form' = form /\ shown' = shown /\ values' = values /\ pending' = pending
  BY DEF vars, Submit, run_discovery, DeleteAuthority, prepare_and_issue, identify
<1>2. authorities' \subseteq authorities
  BY DEF vars, Submit, run_discovery, DeleteAuthority, prepare_and_issue, identify
<1>3. ChosenAuthority' = ChosenAuthority
  BY <1>1 DEF ChosenAuthority
<1>4. ShownOK' /\ ValuesOK' /\ PendingOK'
  BY <1>1 DEF FormInv, ShownOK, ValuesOK, PendingOK
<1>5. FormOK'
  BY <1>1, <1>2 DEF FormInv, FormOK
<1>6. OffersOK'
  <2>1. OffersOK
    BY DEF FormInv
  <2> QED
    BY <2>1, <1>1, <1>3 DEF OffersOK, Offered
<1> QED
  BY <1>4, <1>5, <1>6 DEF FormInv

(* The invariant of the forms holds in every state. *)
THEOREM FormInvariant == Spec => []FormInv
<1>1. FormInv /\ [Next]_vars => FormInv'
  <2> SUFFICES ASSUME FormInv, [Next]_vars PROVE FormInv'
    OBVIOUS
  <2>1. ASSUME NEW a \in Authorities, get_raprofile_attributes(a) PROVE FormInv'
    BY <2>1, RaProfileFormStep
  <2>2. CASE get_discovery_attributes
    BY <2>2, DiscoveryFormStep
  <2>3. CASE Fill
    BY <2>3, FillStep
  <2>4. CASE RunCallback
    BY <2>4, RunStep
  <2>5. CASE \/ UNCHANGED vars
             \/ Submit \/ run_discovery
             \/ \E a \in Authorities : DeleteAuthority(a)
             \/ \E request_dto \in Requests : prepare_and_issue(request_dto)
             \/ \E serial \in Serials : identify(serial)
    BY <2>5, OtherFormSteps
  <2> QED
    BY <2>1, <2>2, <2>3, <2>4, <2>5 DEF Next
<1> QED
  BY <1>1, FormInit, PTL DEF Spec

(* What is read of the server are its objects, every property in its field. *)
CaProperties(c) == <<c.name, c.display_name, c.computer_name, c.config_string, c.ca_type,
                     c.is_enterprise, c.is_root, c.is_accessible, c.service_status>>
TemplateProperties(t) == <<t.name, t.display_name, t.schema_version, t.version, t.oid>>

LEMMA CasAreReal ==
    ASSUME NEW a \in Authorities
    PROVE  {CaProperties(c) : c \in Range(get_cas(a))} =
           {[k \in DOMAIN AuthorityKeys |-> o[AuthorityKeys[k]]] : o \in Range(Forest[a])}
<1>1. ASSUME NEW o PROVE CaProperties(CaOf(o)) = [k \in DOMAIN AuthorityKeys |-> o[AuthorityKeys[k]]]
  <2>1. DOMAIN AuthorityKeys = 1..9
    BY DEF AuthorityKeys
  <2>2. PICK c : c = CaOf(o)
    OBVIOUS
  <2>3. /\ c.name = o["Name"] /\ c.display_name = o["DisplayName"]
        /\ c.computer_name = o["ComputerName"] /\ c.config_string = o["ConfigString"]
        /\ c.ca_type = o["Type"] /\ c.is_enterprise = o["IsEnterprise"]
        /\ c.is_root = o["IsRoot"] /\ c.is_accessible = o["IsAccessible"]
        /\ c.service_status = o["ServiceStatus"]
    BY <2>2 DEF CaOf
  <2>4. CaProperties(c) = [k \in 1..9 |-> o[AuthorityKeys[k]]]
    BY <2>3 DEF CaProperties, AuthorityKeys
  <2> QED
    BY <2>1, <2>2, <2>4
<1>2. Range(get_cas(a)) = {CaOf(o) : o \in Range(Forest[a])}
  BY CasRead DEF Range
<1> HIDE DEF CaProperties
<1> QED
  BY <1>1, <1>2

LEMMA TemplatesAreReal ==
    ASSUME NEW a \in Authorities
    PROVE  {TemplateProperties(t) : t \in Range(get_templates(a))} =
           {[k \in DOMAIN TemplateKeys |-> o[TemplateKeys[k]]] : o \in Range(TemplatesOf[a])}
<1>1. ASSUME NEW o
      PROVE  TemplateProperties(TemplateOf(o)) = [k \in DOMAIN TemplateKeys |-> o[TemplateKeys[k]]]
  <2>1. DOMAIN TemplateKeys = 1..5
    BY DEF TemplateKeys
  <2>2. PICK t : t = TemplateOf(o)
    OBVIOUS
  <2>3. /\ t.name = o["Name"] /\ t.display_name = o["DisplayName"]
        /\ t.schema_version = o["SchemaVersion"] /\ t.version = o["Version"] /\ t.oid = o["OID"]
    BY <2>2 DEF TemplateOf
  <2>4. TemplateProperties(t) = [k \in 1..5 |-> o[TemplateKeys[k]]]
    BY <2>3 DEF TemplateProperties, TemplateKeys
  <2> QED
    BY <2>1, <2>2, <2>4
<1>2. Range(get_templates(a)) = {TemplateOf(o) : o \in Range(TemplatesOf[a])}
  BY TemplatesRead DEF Range
<1> HIDE DEF TemplateProperties
<1> QED
  BY <1>1, <1>2

(* Whatever the user has changed and in whatever order the callbacks of      *)
(* discovery_attributes.py and raprofile_attributes.py ran: what is offered  *)
(* for CAs and templates is what the server of the chosen authority has, and *)
(* a chosen one is offered; the names are those the services read, each once.*)
THEOREM OffersAreOfTheServer == Spec => []OffersAreReal
<1>1. FormInv => OffersAreReal
  <2> SUFFICES ASSUME FormInv PROVE OffersAreReal
    OBVIOUS
  <2>1. ShownOK /\ FormOK /\ ValuesOK /\ PendingOK /\ OffersOK
    BY DEF FormInv
  <2>2. \A i, j \in DOMAIN shown : shown[i].name = shown[j].name => i = j
    BY <2>1 DEF ShownOK, NamedApart
  <2>3. ASSUME NEW attribute \in Range(shown)
        PROVE  /\ Described(attribute, form.kind) /\ DOMAIN values = ValueNames(form.kind)
               /\ form.kind \in {"discovery", "raprofile"}
    <3>1. shown # <<>>
      BY <2>3 DEF Range
    <3> QED
      BY <2>1, <2>3, <3>1 DEF ShownOK, FormOK, ValuesOK
  <2>4. ASSUME NEW attribute \in Range(shown), attribute.type = "data"
        PROVE  attribute.name \in DOMAIN values \union {"discovery_issued_after"}
    BY <2>3, <2>4 DEF Described, FormNames, ValueNames, TypeOf, Groups
  <2>5. ASSUME NEW attribute \in Range(shown),
               attribute.name \in {"discovery_ca_name", "raprofile_ca_name"}, pending = {}
        PROVE  /\ {<<c.name, c.display_name, c.computer_name, c.config_string, c.ca_type,
                     c.is_enterprise, c.is_root, c.is_accessible, c.service_status>> :
                        c \in Range(attribute.content)} =
                  {[k \in DOMAIN AuthorityKeys |-> o[AuthorityKeys[k]]] :
                        o \in Range(Forest[ChosenAuthority])}
               /\ Range(values[attribute.name]) \subseteq Range(attribute.content)
    <3>1. ChosenAuthority \in Authorities /\ Offered(attribute, get_cas(ChosenAuthority))
      BY <2>1, <2>5 DEF OffersOK, CaNames
    <3>2. {CaProperties(c) : c \in Range(get_cas(ChosenAuthority))} =
          {[k \in DOMAIN AuthorityKeys |-> o[AuthorityKeys[k]]] : o \in Range(Forest[ChosenAuthority])}
      BY <3>1, CasAreReal
    <3> QED
      BY <3>1, <3>2 DEF Offered, CaProperties
  <2>6. ASSUME NEW attribute \in Range(shown),
               \/ attribute.name = "raprofile_template_name"
               \/ attribute.name = "discovery_template_name" /\ pending = {}
                     /\ values["discovery_authority_instance"] # <<>>
        PROVE  /\ {<<t.name, t.display_name, t.schema_version, t.version, t.oid>> :
                       t \in Range(attribute.content)} =
                  {[k \in DOMAIN TemplateKeys |-> o[TemplateKeys[k]]] :
                       o \in Range(TemplatesOf[ChosenAuthority])}
               /\ Range(values[attribute.name]) \subseteq Range(attribute.content)
    <3>1. ChosenAuthority \in Authorities /\ Offered(attribute, get_templates(ChosenAuthority))
      BY <2>1, <2>6 DEF OffersOK
    <3>2. {TemplateProperties(t) : t \in Range(get_templates(ChosenAuthority))} =
          {[k \in DOMAIN TemplateKeys |-> o[TemplateKeys[k]]] : o \in Range(TemplatesOf[ChosenAuthority])}
      BY <3>1, TemplatesAreReal
    <3> QED
      BY <3>1, <3>2 DEF Offered, TemplateProperties
  <2> QED
    BY <2>2, <2>4, <2>5, <2>6 DEF OffersAreReal
<1> QED
  BY <1>1, FormInvariant, PTL

-------------------------------------------------------------------------------
(* What is sent.  Besides FormInv: that the attributes the services cannot   *)
(* do without are shown, the one of the CA's selection once its callback has *)
(* run; that what takes one value has at most one; and that what was sent    *)
(* are the values, all that are shown among them.                            *)
IsShown(name) == \E d \in Range(shown) : d.name = name
AtMostOne(list) == list = <<>> \/ \E c : list = <<c>>

NeededShown ==
    /\ \A n \in AlwaysShown \intersect ValueNames(form.kind) : IsShown(n)
    /\ \A n \in MethodNames \intersect ValueNames(form.kind) :
           pending \intersect Groups = {} /\ values[n] # <<>> =>
               IsShown(SelectionName(form.kind, values[n][1]))

ValuesSingle ==
    /\ \A n \in SingleNames \intersect ValueNames(form.kind) : AtMostOne(values[n])
    /\ \A n \in MethodNames \intersect ValueNames(form.kind) :
           values[n] # <<>> => values[n][1] \in {"search", "configstring"}

SentOK ==
    /\ IsList(sent)
    /\ sent # <<>> =>
        /\ pending = {} /\ form.kind # "none"
        /\ \A s \in Range(sent) : s.name \in DOMAIN values /\ s.content = values[s.name]
        /\ \A d \in Range(shown) : d.name \in DOMAIN values => \E s \in Range(sent) : s.name = d.name
        /\ \A d \in Range(shown) : d.required = TRUE => values[d.name] # <<>>
    /\ outcome # NoOutcome => sent # <<>>

AllFlagged == \A d \in Range(shown) : Flagged(d)
SendInv == AllFlagged /\ NeededShown /\ ValuesSingle /\ SentOK

LEMMA MethodOfForm ==
    ASSUME NEW kind \in {"discovery", "raprofile"}
    PROVE  /\ MethodNames \intersect ValueNames(kind) = {MethodOf(kind)}
           /\ MethodOf(kind) \in RequiredNames \intersect SingleNames
BY DEF MethodNames, MethodOf, ValueNames, DiscoveryNames, RaProfileNames, RequiredNames, SingleNames

(* The definitions of the two forms are flagged as they are. *)
LEMMA DiscoveryFlagged ==
    ASSUME NEW instances
    PROVE  \A i \in 1..6 : Flagged(get_discovery_attributes_list(instances)[i])
<1> DEFINE all == get_discovery_attributes_list(instances)
<1>1. all = <<get_discovery_info_attribute, get_authority_instances_attribute(instances),
              get_discovery_select_ca_method_attribute, get_discovery_ca_select_group_attribute,
              get_discovery_template_name_attribute, get_issued_after_attribute>>
  BY DEF get_discovery_attributes_list
<1>2. /\ ("multi" \in {"required", "list"}) = FALSE /\ ("required" \in {"required", "list"}) = TRUE
      /\ ("list" \in {"required", "list"}) = TRUE
  OBVIOUS
<1>3. ASSUME NEW i \in {1, 4, 5, 6} PROVE Flagged(all[i])
  <2>1. all[i].name = <<"discovery_info", "discovery_authority_instance", "discovery_select_ca_method",
                        "discovery_ca_select_group", "discovery_template_name", "discovery_issued_after">>[i]
    BY <1>3, DiscoveryDescribed
  <2>2. all[i].name \in {"discovery_info", "discovery_ca_select_group", "discovery_template_name",
                         "discovery_issued_after"}
    BY <1>3, <2>1
  <2> QED
    BY <2>2 DEF Flagged, SingleNames, RequiredNames, MethodNames, PlainNames
<1>4. ASSUME NEW d, d = get_authority_instances_attribute(instances) PROVE Flagged(d)
  <2>1. /\ d.name = "discovery_authority_instance" /\ d.multi = ("multi" \in {"required", "list"})
        /\ d.required = ("required" \in {"required", "list"})
    BY <1>4 DEF get_authority_instances_attribute, DataAttribute
  <2> QED
    BY <1>2, <2>1 DEF Flagged, MethodNames, PlainNames
<1>5. ASSUME NEW d, d = get_discovery_select_ca_method_attribute PROVE Flagged(d)
  <2>1. /\ d.name = "discovery_select_ca_method" /\ d.multi = ("multi" \in {"required", "list"})
        /\ d.required = ("required" \in {"required", "list"})
        /\ d.list = ("list" \in {"required", "list"}) /\ d.content = CaSelectMethods
    BY <1>5 DEF get_discovery_select_ca_method_attribute, DataAttribute
  <2> QED
    BY <1>2, <2>1 DEF Flagged, MethodNames, PlainNames
<1> QED
  BY <1>1, <1>3, <1>4, <1>5

LEMMA RaProfileFlagged ==
    ASSUME NEW a, NEW templates
    PROVE  \A i \in 1..4 : Flagged(get_raprofile_attributes_list(a, templates)[i])
<1> DEFINE all == get_raprofile_attributes_list(a, templates)
<1>1. all = <<get_raprofile_select_ca_method_attribute, get_authority_uuid_attribute(a),
              get_raprofile_ca_select_group_attribute, get_raprofile_template_name_attribute(templates)>>
  BY DEF get_raprofile_attributes_list
<1>2. /\ ("multi" \in {"required", "list"}) = FALSE /\ ("required" \in {"required", "list"}) = TRUE
      /\ ("list" \in {"required", "list"}) = TRUE
  OBVIOUS
<1>3. Flagged(get_authority_uuid_attribute(a)) /\ Flagged(get_raprofile_ca_select_group_attribute)
  BY DEF get_authority_uuid_attribute, get_raprofile_ca_select_group_attribute, GroupAttribute,
         DataAttribute, Flagged, SingleNames, RequiredNames, MethodNames, PlainNames
<1>4. ASSUME NEW d, d = get_raprofile_select_ca_method_attribute PROVE Flagged(d)
  <2>1. /\ d.name = "raprofile_select_ca_method" /\ d.multi = ("multi" \in {"required", "list"})
        /\ d.required = ("required" \in {"required", "list"})
        /\ d.list = ("list" \in {"required", "list"}) /\ d.content = CaSelectMethods
    BY <1>4 DEF get_raprofile_select_ca_method_attribute, DataAttribute
  <2> QED
    BY <1>2, <2>1 DEF Flagged, MethodNames, PlainNames
<1>5. ASSUME NEW d, d = get_raprofile_template_name_attribute(templates) PROVE Flagged(d)
  <2>1. /\ d.name = "raprofile_template_name" /\ d.multi = ("multi" \in {"required", "list"})
        /\ d.required = ("required" \in {"required", "list"})
    BY <1>5 DEF get_raprofile_template_name_attribute, DataAttribute
  <2> QED
    BY <1>2, <2>1 DEF Flagged, MethodNames, PlainNames
<1> QED
  BY <1>1, <1>3, <1>4, <1>5

(* Nothing is sent before there is a form. *)
LEMMA NoForm ==
    ASSUME SentOK, form.kind = "none"
    PROVE  sent = <<>> /\ outcome = NoOutcome
BY DEF SentOK

LEMMA SendInit == Init => SendInv
<1> SUFFICES ASSUME Init PROVE SendInv
  OBVIOUS
<1>1. shown = <<>> /\ form.kind = "none" /\ sent = <<>> /\ outcome = NoOutcome
  BY DEF Init
<1>2. Range(<<>>) = {}
  BY DEF Range
<1>3. ValueNames(form.kind) = {}
  BY <1>1 DEF ValueNames
<1> QED
  BY <1>1, <1>2, <1>3, EmptyIsList DEF SendInv, AllFlagged, NeededShown, ValuesSingle, SentOK

LEMMA DiscoverySendStep == FormInv /\ SendInv /\ get_discovery_attributes => SendInv'
<1> SUFFICES ASSUME FormInv, SendInv, get_discovery_attributes PROVE SendInv'
  OBVIOUS
<1>1. PICK instances : shown' = get_discovery_attributes_list(instances)
  BY DEF get_discovery_attributes
<1>2. form'.kind = "discovery" /\ values' = [n \in DiscoveryNames |-> <<>>]
      /\ sent' = sent /\ outcome' = outcome
  BY DEF get_discovery_attributes
<1>3. sent = <<>> /\ outcome = NoOutcome
  BY NoForm DEF SendInv, get_discovery_attributes
<1>4. /\ DOMAIN shown' = 1..6 /\ \A i \in 1..6 : Flagged(shown'[i])
      /\ \A i \in 1..6 : shown'[i].name =
             <<"discovery_info", "discovery_authority_instance", "discovery_select_ca_method",
               "discovery_ca_select_group", "discovery_template_name", "discovery_issued_after">>[i]
  BY <1>1, DiscoveryDescribed, DiscoveryFlagged
<1>5. Range(shown') = {shown'[i] : i \in 1..6}
  BY <1>4 DEF Range
<1>6. AllFlagged'
  BY <1>4, <1>5 DEF AllFlagged
<1>7. AlwaysShown \intersect DiscoveryNames
        = {"discovery_authority_instance", "discovery_select_ca_method", "discovery_template_name"}
  BY DEF AlwaysShown, RequiredNames, MethodNames, DiscoveryNames
<1>8. /\ shown'[2].name = "discovery_authority_instance" /\ shown'[2] \in Range(shown')
      /\ shown'[3].name = "discovery_select_ca_method" /\ shown'[3] \in Range(shown')
      /\ shown'[5].name = "discovery_template_name" /\ shown'[5] \in Range(shown')
  BY <1>4, <1>5
<1>9. ValueNames("discovery") = DiscoveryNames
  BY DEF ValueNames
<1>10. NeededShown'
  BY <1>2, <1>7, <1>8, <1>9 DEF NeededShown, IsShown
<1>11. ValuesSingle'
  BY <1>2, <1>9 DEF ValuesSingle, AtMostOne
<1>12. SentOK'
  BY <1>2, <1>3, EmptyIsList DEF SentOK
<1> QED
  BY <1>6, <1>10, <1>11, <1>12 DEF SendInv

LEMMA RaProfileSendStep ==
    ASSUME NEW a PROVE FormInv /\ SendInv /\ get_raprofile_attributes(a) => SendInv'
<1> SUFFICES ASSUME FormInv, SendInv, get_raprofile_attributes(a) PROVE SendInv'
  OBVIOUS
<1>1. /\ a \in Authorities
      /\ shown' = get_raprofile_attributes_list(a, get_templates(a))
      /\ form'.kind = "raprofile"
      /\ values' = [n \in RaProfileNames |-> IF n = "raprofile_authority_uuid" THEN <<a>> ELSE <<>>]
      /\ sent' = sent /\ outcome' = outcome
  BY DEF get_raprofile_attributes, FormInv, FormOK
<1>2. sent = <<>> /\ outcome = NoOutcome
  BY NoForm DEF SendInv, get_raprofile_attributes
<1>3. /\ DOMAIN shown' = 1..4 /\ \A i \in 1..4 : Flagged(shown'[i])
      /\ \A i \in 1..4 : shown'[i].name =
             <<"raprofile_select_ca_method", "raprofile_authority_uuid",
               "raprofile_ca_select_group", "raprofile_template_name">>[i]
  BY <1>1, RaProfileDescribed, RaProfileFlagged, TemplatesAreList
<1>4. Range(shown') = {shown'[i] : i \in 1..4}
  BY <1>3 DEF Range
<1>5. AllFlagged'
  BY <1>3, <1>4 DEF AllFlagged
<1>6. AlwaysShown \intersect RaProfileNames = {"raprofile_select_ca_method", "raprofile_template_name"}
  BY DEF AlwaysShown, RequiredNames, MethodNames, RaProfileNames
<1>7. /\ shown'[1].name = "raprofile_select_ca_method" /\ shown'[1] \in Range(shown')
      /\ shown'[4].name = "raprofile_template_name" /\ shown'[4] \in Range(shown')
  BY <1>3, <1>4
<1>8. ValueNames("raprofile") = RaProfileNames
  BY DEF ValueNames
<1>9. \A n \in SingleNames \intersect RaProfileNames : values'[n] = <<>>
  BY <1>1 DEF SingleNames, MethodNames
<1>10. MethodNames \subseteq SingleNames
  BY DEF SingleNames
<1>11. NeededShown'
  BY <1>1, <1>6, <1>7, <1>8, <1>9, <1>10 DEF NeededShown, IsShown
<1>12. ValuesSingle'
  BY <1>1, <1>8, <1>9, <1>10 DEF ValuesSingle, AtMostOne
<1>13. SentOK'
  BY <1>1, <1>2, EmptyIsList DEF SentOK
<1> QED
  BY <1>5, <1>11, <1>12, <1>13 DEF SendInv

(* A single choice is one value or none. *)
LEMMA SelectableSingle ==
    ASSUME NEW d, d.multi = FALSE, NEW content \in Selectable(d)
    PROVE  /\ AtMostOne(content)
           /\ d.list = TRUE => \E c \in Range(d.content) : content = <<c>>
BY DEF Selectable, AtMostOne

LEMMA RenewedFlagged ==
    ASSUME NEW d, NEW kind \in {"discovery", "raprofile"}, Described(d, kind), Flagged(d), NEW name
    PROVE  Flagged(Renewed(d, name))
<1>1. CASE Renewed(d, name) = d
  BY <1>1
<1>2. CASE Renewed(d, name) # d
  <2>1. d.name \in Groups \union {"discovery_template_name"} /\ d.type = "data"
    BY <1>2, MappedOf DEF Renewed
  <2>2. d.name = "discovery_template_name"
    BY <2>1, MappedOf
  <2>3. Renewed(d, name).name = "discovery_template_name"
    BY <2>2, RenewedDescribed
  <2> QED
    BY <2>3 DEF Flagged, SingleNames, RequiredNames, MethodNames, PlainNames
<1> QED
  BY <1>1, <1>2

LEMMA FillSendStep == FormInv /\ SendInv /\ Fill => SendInv'
<1> SUFFICES ASSUME FormInv, SendInv, Fill PROVE SendInv'
  OBVIOUS
<1>1. PICK attribute, content, outdated, group, kept :
          FillIs(attribute, content, outdated, group, kept)
  BY FillGives
<1> DEFINE n == attribute.name
           kind == form.kind
<1>2. /\ attribute \in Range(shown) /\ n \in DOMAIN values
      /\ content \in Selectable(attribute) /\ values' = [values EXCEPT ![n] = content]
  BY <1>1 DEF FillIs
<1>3. outdated = {b \in Range(shown) : n \in Mapped(b.callback)} /\ group \in BOOLEAN
      /\ (group <=> \E b \in outdated : b.type = "group")
  BY <1>1 DEF FillIs
<1>4. /\ kept = Kept(group) /\ DOMAIN shown' = DOMAIN kept
      /\ \A i \in DOMAIN kept : shown'[i] = Renewed(kept[i], n)
      /\ pending' = pending \union {b.name : b \in outdated}
      /\ sent = <<>> /\ form' = form /\ sent' = sent /\ outcome' = outcome
  BY <1>1 DEF FillIs
<1>5. ShownOK /\ FormOK /\ ValuesOK /\ PendingOK
  BY DEF FormInv
<1>6. AllFlagged /\ NeededShown /\ ValuesSingle /\ SentOK
  BY DEF SendInv
<1>7. kind \in {"discovery", "raprofile"} /\ \A d \in Range(shown) : Described(d, kind)
  <2>1. shown # <<>>
    BY <1>2 DEF Range
  <2> QED
    BY <1>5, <2>1 DEF FormOK, ShownOK
<1>8. DOMAIN values = ValueNames(kind)
  BY <1>5, <1>7 DEF ValuesOK
<1>9. /\ DOMAIN values' = DOMAIN values /\ values'[n] = content
      /\ \A m \in DOMAIN values : m # n => values'[m] = values[m]
  BY <1>2
<1> HIDE DEF n, kind
<1>10. /\ \A d \in Range(kept) : d \in Range(shown) /\ (group => d.name \notin GroupNames)
       /\ \A d \in Range(shown) : ~group \/ d.name \notin GroupNames => d \in Range(kept)
  BY <1>3, <1>4, KeptOf
<1>11. ASSUME NEW i \in DOMAIN kept
       PROVE  kept[i] \in Range(shown) /\ shown'[i].name = kept[i].name /\ Flagged(shown'[i])
  <2>1. kept[i] \in Range(shown)
    BY <1>10 DEF Range
  <2>2. Described(kept[i], kind) /\ Flagged(kept[i])
    BY <2>1, <1>6, <1>7 DEF AllFlagged
  <2> QED
    BY <2>1, <2>2, <1>4, <1>7, RenewedDescribed, RenewedFlagged
<1>12. AllFlagged'
  BY <1>4, <1>11 DEF AllFlagged, Range
<1>13. ASSUME NEW m, IsShown(m), ~group \/ m \notin GroupNames PROVE IsShown(m)'
  <2>1. PICK d \in Range(shown) : d.name = m
    BY <1>13 DEF IsShown
  <2>2. PICK i \in DOMAIN kept : kept[i] = d
    BY <2>1, <1>10, <1>13 DEF Range
  <2>3. shown'[i] \in Range(shown') /\ shown'[i].name = m
    BY <2>1, <2>2, <1>4, <1>11 DEF Range
  <2> QED
    BY <2>3 DEF IsShown
<1>14. \A m \in AlwaysShown : m \notin GroupNames
  BY DEF AlwaysShown, RequiredNames, MethodNames, GroupNames
<1>15. PICK g \in Range(shown) : g.name \in Groups
  BY <1>5, <1>7 DEF FormOK, kind
<1>16. g.type = "group" /\ MethodOf(kind) \in Mapped(g.callback)
  <2>1. Described(g, kind)
    BY <1>15, <1>7
  <2> QED
    BY <2>1, <1>7, <1>15, MappedOf DEF MethodOf
<1>17. ASSUME pending' \intersect Groups = {}
       PROVE  pending \intersect Groups = {} /\ ~group /\ n # MethodOf(kind)
  <2>1. pending \intersect Groups = {}
    BY <1>4, <1>17
  <2>2. ~group
    <3> SUFFICES ASSUME NEW b \in outdated, b.type = "group" PROVE FALSE
      BY <1>3
    <3>1. Described(b, kind)
      BY <1>3, <1>7
    <3>2. b.name \in Groups
      BY <3>1 DEF Described, TypeOf
    <3> QED
      BY <3>2, <1>4, <1>17
  <2>3. n = MethodOf(kind) => group
    BY <1>3, <1>15, <1>16
  <2> QED
    BY <2>1, <2>2, <2>3
<1>18. NeededShown'
  <2>1. \A m \in AlwaysShown \intersect ValueNames(kind) : IsShown(m)'
    BY <1>6, <1>13, <1>14 DEF NeededShown, kind
  <2>2. ASSUME pending' \intersect Groups = {}, values'[MethodOf(kind)] # <<>>
        PROVE  \E d \in Range(shown') : d.name = SelectionName(kind, values'[MethodOf(kind)][1])
    <3>1. MethodOf(kind) \in DOMAIN values
      BY <1>7, <1>8, MethodOfForm
    <3>2. values'[MethodOf(kind)] = values[MethodOf(kind)]
      BY <3>1, <2>2, <1>9, <1>17
    <3>3. IsShown(SelectionName(kind, values[MethodOf(kind)][1]))
      BY <2>2, <3>2, <1>6, <1>7, <1>17, MethodOfForm DEF NeededShown, kind
    <3>4. PICK m : m = SelectionName(kind, values[MethodOf(kind)][1])
      OBVIOUS
    <3>5. IsShown(m)'
      BY <3>3, <3>4, <2>2, <1>13, <1>17
    <3>6. SelectionName(kind, values'[MethodOf(kind)][1]) = m
      BY <3>2, <3>4
    <3> QED
      BY <3>5, <3>6 DEF IsShown
  <2> QED
    BY <2>1, <2>2, <1>4, <1>7, MethodOfForm DEF NeededShown, kind, IsShown
<1>19. ValuesSingle'
  <2>1. Flagged(attribute)
    BY <1>2, <1>6 DEF AllFlagged
  <2>2. ASSUME n \in SingleNames PROVE AtMostOne(content)
    BY <2>1, <2>2, <1>2, SelectableSingle DEF Flagged, n
  <2>3. ASSUME n \in MethodNames PROVE content[1] \in {"search", "configstring"}
    <3>1. attribute.multi = FALSE /\ attribute.list = TRUE /\ attribute.content = CaSelectMethods
      BY <2>1, <2>3 DEF Flagged, SingleNames, n
    <3>2. PICK c \in Range(CaSelectMethods) : content = <<c>>
      BY <3>1, <1>2, SelectableSingle
    <3> QED
      BY <3>2 DEF CaSelectMethods, Range
  <2>4. \A m \in SingleNames \intersect ValueNames(kind) : AtMostOne(values'[m])
    BY <2>2, <1>6, <1>8, <1>9 DEF ValuesSingle, kind
  <2>5. \A m \in MethodNames \intersect ValueNames(kind) :
            values'[m] # <<>> => values'[m][1] \in {"search", "configstring"}
    BY <2>3, <1>6, <1>8, <1>9 DEF ValuesSingle, kind
  <2> QED
    BY <2>4, <2>5, <1>4 DEF ValuesSingle, kind, AtMostOne
<1>20. SentOK'
  BY <1>4, <1>6 DEF SentOK
<1> QED
  BY <1>12, <1>18, <1>19, <1>20 DEF SendInv

(* Some of at most one are at most one. *)
LEMMA SomeOfOne ==
    ASSUME NEW s, AtMostOne(s), NEW positions, positions \subseteq DOMAIN s
    PROVE  AtMostOne(Elements(s, positions)) /\ Range(Elements(s, positions)) \subseteq Range(s)
<1>1. IsList(s)
  <2>1. \A c : IsList(<<c>>)
    BY DEF IsList, Range
  <2> QED
    BY <2>1, EmptyIsList DEF AtMostOne
<1>2. Range(Elements(s, positions)) \subseteq Range(s)
  BY <1>1, SomeOfList DEF Range
<1>3. AtMostOne(Elements(s, positions))
  <2>1. DOMAIN s \subseteq {1}
    BY DEF AtMostOne
  <2>2. positions = {} \/ positions = {1}
    BY <2>1
  <2>3. Cardinality(positions) = 0 \/ Cardinality(positions) = 1
    BY <2>2, FS_EmptySet, FS_Singleton
  <2>4. PICK e : e = Elements(s, positions)
    OBVIOUS
  <2>5. e = [k \in 1..Cardinality(positions) |-> e[k]]
    BY <2>4 DEF Elements
  <2>6. CASE Cardinality(positions) = 0
    <3>1. e = <<>>
      BY <2>5, <2>6
    <3> QED
      BY <2>4, <3>1 DEF AtMostOne
  <2>7. CASE Cardinality(positions) = 1
    <3>1. e = <<e[1]>>
      BY <2>5, <2>7
    <3> QED
      BY <2>4, <3>1 DEF AtMostOne
  <2> QED
    BY <2>3, <2>6, <2>7
<1> QED
  BY <1>2, <1>3

LEMMA RunSendStep == FormInv /\ SendInv /\ RunCallback => SendInv'
<1> SUFFICES ASSUME FormInv, SendInv, RunCallback PROVE SendInv'
  OBVIOUS
<1>1. PICK attribute, brought, d : RunIs(attribute, brought, d)
  BY RunGives
<1> DEFINE kind == form.kind
           method == MethodOf(kind)
<1>2. /\ kind \in {"discovery", "raprofile"}
      /\ attribute \in Range(shown) /\ attribute.name \in pending /\ BroughtIs(attribute, brought, d)
      /\ Range(brought) \subseteq {attribute, d} /\ d \in Range(brought)
      /\ attribute.name \notin Groups => Range(brought) = {d}
      /\ d.name \in GroupNames \union {"discovery_template_name"}
  BY <1>1 DEF RunIs
<1>3. /\ \A b \in Range(shown') : b \in Range(brought) \/ (b \in Range(shown) /\ b.name # attribute.name)
      /\ \A b \in Range(brought) : b \in Range(shown')
      /\ \A b \in Range(shown) : b.name # attribute.name => b \in Range(shown')
  BY <1>1 DEF RunIs
<1>4. /\ DOMAIN values' = DOMAIN values /\ DOMAIN values = ValueNames(kind)
      /\ \A m \in DOMAIN values : m # attribute.name /\ m # d.name => values'[m] = values[m]
      /\ attribute.name \notin ValueNames(kind) \/ attribute.name = d.name
      /\ d.name \in DOMAIN values => values'[d.name] =
             IF d.list THEN Elements(values[d.name], {k \in DOMAIN values[d.name] :
                                         values[d.name][k] \in Range(d.content)})
             ELSE values[d.name]
  BY <1>1 DEF RunIs
<1>5. /\ pending' = pending \ {attribute.name} /\ sent = <<>> /\ form' = form
      /\ sent' = sent /\ outcome' = outcome
  BY <1>1 DEF RunIs
<1>6. AllFlagged /\ NeededShown /\ ValuesSingle /\ SentOK /\ PendingOK
  BY DEF SendInv, FormInv
<1> HIDE DEF kind, method
<1>7. AllFlagged'
  <2>1. Flagged(d) /\ Flagged(attribute)
    BY <1>2, <1>6 DEF BroughtIs, AllFlagged
  <2> QED
    BY <2>1, <1>2, <1>3, <1>6 DEF AllFlagged
<1>8. attribute.name \in Groups \union {"discovery_template_name"}
  BY <1>2 DEF BroughtIs
<1>9. ASSUME NEW m, IsShown(m), m \notin Groups \union {"discovery_template_name"}
      PROVE  \E b \in Range(shown') : b.name = m
  BY <1>3, <1>8, <1>9 DEF IsShown
<1>10. method \in ValueNames(kind) /\ MethodNames \intersect ValueNames(kind) = {method}
       /\ method \in RequiredNames \intersect SingleNames
  BY <1>2, MethodOfForm DEF method
<1>11. values'[method] = values[method]
  <2>1. \A m \in MethodNames : m \notin GroupNames \union Groups \union {"discovery_template_name"}
    BY DEF MethodNames, GroupNames, Groups
  <2> QED
    BY <2>1, <1>2, <1>4, <1>8, <1>10
<1>12. \A k \in {"discovery", "raprofile"} : \A v :
           SelectionName(k, v) \notin Groups \union {"discovery_template_name"}
  BY DEF SelectionName, Groups
<1>13. NeededShown'
  <2>1. ASSUME NEW m \in AlwaysShown \intersect ValueNames(kind)
        PROVE  \E b \in Range(shown') : b.name = m
    <3>1. m \notin Groups
      BY DEF AlwaysShown, RequiredNames, MethodNames, Groups
    <3>2. PICK b \in Range(shown) : b.name = m
      BY <1>6 DEF NeededShown, IsShown, kind
    <3>3. CASE m = attribute.name
      BY <3>1, <3>3, <1>2, <1>3, <1>4
    <3>4. CASE m # attribute.name
      BY <3>2, <3>4, <1>3
    <3> QED
      BY <3>3, <3>4
  <2>2. ASSUME pending' \intersect Groups = {}, values'[method] # <<>>
        PROVE  \E b \in Range(shown') : b.name = SelectionName(kind, values'[method][1])
    <3>1. CASE attribute.name \in Groups
      <4>1. d.name = SelectionName(kind, values[method][1])
        <5>1. attribute.name # "discovery_template_name"
          BY <3>1 DEF Groups
        <5> QED
          BY <5>1, <1>2 DEF BroughtIs, kind, method
      <4> QED
        BY <4>1, <1>2, <1>3, <1>11
    <3>2. CASE attribute.name \notin Groups
      <4>1. pending \intersect Groups = {}
        BY <3>2, <2>2, <1>5
      <4>2. IsShown(SelectionName(kind, values[method][1]))
        BY <4>1, <2>2, <1>6, <1>10, <1>11 DEF NeededShown, kind
      <4> QED
        BY <4>2, <1>2, <1>9, <1>11, <1>12
    <3> QED
      BY <3>1, <3>2
  <2>3. method' = method
    BY <1>5 DEF method, kind
  <2> QED
    BY <2>1, <2>2, <1>5, <1>10 DEF NeededShown, kind, IsShown
<1>14. ASSUME NEW m \in SingleNames \intersect ValueNames(kind) PROVE AtMostOne(values'[m])
  <2>1. AtMostOne(values[m])
    BY <1>6 DEF ValuesSingle, kind
  <2>2. CASE m # d.name
    BY <2>1, <2>2, <1>4
  <2>3. CASE m = d.name
    <3>1. PICK positions : positions = {k \in DOMAIN values[m] : values[m][k] \in Range(d.content)}
      OBVIOUS
    <3>2. values'[m] = Elements(values[m], positions) \/ values'[m] = values[m]
      BY <2>3, <3>1, <1>4
    <3>3. positions \subseteq DOMAIN values[m]
      BY <3>1
    <3> QED
      BY <2>1, <3>2, <3>3, SomeOfOne
  <2> QED
    BY <2>2, <2>3
<1>15. ValuesSingle'
  BY <1>5, <1>6, <1>10, <1>11, <1>14 DEF ValuesSingle, kind, AtMostOne
<1>16. SentOK'
  BY <1>5, <1>6 DEF SentOK
<1> QED
  BY <1>7, <1>13, <1>15, <1>16 DEF SendInv

(* A finite set in some order: its elements, each once. *)
LEMMA SetToSeqIs ==
    ASSUME NEW S, IsFiniteSet(S)
    PROVE  IsList(SetToSeq(S)) /\ Range(SetToSeq(S)) = S
<1>1. Cardinality(S) \in Nat /\ ExistsBijection(1..Cardinality(S), S)
  BY FS_CardinalityType
<1> DEFINE I == 1..Cardinality(S)
<1>2. PICK f \in [I -> S] : IsInjective(f)
  BY <1>1 DEF ExistsBijection, Bijection, Injection, IsInjective
<1>3. SetToSeq(S) \in [I -> S] /\ IsInjective(SetToSeq(S))
  BY <1>2 DEF SetToSeq
<1>4. PICK s : s = SetToSeq(S)
  OBVIOUS
<1>5. s \in Injection(I, S)
  BY <1>3, <1>4 DEF Injection, IsInjective
<1>6. Cardinality(I) = Cardinality(S) /\ IsFiniteSet(I)
  BY <1>1, FS_Interval
<1>7. s \in Surjection(I, S)
  BY <1>5, <1>6, FS_Injection
<1>8. Range(s) = S
  BY <1>7 DEF Surjection, Range
<1>9. s \in [I -> Range(s)]
  BY <1>3, <1>4 DEF Range
<1>10. IsList(s)
  BY <1>1, <1>9 DEF IsList
<1> QED
  BY <1>4, <1>8, <1>10

LEMMA SubmitStep == FormInv /\ SendInv /\ Submit => SendInv'
<1> SUFFICES ASSUME FormInv, SendInv, Submit PROVE SendInv'
  OBVIOUS
<1>1. PICK names \in {DOMAIN values, DOMAIN values \intersect {b.name : b \in Range(shown)}} :
          sent' = SetToSeq({[name |-> n, content |-> values[n]] : n \in names})
  BY DEF Submit
<1>2. /\ shown # <<>> /\ pending = {} /\ form' = form /\ shown' = shown /\ values' = values
      /\ pending' = pending /\ outcome' = outcome /\ sent = <<>>
      /\ \A attribute \in Range(shown) : attribute.required => values[attribute.name] # <<>>
  BY DEF Submit
<1>3. ShownOK /\ FormOK /\ ValuesOK /\ AllFlagged /\ NeededShown /\ ValuesSingle /\ SentOK
  BY DEF FormInv, SendInv
<1>4. form.kind \in {"discovery", "raprofile"} /\ DOMAIN values = ValueNames(form.kind)
  BY <1>2, <1>3 DEF FormOK, ValuesOK
<1> DEFINE chosen == {[name |-> n, content |-> values[n]] : n \in names}
<1>5. IsFiniteSet(names)
  <2>1. ValueNames(form.kind) \in {DiscoveryNames, RaProfileNames}
    BY <1>4 DEF ValueNames
  <2>2. IsFiniteSet(DiscoveryNames) /\ IsFiniteSet(RaProfileNames)
    <3>1. ASSUME NEW v1, NEW v2, NEW v3, NEW v4, NEW v5 PROVE IsFiniteSet({v1, v2, v3, v4, v5})
      <4>1. IsFiniteSet({v1, v2, v3, v4, v5}) <=> IsFiniteSet({} \union {v1} \union {v2} \union {v3} \union {v4} \union {v5})
        <5>1. {v1, v2, v3, v4, v5} = {} \union {v1} \union {v2} \union {v3} \union {v4} \union {v5}
          OBVIOUS
        <5> QED
          BY <5>1
      <4> QED
        BY <4>1, FS_AddElement, FS_EmptySet
    <3> QED
      BY <3>1 DEF DiscoveryNames, RaProfileNames
  <2>3. names \subseteq ValueNames(form.kind)
    BY <1>4
  <2> QED
    BY <2>1, <2>2, <2>3, FS_Subset
<1>6. IsFiniteSet(chosen)
  <2> DEFINE f == [n \in names |-> [name |-> n, content |-> values[n]]]
  <2>1. chosen = {f[n] : n \in names} /\ f \in Surjection(names, chosen)
    BY DEF Surjection
  <2> QED
    BY <2>1, <1>5, FS_Surjection
<1>7. IsList(sent') /\ Range(sent') = chosen
  BY <1>1, <1>6, SetToSeqIs
<1>8. \A s \in Range(sent') : s.name \in DOMAIN values /\ s.content = values[s.name]
  BY <1>7
<1>9. ASSUME NEW d \in Range(shown), d.name \in DOMAIN values
      PROVE  \E s \in Range(sent') : s.name = d.name
  <2>1. d.name \in names
    BY <1>9
  <2>2. [name |-> d.name, content |-> values[d.name]] \in Range(sent')
    BY <2>1, <1>7
  <2> QED
    BY <2>2
<1>10. SentOK'
  <2>1. outcome = NoOutcome
    BY <1>2, <1>3 DEF SentOK
  <2>2. \A d \in Range(shown) : d.required = TRUE => values[d.name] # <<>>
    BY <1>2
  <2> QED
    BY <2>1, <2>2, <1>2, <1>4, <1>7, <1>8, <1>9 DEF SentOK
<1>11. AllFlagged' /\ NeededShown' /\ ValuesSingle'
  BY <1>2, <1>3 DEF AllFlagged, NeededShown, ValuesSingle, IsShown, AtMostOne
<1> QED
  BY <1>10, <1>11 DEF SendInv

(* What is sent stays, whatever comes of it. *)
LEMMA OtherSendSteps ==
    ASSUME FormInv, SendInv,
           \/ UNCHANGED vars
           \/ run_discovery
           \/ \E a \in Authorities : DeleteAuthority(a)
           \/ \E request_dto \in Requests : prepare_and_issue(request_dto)
           \/ \E serial \in Serials : identify(serial)
    PROVE  SendInv'
<1>1. /\ form' = form /\ shown' = shown /\ values' = values /\ pending' = pending /\ sent' = sent
      /\ outcome' = outcome \/ sent # <<>>
  BY DEF vars, run_discovery, DeleteAuthority, prepare_and_issue, identify
<1> QED
  BY <1>1 DEF SendInv, AllFlagged, NeededShown, ValuesSingle, IsShown, AtMostOne, SentOK

(* The invariant of what is sent holds in every state. *)
THEOREM SendInvariant == Spec => []SendInv
<1>1. FormInv /\ SendInv /\ [Next]_vars => SendInv'
  <2> SUFFICES ASSUME FormInv, SendInv, [Next]_vars PROVE SendInv'
    OBVIOUS
  <2>1. ASSUME NEW a \in Authorities, get_raprofile_attributes(a) PROVE SendInv'
    BY <2>1, RaProfileSendStep
  <2>2. CASE get_discovery_attributes
    BY <2>2, DiscoverySendStep
  <2>3. CASE Fill
    BY <2>3, FillSendStep
  <2>4. CASE RunCallback
    BY <2>4, RunSendStep
  <2>5. CASE Submit
    BY <2>5, SubmitStep
  <2>6. CASE \/ UNCHANGED vars
             \/ run_discovery
             \/ \E a \in Authorities : DeleteAuthority(a)
             \/ \E request_dto \in Requests : prepare_and_issue(request_dto)
             \/ \E serial \in Serials : identify(serial)
    BY <2>6, OtherSendSteps
  <2> QED
    BY <2>1, <2>2, <2>3, <2>4, <2>5, <2>6 DEF Next
<1> QED
  BY <1>1, SendInit, FormInvariant, PTL DEF Spec

-------------------------------------------------------------------------------
(* What the services read of what was sent are the values.                   *)
LEMMA ReadBack ==
    ASSUME SentOK, sent # <<>>, NEW name \in DOMAIN values, IsShown(name)
    PROVE  /\ get_attribute_value_list(name, sent) = values[name]
           /\ values[name] = <<>> => get_attribute_value(name, sent) = NoValue
           /\ values[name] # <<>> => get_attribute_value(name, sent) = values[name][1]
<1>1. /\ IsList(sent)
      /\ \A s \in Range(sent) : s.name \in DOMAIN values /\ s.content = values[s.name]
      /\ \E s \in Range(sent) : s.name = name
  BY DEF SentOK, IsShown
<1>2. PICK positions : positions = {i \in DOMAIN sent : sent[i].name = name /\ sent[i].content # <<>>}
  OBVIOUS
<1>3. PICK found : found = Elements(sent, positions)
  OBVIOUS
<1>4. /\ IsList(found) /\ \A x \in Range(found) : \E i \in positions : x = sent[i]
      /\ \A i \in positions : sent[i] \in Range(found)
  <2>1. positions \subseteq DOMAIN sent
    BY <1>2
  <2> QED
    BY <2>1, <1>1, <1>3, SomeOfList
<1>5. get_attribute_value_list(name, sent) = IF found = <<>> THEN <<>> ELSE found[1].content
  BY <1>2, <1>3 DEF get_attribute_value_list
<1>6. get_attribute_value_list(name, sent) = values[name]
  <2>1. CASE values[name] = <<>>
    <3>1. positions = {}
      BY <2>1, <1>1, <1>2 DEF Range
    <3>2. Range(found) = {}
      BY <3>1, <1>4
    <3>3. found = <<>>
      BY <3>2, <1>4 DEF IsList, Range
    <3> QED
      BY <2>1, <3>3, <1>5
  <2>2. CASE values[name] # <<>>
    <3>1. PICK i \in DOMAIN sent : sent[i].name = name
      BY <1>1 DEF Range
    <3>2. i \in positions
      BY <3>1, <2>2, <1>1, <1>2 DEF Range
    <3>3. found # <<>>
      <4>1. Range(<<>>) = {}
        BY DEF Range
      <4> QED
        BY <3>2, <4>1, <1>4
    <3>4. found[1] \in Range(found)
      BY <3>3, <1>4 DEF IsList, Range
    <3>5. PICK j \in positions : found[1] = sent[j]
      BY <3>4, <1>4
    <3>6. found[1].content = values[name]
      BY <3>5, <1>1, <1>2 DEF Range
    <3> QED
      BY <3>3, <3>6, <1>5
  <2> QED
    BY <2>1, <2>2
<1> QED
  BY <1>6 DEF get_attribute_value

ProfileCas == ChosenCas("raprofile_select_ca_method", "raprofile_ca_name", "raprofile_config_string")
CaIsChosen(ca) ==
    /\ get_ca_from_attributes = {ca}
    /\ ProfileCas = {[name |-> ca.name, config |-> ca.config_string]}
FormSent(kind) == FormInv /\ SendInv /\ sent # <<>> /\ form.kind = kind /\ kind # "none"

LEMMA ShownName ==
    ASSUME NEW kind, FormSent(kind), NEW name \in ValueNames(kind), name \in RequiredNames
    PROVE  /\ IsShown(name) /\ name \in DOMAIN values
           /\ values[name] # <<>> /\ values[name] = <<values[name][1]>>
<1>1. /\ ValuesOK /\ AllFlagged /\ NeededShown /\ ValuesSingle /\ SentOK /\ sent # <<>>
      /\ form.kind = kind /\ kind # "none"
  BY DEF FormSent, FormInv, SendInv
<1>2. IsShown(name) /\ name \in DOMAIN values
  BY <1>1 DEF NeededShown, ValuesOK, AlwaysShown
<1>3. PICK d \in Range(shown) : d.name = name
  BY <1>2 DEF IsShown
<1>4. d.required = TRUE
  BY <1>1, <1>3 DEF AllFlagged, Flagged
<1>5. values[name] # <<>>
  BY <1>1, <1>3, <1>4 DEF SentOK
<1>6. name \in SingleNames
  BY DEF SingleNames, RequiredNames
<1>7. PICK c : values[name] = <<c>>
  BY <1>1, <1>5, <1>6 DEF ValuesSingle, AtMostOne
<1> QED
  BY <1>2, <1>5, <1>7

LEMMA CaSent ==
    ASSUME FormSent("raprofile")
    PROVE  (get_ca_from_attributes = {} /\ ProfileCas = {}) \/ \E ca : CaIsChosen(ca)
<1>1. /\ ShownOK /\ ValuesOK /\ OffersOK /\ NeededShown /\ ValuesSingle /\ SentOK
      /\ sent # <<>> /\ form.kind = "raprofile" /\ pending = {}
  BY DEF FormSent, FormInv, SendInv, SentOK
<1> DEFINE m == "raprofile_select_ca_method"
           n == "raprofile_ca_name"
           c == "raprofile_config_string"
<1>2. {m, n, c} \subseteq ValueNames("raprofile") /\ DOMAIN values = ValueNames("raprofile")
  BY <1>1 DEF ValueNames, RaProfileNames, ValuesOK
<1>3. IsShown(m) /\ values[m] # <<>> /\ values[m] = <<values[m][1]>>
  BY <1>2, ShownName DEF RequiredNames, MethodNames
<1>4. values[m][1] \in {"search", "configstring"} /\ IsShown(SelectionName("raprofile", values[m][1]))
  BY <1>1, <1>2, <1>3 DEF ValuesSingle, NeededShown, MethodNames
<1>5. get_attribute_value(m, sent) = values[m][1]
  BY <1>1, <1>2, <1>3, ReadBack
<1>6. AtMostOne(values[n]) /\ AtMostOne(values[c])
  BY <1>1, <1>2 DEF ValuesSingle, SingleNames
<1>7. CASE values[m][1] = "search"
  <2>1. IsShown(n)
    BY <1>4, <1>7 DEF SelectionName
  <2>2. ProfileCas = {[name |-> x.name, config |-> x.config_string] : x \in Range(values[n])}
    BY <1>3, <1>7 DEF ProfileCas, ChosenCas
  <2>3. PICK chosen : chosen = get_attribute_value(n, sent)
    OBVIOUS
  <2>4. get_ca_from_attributes =
            IF Readable(chosen, AuthorityFields) THEN {from_dict(chosen, AuthorityFields)} ELSE {}
    BY <1>5, <1>7, <2>3 DEF get_ca_from_attributes
  <2>5. CASE values[n] = <<>>
    <3>1. chosen = NoValue
      BY <2>1, <2>3, <2>5, <1>1, <1>2, ReadBack
    <3>2. Range(<<>>) = {}
      BY DEF Range
    <3> QED
      BY <2>2, <2>4, <2>5, <3>1, <3>2 DEF Readable
  <2>6. CASE values[n] # <<>>
    <3>1. PICK x : values[n] = <<x>>
      BY <2>6, <1>6 DEF AtMostOne
    <3>2. chosen = x
      BY <2>1, <2>3, <3>1, <1>1, <1>2, ReadBack
    <3>3. Range(<<x>>) = {x}
      BY DEF Range
    <3>4. ChosenAuthority = form.uuid /\ form.uuid \in Authorities
      BY <1>1 DEF ChosenAuthority, ValuesOK
    <3>5. x \in Range(get_cas(form.uuid))
      <4>1. PICK d \in Range(shown) : d.name = n
        BY <2>1 DEF IsShown
      <4> QED
        BY <4>1, <3>1, <3>3, <3>4, <1>1 DEF OffersOK, Offered, CaNames
    <3>6. x # NoValue
      BY <3>4, <3>5, CasAssumption
    <3>7. PICK o : x = CaOf(o)
      BY <3>4, <3>5, CasRead DEF Range
    <3>8. AuthorityFields \subseteq DOMAIN x
      BY <3>7 DEF CaOf, AuthorityFields
    <3>9. PICK ca : ca = from_dict(x, AuthorityFields)
      OBVIOUS
    <3>10. ca.name = x.name /\ ca.config_string = x.config_string
      BY <3>9 DEF from_dict, AuthorityFields
    <3>11. get_ca_from_attributes = {ca}
      BY <2>4, <3>2, <3>6, <3>8, <3>9 DEF Readable
    <3>12. ProfileCas = {[name |-> ca.name, config |-> ca.config_string]}
      BY <2>2, <3>1, <3>3, <3>10
    <3> QED
      BY <3>11, <3>12 DEF CaIsChosen
  <2> QED
    BY <2>5, <2>6
<1>8. CASE values[m][1] = "configstring"
  <2>1. IsShown(c)
    BY <1>4, <1>8 DEF SelectionName
  <2>2. ProfileCas = {[name |-> x[2], config |-> x] : x \in {x \in Range(values[c]) : WellFormed(x)}}
    <3>1. values[m] # <<"search">>
      <4>1. values[m][1] # "search"
        BY <1>8
      <4> QED
        BY <4>1
    <3> QED
      BY <3>1 DEF ProfileCas, ChosenCas
  <2>3. PICK typed : typed = get_attribute_value(c, sent)
    OBVIOUS
  <2>4. get_ca_from_attributes = IF WellFormed(typed) THEN {OfConfigString(typed)} ELSE {}
    BY <1>5, <1>8, <2>3 DEF get_ca_from_attributes
  <2>5. CASE values[c] = <<>>
    <3>1. typed = NoValue
      BY <2>1, <2>3, <2>5, <1>1, <1>2, ReadBack
    <3>2. Range(<<>>) = {}
      BY DEF Range
    <3> QED
      BY <2>2, <2>4, <2>5, <3>1, <3>2 DEF WellFormed
  <2>6. CASE values[c] # <<>>
    <3>1. PICK x : values[c] = <<x>>
      BY <2>6, <1>6 DEF AtMostOne
    <3>2. typed = x
      BY <2>1, <2>3, <3>1, <1>1, <1>2, ReadBack
    <3>3. Range(<<x>>) = {x}
      BY DEF Range
    <3>4. CASE WellFormed(x)
      <4>1. PICK ca : ca = OfConfigString(x)
        OBVIOUS
      <4>2. ca.name = x[2] /\ ca.config_string = x
        BY <4>1 DEF OfConfigString
      <4>3. ProfileCas = {[name |-> ca.name, config |-> ca.config_string]}
        BY <2>2, <3>1, <3>3, <3>4, <4>2
      <4>4. get_ca_from_attributes = {ca}
        BY <2>4, <3>2, <3>4, <4>1
      <4> QED
        BY <4>3, <4>4 DEF CaIsChosen
    <3>5. CASE ~WellFormed(x)
      BY <2>2, <2>4, <3>1, <3>2, <3>3, <3>5
    <3> QED
      BY <3>4, <3>5
  <2> QED
    BY <2>5, <2>6
<1> QED
  BY <1>4, <1>7, <1>8

TemplateIsChosen(o) ==
    /\ ChosenTemplates("raprofile_template_name") = {o}
    /\ from_dict(get_attribute_value("raprofile_template_name", sent), TemplateFields) = TemplateOf(o)

LEMMA TemplateSent ==
    ASSUME FormSent("raprofile")
    PROVE  \E o : TemplateIsChosen(o)
<1>1. /\ ValuesOK /\ OffersOK /\ SentOK /\ sent # <<>> /\ form.kind = "raprofile"
  BY DEF FormSent, FormInv, SendInv
<1> DEFINE n == "raprofile_template_name"
<1>2. n \in ValueNames("raprofile") /\ DOMAIN values = ValueNames("raprofile")
  BY <1>1 DEF ValueNames, RaProfileNames, ValuesOK
<1>3. IsShown(n) /\ values[n] # <<>> /\ values[n] = <<values[n][1]>>
  BY <1>2, ShownName DEF RequiredNames
<1>4. PICK x : x = values[n][1]
  OBVIOUS
<1>5. get_attribute_value(n, sent) = x
  BY <1>1, <1>2, <1>3, <1>4, ReadBack
<1>6. Range(values[n]) = {x}
  <2>1. Range(<<x>>) = {x}
    BY DEF Range
  <2> QED
    BY <2>1, <1>3, <1>4
<1>7. ChosenAuthority = form.uuid /\ form.uuid \in Authorities
  BY <1>1 DEF ChosenAuthority, ValuesOK
<1>8. x \in Range(get_templates(form.uuid))
  <2>1. PICK d \in Range(shown) : d.name = n
    BY <1>3 DEF IsShown
  <2> QED
    BY <2>1, <1>1, <1>6, <1>7 DEF OffersOK, Offered
<1>9. PICK o \in Range(TemplatesOf[form.uuid]) : x = TemplateOf(o)
  BY <1>7, <1>8, TemplatesRead DEF Range
<1>10. x.name = o["Name"]
  BY <1>9 DEF TemplateOf
<1>11. ChosenTemplates(n) = {o}
  <2>1. ChosenTemplates(n) = {t \in Range(TemplatesOf[form.uuid]) : x.name = t["Name"]}
    BY <1>6, <1>7 DEF ChosenTemplates
  <2> QED
    BY <2>1, <1>7, <1>9, <1>10, UniqueAssumption
<1>12. from_dict(x, TemplateFields) = TemplateOf(o)
  BY <1>9 DEF from_dict, TemplateFields, TemplateOf
<1> QED
  BY <1>5, <1>11, <1>12 DEF TemplateIsChosen

(* The extensions of a request: the template's, and the client's SAN. *)
LEMMA ExtensionsOf ==
    ASSUME NEW crmf \in CRMFs, NEW extension, extension.extn_id # SAN
    PROVE  LET extensions == crmf[1].certTemplate.extensions
               all == Range(<<extension>> \o SubjectAltName(extensions))
               alternatives == {e \in Range(extensions) : e.extn_id = SAN}
           IN  /\ {e \in all : e.extn_id = SAN} = alternatives
               /\ all \ alternatives = {extension}
<1> DEFINE extensions == crmf[1].certTemplate.extensions
           alternatives == {e \in Range(extensions) : e.extn_id = SAN}
<1>1. /\ IsList(extensions)
      /\ \A i, j \in DOMAIN extensions : extensions[i].extn_id = SAN /\ extensions[j].extn_id = SAN => i = j
  BY UniqueAssumption DEF IsList
<1>2. PICK positions : positions = {i \in DOMAIN extensions : extensions[i].extn_id = SAN}
  OBVIOUS
<1>3. PICK names : names = Elements(extensions, positions)
  OBVIOUS
<1>4. SubjectAltName(extensions) = IF names = <<>> THEN <<>> ELSE <<Head(names)>>
  BY <1>2, <1>3 DEF SubjectAltName
<1> HIDE DEF extensions
<1>5. /\ IsList(names) /\ \A x \in Range(names) : \E i \in positions : x = extensions[i]
      /\ \A i \in positions : extensions[i] \in Range(names)
  <2>1. positions \subseteq DOMAIN extensions
    BY <1>2
  <2> QED
    BY <2>1, <1>1, <1>3, SomeOfList
<1>6. CASE names = <<>>
  <2>1. Range(<<>>) = {}
    BY DEF Range
  <2>2. alternatives = {}
    BY <2>1, <1>2, <1>5, <1>6 DEF Range
  <2>3. <<extension>> \o SubjectAltName(extensions) = <<extension>>
    BY <1>4, <1>6
  <2>4. Range(<<extension>>) = {extension}
    BY DEF Range
  <2> QED
    BY <2>2, <2>3, <2>4 DEF extensions
<1>7. CASE names # <<>>
  <2>1. PICK e : e = Head(names)
    OBVIOUS
  <2>2. e \in Range(names)
    BY <2>1, <1>5, <1>7 DEF IsList, Range
  <2>3. PICK i \in positions : e = extensions[i]
    BY <2>2, <1>5
  <2>4. alternatives = {e}
    BY <2>3, <1>1, <1>2 DEF Range
  <2>5. <<extension>> \o SubjectAltName(extensions) = <<extension, e>>
    BY <2>1, <1>4, <1>7, OneAndOne
  <2>6. Range(<<extension, e>>) = {extension, e}
    BY DEF Range
  <2>7. e.extn_id = SAN /\ extension # e
    BY <2>3, <1>2
  <2>8. {x \in {extension, e} : x.extn_id = SAN} = {e} /\ {extension, e} \ {e} = {extension}
    BY <2>7
  <2>9. Range(<<extension>> \o SubjectAltName(extensions)) = {extension, e}
    BY <2>5, <2>6
  <2> HIDE DEF alternatives
  <2> QED
    BY <2>4, <2>8, <2>9 DEF extensions, alternatives
<1> QED
  BY <1>6, <1>7

(* The request is what the client asks for, under the template. *)
TemplateValue(o) ==
    IF o["SchemaVersion"] = "1" THEN <<o["Name"]>> ELSE <<o["OID"]>> \o o["Version"]

IssuedAsAsked(out, cas, o) ==
    LET asked == Requested(out.request)
        client == out.asked.request[1].certTemplate
        alternatives == {e \in Range(client.extensions) : e.extn_id = SAN}
    IN  /\ out.config_string \in {c.config : c \in cas}
        /\ out.template = o["Name"]
        /\ out.asked.format # "crmf" => out.request = out.asked.request
        /\ out.asked.format = "crmf" =>
               /\ Verifies(out.request)
               /\ asked.subject = client.subject /\ asked.key = client.publicKey
               /\ alternatives = {e \in asked.extensions : e.extn_id = SAN}
               /\ {e.extn_value : e \in asked.extensions \ alternatives} = {TemplateValue(o)}

LEMMA RequestMade ==
    ASSUME NEW crmf \in CRMFs, NEW name, NEW template
    PROVE  LET request == create_cms(crmf, name, template)
               client == crmf[1].certTemplate
           IN  /\ Verifies(request)
               /\ Requested(request).subject = client.subject
               /\ Requested(request).key = client.publicKey
               /\ Requested(request).extensions =
                      Range(<<TemplateExtension(template)>> \o SubjectAltName(client.extensions))
<1> DEFINE client == crmf[1].certTemplate
<1>1. PICK extensions : extensions = <<TemplateExtension(template)>> \o SubjectAltName(client.extensions)
  OBVIOUS
<1>2. PICK cri : cri = [version |-> 0, subject |-> client.subject, subject_pk_info |-> client.publicKey,
                        attributes |-> <<[type |-> "extension_request", values |-> <<extensions>>]>>]
  OBVIOUS
<1>3. PICK pkcs10 : pkcs10 = [certification_request_info |-> cri, signature_algorithm |-> "sha256",
                              signature |-> Sha256(cri)]
  OBVIOUS
<1>4. convert_crmf_to_null_signed_pkcs10(crmf, template) = pkcs10
  BY <1>1, <1>2, <1>3 DEF convert_crmf_to_null_signed_pkcs10
<1>5. PICK pki_data : pki_data = create_pki_data(pkcs10)
  OBVIOUS
<1>6. pki_data.reqSequence[1].tcr.certificationRequest = pkcs10
  BY <1>5 DEF create_pki_data
<1>7. PICK signed_attrs : signed_attrs = create_signed_attributes(pki_data)
  OBVIOUS
<1>8. /\ signed_attrs.content_type = "1.3.6.1.5.5.7.12.2"
      /\ signed_attrs.message_digest = Sha256(pki_data)
  BY <1>7 DEF create_signed_attributes
<1>9. PICK encap : encap = create_encap_content_info(pki_data)
  OBVIOUS
<1>10. encap.content_type = "1.3.6.1.5.5.7.12.2" /\ encap.content = pki_data
  BY <1>9 DEF create_encap_content_info
<1>11. PICK signed : signed = create_signed_data(pki_data, name)
  OBVIOUS
<1>12. /\ signed.encap_content_info = encap /\ signed.digest_algorithms = {"sha256"}
       /\ signed.signer_infos = create_signer_infos(name, pki_data)
  BY <1>9, <1>10, <1>11 DEF create_signed_data
<1>13. PICK signer : signer = signed.signer_infos[1]
  OBVIOUS
<1>14. /\ signer.signed_attrs = signed_attrs /\ signer.digest_algorithm = "sha256"
       /\ signer.signature = Sha256(signed_attrs)
  BY <1>7, <1>12, <1>13 DEF create_signer_infos
<1>15. PICK request : request = create_cms(crmf, name, template)
  OBVIOUS
<1>16. request.content = signed
  BY <1>4, <1>5, <1>11, <1>15 DEF create_cms
<1>17. Pkcs10Of(request) = pkcs10
  BY <1>6, <1>10, <1>12, <1>16 DEF Pkcs10Of
<1>18. pkcs10.certification_request_info = cri /\ pkcs10.signature = Sha256(cri)
  BY <1>3
<1>19. Verifies(request)
  BY <1>8, <1>10, <1>12, <1>13, <1>14, <1>16, <1>17, <1>18 DEF Verifies
<1>20. /\ cri.subject = client.subject /\ cri.subject_pk_info = client.publicKey
       /\ cri.attributes[1].values[1] = extensions
  BY <1>2
<1>21. /\ Requested(request).subject = client.subject /\ Requested(request).key = client.publicKey
       /\ Requested(request).extensions = Range(extensions)
  BY <1>17, <1>18, <1>20 DEF Requested
<1> QED
  BY <1>1, <1>15, <1>19, <1>21

LEMMA RequestFits ==
    ASSUME NEW crmf \in CRMFs, NEW ca, NEW cas, ca.config_string \in {c.config : c \in cas}, NEW o,
           NEW out, out.asked.format = "crmf", out.asked.request = crmf, out.template = o["Name"],
           out.config_string = ca.config_string, out.request = create_cms(crmf, ca.name, TemplateOf(o))
    PROVE  IssuedAsAsked(out, cas, o)
<1>1. PICK template : template = TemplateOf(o)
  OBVIOUS
<1>2. PICK extension : extension = TemplateExtension(template)
  OBVIOUS
<1>3. extension.extn_id # SAN /\ extension.extn_value = TemplateValue(o)
  BY <1>1, <1>2 DEF TemplateExtension, TemplateOf, TemplateValue, SAN
<1> DEFINE extensions == crmf[1].certTemplate.extensions
           all == Range(<<extension>> \o SubjectAltName(extensions))
           alternatives == {e \in Range(extensions) : e.extn_id = SAN}
<1>4. {e \in all : e.extn_id = SAN} = alternatives /\ all \ alternatives = {extension}
  BY <1>3, ExtensionsOf
<1>5. /\ Verifies(out.request)
      /\ Requested(out.request).subject = crmf[1].certTemplate.subject
      /\ Requested(out.request).key = crmf[1].certTemplate.publicKey
      /\ Requested(out.request).extensions = all
  BY <1>1, <1>2, RequestMade
<1>6. {e.extn_value : e \in all \ alternatives} = {TemplateValue(o)}
  BY <1>3, <1>4
<1> HIDE DEF all
<1> QED
  BY <1>4, <1>5, <1>6 DEF IssuedAsAsked

(* What identify reads of the CA's answer, and what it says.                 *)
HasRow(a, name, serial, o) ==
    \E n \in {p["Name"] : p \in Range(Forest[a])} \intersect {name} :
        \E row \in Range(Database[n]) : row.serial = serial /\ row.template \in {o["Name"], o["OID"]}

Answer(parsed, template) ==
    IF parsed = <<>> THEN "notFound"
    ELSE IF Len(parsed) = 1 /\ parsed[1].certificate_template \in {template.oid, template.name}
    THEN "identified" ELSE "invalid"

IdentifiedObjects(rows, config) ==
    [i \in DOMAIN rows |-> [k \in Range(IdentifiedKeys) |->
        CASE k = "CertificateTemplate" -> rows[i].template
          [] k = "SerialNumber" -> rows[i].serial
          [] k = "ConfigString" -> config]]

LEMMA IdentifiedParsed ==
    ASSUME NEW rows, IsList(rows), NEW config
    PROVE  LET parsed == parse_identified_certificates(
                             PrintedObjects(IdentifiedKeys, IdentifiedObjects(rows, config)))
           IN  /\ parsed = [i \in DOMAIN rows |-> parsed[i]]
               /\ \A i \in DOMAIN rows : parsed[i].certificate_template = rows[i].template
<1>1. PICK objects : objects = IdentifiedObjects(rows, config)
  OBVIOUS
<1>2. IsList(objects) /\ DOMAIN objects = DOMAIN rows
  <2>1. PICK n \in Nat : DOMAIN rows = 1..n
    BY LenProperties DEF IsList
  <2>2. DOMAIN objects = 1..n /\ objects = [i \in 1..n |-> objects[i]]
    BY <1>1, <2>1 DEF IdentifiedObjects
  <2> QED
    BY <2>1, <2>2, NamedList
<1>3. Len(IdentifiedKeys) = 3 /\ IdentifiedKeys[3] = "ConfigString"
      /\ Range(IdentifiedKeys) = {"CertificateTemplate", "SerialNumber", "ConfigString"}
  BY DEF IdentifiedKeys, Range
<1>4. PICK records : records = ParseRecords(Range(IdentifiedKeys), "ConfigString",
                                            PrintedObjects(IdentifiedKeys, objects))
  OBVIOUS
<1>5. records = [i \in DOMAIN objects |-> RecordOf(IdentifiedKeys, objects[i])]
  <2>1. ParseRecords(Range(IdentifiedKeys), IdentifiedKeys[Len(IdentifiedKeys)], PrintedObjects(IdentifiedKeys, objects))
          = [i \in DOMAIN objects |-> RecordOf(IdentifiedKeys, objects[i])]
    BY <1>2, TheKeys, ParsesPrinted DEF IsList
  <2> QED
    BY <2>1, <1>3, <1>4
<1>6. PICK parsed : parsed = parse_identified_certificates(PrintedObjects(IdentifiedKeys, objects))
  OBVIOUS
<1>7. parsed = [i \in DOMAIN records |->
                   [certificate_template |-> records[i]["CertificateTemplate"],
                    serial_number |-> records[i]["SerialNumber"],
                    config_string |-> records[i]["ConfigString"]]]
  BY <1>4, <1>6 DEF parse_identified_certificates
<1>8. ASSUME NEW i \in DOMAIN rows PROVE parsed[i].certificate_template = rows[i].template
  <2>1. objects[i]["CertificateTemplate"] = rows[i].template
    BY <1>1, <1>3 DEF IdentifiedObjects
  <2>2. records[i]["CertificateTemplate"] = objects[i]["CertificateTemplate"]
    BY <1>2, <1>3, <1>5 DEF RecordOf
  <2> QED
    BY <2>1, <2>2, <1>2, <1>5, <1>7
<1>9. parsed = [i \in DOMAIN rows |-> parsed[i]]
  BY <1>2, <1>5, <1>7
<1> QED
  BY <1>1, <1>6, <1>8, <1>9

LEMMA AnswerIs ==
    ASSUME NEW a \in Authorities, NEW ca, NEW serial, NEW o, NEW template, template = TemplateOf(o)
    PROVE  LET answer == Answer(parse_identified_certificates(identified_rows(a, ca, serial)), template)
           IN  answer \in {"identified", "notFound", "invalid"}
               /\ (answer = "identified" <=> HasRow(a, ca.name, serial, o))
<1> DEFINE known == \E i \in DOMAIN Forest[a] : Forest[a][i]["Name"] = ca.name
           places == {i \in DOMAIN Database[ca.name] : Database[ca.name][i].serial = serial}
<1>1. template.oid = o["OID"] /\ template.name = o["Name"]
  BY DEF TemplateOf
<1>2. PICK rows : rows = IF known THEN Elements(Database[ca.name], places) ELSE <<>>
  OBVIOUS
<1>3. PICK parsed : parsed = parse_identified_certificates(identified_rows(a, ca, serial))
  OBVIOUS
<1>4. identified_rows(a, ca, serial)
        = PrintedObjects(IdentifiedKeys, IdentifiedObjects(rows, ca.config_string))
  BY <1>2 DEF identified_rows, IdentifiedObjects
<1>5. Answer(parsed, template) \in {"identified", "notFound", "invalid"}
  BY DEF Answer
<1>6. CASE ~known
  <2>1. rows = <<>>
    BY <1>2, <1>6
  <2>2. parsed = [i \in DOMAIN rows |-> parsed[i]]
    BY <2>1, <1>3, <1>4, EmptyIsList, IdentifiedParsed
  <2>3. parsed = <<>>
    BY <2>1, <2>2
  <2>4. ~HasRow(a, ca.name, serial, o)
    BY <1>6 DEF HasRow, Range
  <2> QED
    BY <2>3, <2>4, <1>3, <1>5 DEF Answer
<1>7. CASE known
  <2>1. ca.name \in DOMAIN Database /\ ca.name \in {p["Name"] : p \in Range(Forest[a])}
    BY <1>7, FormsAssumption DEF Range
  <2>2. PICK table : table = Database[ca.name]
    OBVIOUS
  <2>3. IsList(table) /\ \A i, j \in DOMAIN table : table[i].serial = table[j].serial => i = j
    BY <2>1, <2>2, UniqueAssumption DEF IsList
  <2>4. PICK positions : positions = {i \in DOMAIN table : table[i].serial = serial}
    OBVIOUS
  <2>5. rows = Elements(table, positions)
    BY <2>2, <2>4, <1>2, <1>7
  <2>6. /\ IsList(rows) /\ \A x \in Range(rows) : \E i \in positions : x = table[i]
        /\ \A i \in positions : table[i] \in Range(rows)
    <3>1. positions \subseteq DOMAIN table
      BY <2>4
    <3> QED
      BY <3>1, <2>3, <2>5, SomeOfList
  <2>7. /\ parsed = [i \in DOMAIN rows |-> parsed[i]]
        /\ \A i \in DOMAIN rows : parsed[i].certificate_template = rows[i].template
    BY <2>6, <1>3, <1>4, IdentifiedParsed
  <2>8. HasRow(a, ca.name, serial, o) <=>
            \E row \in Range(table) : row.serial = serial /\ row.template \in {o["Name"], o["OID"]}
    BY <2>1, <2>2 DEF HasRow
  <2>9. CASE positions = {}
    <3>1. rows = <<>>
      BY <2>6, <2>9 DEF IsList, Range
    <3>2. parsed = <<>>
      BY <3>1, <2>7
    <3>3. ~HasRow(a, ca.name, serial, o)
      BY <2>4, <2>8, <2>9 DEF Range
    <3> QED
      BY <3>2, <3>3, <1>3, <1>5 DEF Answer
  <2>10. CASE positions # {}
    <3>1. PICK i \in DOMAIN table : positions = {i} /\ table[i].serial = serial
      BY <2>3, <2>4, <2>10
    <3>2. rows = <<table[i]>>
      <4>1. Cardinality(positions) = 1
        BY <3>1, FS_Singleton
      <4>2. rows = [k \in 1..1 |-> rows[k]]
        BY <4>1, <2>5 DEF Elements
      <4>3. rows = <<rows[1]>> /\ rows[1] \in Range(rows)
        BY <4>2 DEF Range
      <4> QED
        BY <4>3, <2>6, <3>1
    <3>3. DOMAIN rows = 1..1 /\ rows[1] = table[i]
      BY <3>2
    <3>4. parsed = [k \in 1..1 |-> parsed[k]] /\ parsed[1].certificate_template = table[i].template
      BY <3>3, <2>7
    <3>5. parsed # <<>> /\ Len(parsed) = 1
      BY <3>4
    <3>6. HasRow(a, ca.name, serial, o) <=> table[i].template \in {o["Name"], o["OID"]}
      BY <3>1, <2>4, <2>8 DEF Range
    <3> QED
      BY <3>4, <3>5, <3>6, <1>1, <1>3, <1>5 DEF Answer
  <2> QED
    BY <2>9, <2>10
<1> QED
  BY <1>6, <1>7

(* What came of a profile's use, for the CAs and the template chosen in it. *)
Follows(out, uuid, cas, o) ==
    /\ out.status = "submitted" => IssuedAsAsked(out, cas, o)
    /\ out.status \in {"identified", "notFound", "invalid"} =>
           (out.status = "identified" <=>
                \E n \in {p["Name"] : p \in Range(Forest[uuid])} \intersect {c.name : c \in cas} :
                    \E row \in Range(Database[n]) :
                        row.serial = out.serial /\ row.template \in {o["Name"], o["OID"]})
    /\ out.status \in {"submitted", "identified", "notFound", "invalid", "refused"}

(* Issuing and identifying, with what was sent. *)
LEMMA IssueFollows ==
    ASSUME FormSent("raprofile"), NEW request_dto \in Requests, prepare_and_issue(request_dto), NEW o, TemplateIsChosen(o)
    PROVE  /\ Follows(outcome', form.uuid, ProfileCas, o)
           /\ outcome'.status = "refused" => form.uuid \notin authorities \/ ProfileCas = {}
<1>1. PICK template : template = TemplateOf(o)
  OBVIOUS
<1>2. IF get_ca_from_attributes = {} \/ form.uuid \notin authorities
      THEN outcome' = Refused
      ELSE \E ca \in get_ca_from_attributes :
               outcome' = [status |-> "submitted", asked |-> request_dto,
                           config_string |-> ca.config_string, template |-> template.name,
                           request |-> certificate_request(request_dto, ca, template)]
  BY <1>1 DEF prepare_and_issue, TemplateIsChosen
<1>3. CASE get_ca_from_attributes = {} \/ form.uuid \notin authorities
  <2>1. outcome'.status = "refused"
    BY <1>2, <1>3 DEF Refused
  <2>2. form.uuid \notin authorities \/ ProfileCas = {}
    BY <1>3, CaSent DEF CaIsChosen
  <2> QED
    BY <2>1, <2>2 DEF Follows
<1>4. CASE ~(get_ca_from_attributes = {} \/ form.uuid \notin authorities)
  <2>1. PICK ca \in get_ca_from_attributes :
            outcome' = [status |-> "submitted", asked |-> request_dto,
                        config_string |-> ca.config_string, template |-> template.name,
                        request |-> certificate_request(request_dto, ca, template)]
    BY <1>2, <1>4
  <2>2. PICK out : out = outcome'
    OBVIOUS
  <2>3. /\ out.status = "submitted" /\ out.asked = request_dto /\ out.config_string = ca.config_string
        /\ out.template = o["Name"]
        /\ out.request = certificate_request(request_dto, ca, TemplateOf(o))
    <3>1. template.name = o["Name"]
      BY <1>1 DEF TemplateOf
    <3> QED
      BY <2>1, <2>2, <3>1, <1>1
  <2>4. CaIsChosen(ca)
    BY <2>1, <1>4, CaSent DEF CaIsChosen
  <2>5. ca.config_string \in {c.config : c \in ProfileCas}
    BY <2>4 DEF CaIsChosen
  <2>6. IssuedAsAsked(out, ProfileCas, o)
    <3>1. CASE request_dto.format = "crmf"
      <4>1. request_dto.request \in CRMFs
        BY <3>1 DEF Requests
      <4>2. out.request = create_cms(request_dto.request, ca.name, TemplateOf(o))
        BY <2>3, <3>1 DEF certificate_request
      <4> QED
        BY <2>3, <2>5, <3>1, <4>1, <4>2, RequestFits
    <3>2. CASE request_dto.format # "crmf"
      <4>1. out.request = request_dto.request
        BY <2>3, <3>2 DEF certificate_request
      <4> QED
        BY <2>3, <2>5, <3>2, <4>1 DEF IssuedAsAsked
    <3> QED
      BY <3>1, <3>2
  <2> QED
    BY <2>2, <2>3, <2>6 DEF Follows
<1> QED
  BY <1>3, <1>4

LEMMA IdentifyFollows ==
    ASSUME FormSent("raprofile"), NEW serial, identify(serial), NEW o, TemplateIsChosen(o)
    PROVE  /\ Follows(outcome', form.uuid, ProfileCas, o)
           /\ outcome'.status = "refused" => form.uuid \notin authorities \/ ProfileCas = {}
<1>1. PICK template : template = TemplateOf(o)
  OBVIOUS
<1>2. IF get_ca_from_attributes = {} \/ form.uuid \notin authorities
      THEN outcome' = Refused
      ELSE \E ca \in get_ca_from_attributes :
               outcome' = [serial |-> serial, status |->
                   Answer(parse_identified_certificates(identified_rows(form.uuid, ca, serial)), template)]
  BY <1>1 DEF identify, TemplateIsChosen, Answer
<1>3. CASE get_ca_from_attributes = {} \/ form.uuid \notin authorities
  <2>1. outcome'.status = "refused"
    BY <1>2, <1>3 DEF Refused
  <2>2. form.uuid \notin authorities \/ ProfileCas = {}
    BY <1>3, CaSent DEF CaIsChosen
  <2> QED
    BY <2>1, <2>2 DEF Follows
<1>4. CASE ~(get_ca_from_attributes = {} \/ form.uuid \notin authorities)
  <2>1. PICK ca \in get_ca_from_attributes :
            outcome' = [serial |-> serial, status |->
                Answer(parse_identified_certificates(identified_rows(form.uuid, ca, serial)), template)]
    BY <1>2, <1>4
  <2>2. PICK out : out = outcome'
    OBVIOUS
  <2>3. PICK answer :
            answer = Answer(parse_identified_certificates(identified_rows(form.uuid, ca, serial)), template)
    OBVIOUS
  <2>4. out.serial = serial /\ out.status = answer
    BY <2>1, <2>2, <2>3
  <2>5. form.uuid \in Authorities
    BY DEF FormSent, FormInv, ValuesOK
  <2>6. /\ answer \in {"identified", "notFound", "invalid"}
        /\ answer = "identified" <=> HasRow(form.uuid, ca.name, serial, o)
    BY <2>3, <2>5, <1>1, AnswerIs
  <2>7. CaIsChosen(ca)
    BY <2>1, <1>4, CaSent DEF CaIsChosen
  <2>8. {c.name : c \in ProfileCas} = {ca.name}
    BY <2>7 DEF CaIsChosen
  <2>9. HasRow(form.uuid, ca.name, serial, o) <=>
            \E n \in {p["Name"] : p \in Range(Forest[form.uuid])} \intersect {c.name : c \in ProfileCas} :
                \E row \in Range(Database[n]) :
                    row.serial = out.serial /\ row.template \in {o["Name"], o["OID"]}
    BY <2>4, <2>8 DEF HasRow
  <2>10. Follows(out, form.uuid, ProfileCas, o)
    BY <2>4, <2>6, <2>9 DEF Follows
  <2> QED
    BY <2>2, <2>4, <2>6, <2>10
<1> QED
  BY <1>3, <1>4

LEMMA FollowedThen ==
    ASSUME NEW o, TemplateIsChosen(o), Follows(outcome', form.uuid, ProfileCas, o),
           outcome'.status = "refused" => form.uuid \notin authorities \/ ProfileCas = {},
           form' = form, values' = values, authorities' = authorities
    PROVE  ProfileIsFollowed'
<1>1. ChosenCas("raprofile_select_ca_method", "raprofile_ca_name", "raprofile_config_string")' = ProfileCas
  BY DEF ProfileCas, ChosenCas
<1>2. ChosenTemplates("raprofile_template_name")' = {o}
  <2>1. ChosenTemplates("raprofile_template_name")' = ChosenTemplates("raprofile_template_name")
    BY DEF ChosenTemplates, ChosenAuthority
  <2> QED
    BY <2>1 DEF TemplateIsChosen
<1>3. (CHOOSE t \in {o} : TRUE) = o
  OBVIOUS
<1> QED
  BY <1>1, <1>2, <1>3 DEF ProfileIsFollowed, Follows, IssuedAsAsked, TemplateValue

(* An RA profile is followed: what is issued is what the client asked for,   *)
(* under the chosen template, at the chosen CA; a certificate is identified  *)
(* exactly if the chosen CA has it under that template; and neither is       *)
(* refused unless the authority is gone or no CA was chosen.                 *)
THEOREM ProfilesAreFollowed == Spec => []ProfileIsFollowed
<1>1. Init => ProfileIsFollowed
  BY DEF Init, ProfileIsFollowed, NoOutcome
<1>2. FormInv /\ SendInv /\ ProfileIsFollowed /\ [Next]_vars => ProfileIsFollowed'
  <2> SUFFICES ASSUME FormInv, SendInv, ProfileIsFollowed, [Next]_vars PROVE ProfileIsFollowed'
    OBVIOUS
  <2>1. ASSUME outcome' = NoOutcome PROVE ProfileIsFollowed'
    BY <2>1 DEF ProfileIsFollowed, NoOutcome
  <2>2. CASE \/ get_discovery_attributes \/ Fill \/ RunCallback \/ Submit
             \/ \E a \in Authorities : get_raprofile_attributes(a)
    <3>1. SentOK
      BY DEF SendInv
    <3>2. (sent = <<>> \/ form.kind = "none") /\ outcome' = outcome
      BY <2>2 DEF get_discovery_attributes, Fill, RunCallback, Submit, get_raprofile_attributes
    <3> QED
      BY <2>1, <3>1, <3>2 DEF SentOK
  <2>3. CASE UNCHANGED vars \/ \E a \in Authorities : DeleteAuthority(a)
    <3>1. form' = form /\ values' = values /\ outcome' = outcome /\ authorities' \subseteq authorities
      BY <2>3 DEF vars, DeleteAuthority
    <3>2. ChosenTemplates("raprofile_template_name")' = ChosenTemplates("raprofile_template_name")
      BY <3>1 DEF ChosenTemplates, ChosenAuthority
    <3>3. ChosenCas("raprofile_select_ca_method", "raprofile_ca_name", "raprofile_config_string")'
            = ChosenCas("raprofile_select_ca_method", "raprofile_ca_name", "raprofile_config_string")
      BY <3>1 DEF ChosenCas
    <3> QED
      BY <3>1, <3>2, <3>3 DEF ProfileIsFollowed
  <2>4. CASE run_discovery
    <3>1. form'.kind = "discovery" /\ outcome'.status \in {"refused", "completed"}
      BY <2>4 DEF run_discovery, Refused
    <3> QED
      BY <3>1 DEF ProfileIsFollowed
  <2>5. ASSUME NEW request_dto \in Requests, prepare_and_issue(request_dto) PROVE ProfileIsFollowed'
    <3>1. FormSent("raprofile") /\ form' = form /\ values' = values /\ authorities' = authorities
      BY <2>5 DEF prepare_and_issue, FormSent
    <3>2. PICK o : TemplateIsChosen(o)
      BY <3>1, TemplateSent
    <3> QED
      BY <2>5, <3>1, <3>2, IssueFollows, FollowedThen
  <2>6. ASSUME NEW serial \in Serials, identify(serial) PROVE ProfileIsFollowed'
    <3>1. FormSent("raprofile") /\ form' = form /\ values' = values /\ authorities' = authorities
      BY <2>6 DEF identify, FormSent
    <3>2. PICK o : TemplateIsChosen(o)
      BY <3>1, TemplateSent
    <3> QED
      BY <2>6, <3>1, <3>2, IdentifyFollows, FollowedThen
  <2> QED
    BY <2>2, <2>3, <2>4, <2>5, <2>6 DEF Next
<1> QED
  BY <1>1, <1>2, FormInvariant, SendInvariant, PTL DEF Spec
-------------------------------------------------------------------------------
(* What a discovery is asked for: a value of its authority, CAs and templates. *)
DiscoveryCas == ChosenCas("discovery_select_ca_method", "discovery_ca_name", "discovery_config_string")
CasAreChosen(selected) ==
    /\ SelectedCas = {selected}
    /\ {c.name : c \in Range(selected)} = {c.name : c \in DiscoveryCas}
    /\ selected = <<>> <=> DiscoveryCas = {}
NoCaIsChosen ==
    SelectedCas = {} /\ DiscoveryCas = {} /\ values["discovery_select_ca_method"] = <<"configstring">>

LEMMA CasSent ==
    ASSUME FormSent("discovery")
    PROVE  NoCaIsChosen \/ \E selected : CasAreChosen(selected)
<1>1. /\ ValuesOK /\ NeededShown /\ ValuesSingle /\ SentOK
      /\ sent # <<>> /\ form.kind = "discovery" /\ pending = {}
  BY DEF FormSent, FormInv, SendInv, SentOK
<1> DEFINE m == "discovery_select_ca_method"
           n == "discovery_ca_name"
           c == "discovery_config_string"
<1>2. {m, n, c} \subseteq ValueNames("discovery") /\ DOMAIN values = ValueNames("discovery")
  BY <1>1 DEF ValueNames, DiscoveryNames, ValuesOK
<1>3. IsShown(m) /\ values[m] # <<>> /\ values[m] = <<values[m][1]>>
  BY <1>2, ShownName DEF RequiredNames, MethodNames
<1>4. values[m][1] \in {"search", "configstring"} /\ IsShown(SelectionName("discovery", values[m][1]))
  BY <1>1, <1>2, <1>3 DEF ValuesSingle, NeededShown, MethodNames
<1>5. get_attribute_value(m, sent) = values[m][1]
  BY <1>1, <1>2, <1>3, ReadBack
<1>6. IsList(values[n]) /\ AtMostOne(values[c])
  BY <1>1, <1>2 DEF ValuesOK, CaNames, ValuesSingle, SingleNames
<1>7. CASE values[m][1] = "search"
  <2>1. IsShown(n)
    BY <1>4, <1>7 DEF SelectionName
  <2>2. get_attribute_value_list(n, sent) = values[n]
    BY <2>1, <1>1, <1>2, ReadBack
  <2>3. PICK selected : selected = from_dicts(values[n], AuthorityFields)
    OBVIOUS
  <2>4. SelectedCas = {selected}
    BY <2>2, <2>3, <1>5, <1>7 DEF SelectedCas
  <2>5. DiscoveryCas = {[name |-> x.name, config |-> x.config_string] : x \in Range(values[n])}
    BY <1>3, <1>7 DEF DiscoveryCas, ChosenCas
  <2>6. DOMAIN selected = DOMAIN values[n] /\ \A i \in DOMAIN values[n] : selected[i].name = values[n][i].name
    BY <2>3 DEF from_dicts, from_dict, AuthorityFields
  <2>7. {x.name : x \in Range(selected)} = {x.name : x \in DiscoveryCas}
    <3>1. {x.name : x \in DiscoveryCas} = {x.name : x \in Range(values[n])}
      <4> DEFINE Known(x) == [name |-> x.name, config |-> x.config_string]
      <4>1. \A x : Known(x).name = x.name
        OBVIOUS
      <4>2. DiscoveryCas = {Known(x) : x \in Range(values[n])}
        BY <2>5
      <4> HIDE DEF Known
      <4>3. ASSUME NEW y
            PROVE  y \in {x.name : x \in DiscoveryCas} <=> y \in {x.name : x \in Range(values[n])}
        BY <4>1, <4>2
      <4> QED
        BY <4>3
    <3>2. {x.name : x \in Range(selected)} = {x.name : x \in Range(values[n])}
      BY <2>6 DEF Range
    <3> QED
      BY <3>1, <3>2
  <2>8. values[n] = <<>> <=> DiscoveryCas = {}
    <3>1. values[n] = <<>> <=> Range(values[n]) = {}
      <4>1. values[n] = <<>> <=> DOMAIN values[n] = {}
        BY <1>6 DEF IsList
      <4> QED
        BY <4>1 DEF Range
    <3>2. DiscoveryCas = {} <=> Range(values[n]) = {}
      BY <2>5
    <3> QED
      BY <3>1, <3>2
  <2>9. selected = <<>> <=> values[n] = <<>>
    <3>1. selected = [i \in DOMAIN values[n] |-> selected[i]]
      BY <2>3 DEF from_dicts
    <3> QED
      BY <3>1, <1>6 DEF IsList
  <2> QED
    BY <2>4, <2>7, <2>8, <2>9 DEF CasAreChosen
<1>8. CASE values[m][1] = "configstring"
  <2>1. IsShown(c)
    BY <1>4, <1>8 DEF SelectionName
  <2>2. DiscoveryCas = {[name |-> x[2], config |-> x] : x \in {x \in Range(values[c]) : WellFormed(x)}}
    <3>1. values[m] # <<"search">>
      <4>1. values[m][1] # "search"
        BY <1>8
      <4> QED
        BY <4>1
    <3> QED
      BY <3>1 DEF DiscoveryCas, ChosenCas
  <2>3. PICK typed : typed = get_attribute_value(c, sent)
    OBVIOUS
  <2>4. SelectedCas = IF WellFormed(typed) THEN {<<OfConfigString(typed)>>} ELSE {}
    BY <1>5, <1>8, <2>3 DEF SelectedCas
  <2>5. values[m] = <<"configstring">>
    BY <1>3, <1>8
  <2>6. CASE values[c] = <<>>
    <3>1. typed = NoValue
      BY <2>1, <2>3, <2>6, <1>1, <1>2, ReadBack
    <3>2. Range(<<>>) = {}
      BY DEF Range
    <3> QED
      BY <2>2, <2>4, <2>5, <2>6, <3>1, <3>2 DEF WellFormed, NoCaIsChosen
  <2>7. CASE values[c] # <<>>
    <3>1. PICK x : values[c] = <<x>>
      BY <2>7, <1>6 DEF AtMostOne
    <3>2. typed = x
      BY <2>1, <2>3, <3>1, <1>1, <1>2, ReadBack
    <3>3. \A y : Range(<<y>>) = {y}
      BY DEF Range
    <3>4. CASE WellFormed(x)
      <4>1. PICK ca : ca = OfConfigString(x)
        OBVIOUS
      <4>2. ca.name = x[2]
        BY <4>1 DEF OfConfigString
      <4>3. DiscoveryCas = {[name |-> ca.name, config |-> x]}
        BY <2>2, <3>1, <3>3, <3>4, <4>2
      <4>4. SelectedCas = {<<ca>>} /\ <<ca>> # <<>>
        BY <2>4, <3>2, <3>4, <4>1
      <4>5. {y.name : y \in Range(<<ca>>)} = {y.name : y \in DiscoveryCas}
        BY <3>3, <4>3
      <4> QED
        BY <4>3, <4>4, <4>5 DEF CasAreChosen
    <3>5. CASE ~WellFormed(x)
      BY <2>2, <2>4, <2>5, <3>1, <3>2, <3>3, <3>5 DEF NoCaIsChosen
    <3> QED
      BY <3>4, <3>5
  <2> QED
    BY <2>6, <2>7
<1> QED
  BY <1>4, <1>7, <1>8

DiscoveryTemplates == ChosenTemplates("discovery_template_name")
QueriesOf(templates) == IF templates = <<>> THEN {{}} ELSE {{t} : t \in Range(templates)}
QueriesFor(chosen) == IF chosen = {} THEN {{}} ELSE {{TemplateOf(o)} : o \in chosen}

LEMMA TemplatesSent ==
    ASSUME FormSent("discovery")
    PROVE  /\ ChosenAuthority \in Authorities
           /\ get_attribute_value("discovery_authority_instance", sent).uuid = ChosenAuthority
           /\ DiscoveryTemplates \subseteq Range(TemplatesOf[ChosenAuthority])
           /\ QueriesOf(from_dicts(get_attribute_value_list("discovery_template_name", sent), TemplateFields))
                = QueriesFor(DiscoveryTemplates)
<1>1. /\ ValuesOK /\ OffersOK /\ NeededShown /\ SentOK
      /\ sent # <<>> /\ form.kind = "discovery" /\ pending = {}
  BY DEF FormSent, FormInv, SendInv, SentOK
<1> DEFINE n == "discovery_template_name"
           w == "discovery_authority_instance"
<1>2. {n, w} \subseteq ValueNames("discovery") /\ DOMAIN values = ValueNames("discovery")
  BY <1>1 DEF ValueNames, DiscoveryNames, ValuesOK
<1>3. IsShown(w) /\ values[w] # <<>>
  BY <1>2, ShownName DEF RequiredNames
<1>4. IsShown(n)
  BY <1>1, <1>2 DEF NeededShown, AlwaysShown
<1>5. get_attribute_value(w, sent).uuid = ChosenAuthority
  BY <1>1, <1>2, <1>3, ReadBack DEF ChosenAuthority
<1>6. get_attribute_value_list(n, sent) = values[n] /\ IsList(values[n])
  BY <1>1, <1>2, <1>4, ReadBack DEF ValuesOK, TemplateNames
<1>7. PICK a : a = ChosenAuthority
  OBVIOUS
<1>8. a \in Authorities /\ Range(values[n]) \subseteq Range(get_templates(a))
  <2>1. PICK d \in Range(shown) : d.name = n
    BY <1>4 DEF IsShown
  <2> QED
    BY <2>1, <1>1, <1>3, <1>7 DEF OffersOK, Offered
<1>9. DiscoveryTemplates = {t \in Range(TemplatesOf[a]) : \E x \in Range(values[n]) : x.name = t["Name"]}
  BY <1>7 DEF DiscoveryTemplates, ChosenTemplates
<1>10. ASSUME NEW x \in Range(values[n])
       PROVE  \E o \in DiscoveryTemplates : x = TemplateOf(o) /\ from_dict(x, TemplateFields) = TemplateOf(o)
  <2>1. PICK o \in Range(TemplatesOf[a]) : x = TemplateOf(o)
    BY <1>8, TemplatesRead DEF Range
  <2>2. x.name = o["Name"]
    BY <2>1 DEF TemplateOf
  <2>3. from_dict(x, TemplateFields) = TemplateOf(o)
    BY <2>1 DEF from_dict, TemplateFields, TemplateOf
  <2> QED
    BY <2>1, <2>2, <2>3, <1>9
<1>11. ASSUME NEW o \in DiscoveryTemplates PROVE TemplateOf(o) \in Range(values[n])
  <2>1. PICK x \in Range(values[n]) : x.name = o["Name"]
    BY <1>9
  <2>2. PICK p \in DiscoveryTemplates : x = TemplateOf(p)
    BY <1>10
  <2>3. p["Name"] = o["Name"]
    BY <2>1, <2>2 DEF TemplateOf
  <2>4. p = o
    BY <2>2, <2>3, <1>8, <1>9, UniqueAssumption
  <2> QED
    BY <2>1, <2>2, <2>4
<1>12. PICK templates : templates = from_dicts(values[n], TemplateFields)
  OBVIOUS
<1>13. Range(templates) = {TemplateOf(o) : o \in DiscoveryTemplates}
  <2>1. Range(templates) = {from_dict(x, TemplateFields) : x \in Range(values[n])}
    BY <1>12 DEF from_dicts, Range
  <2>2. \A o \in DiscoveryTemplates : from_dict(TemplateOf(o), TemplateFields) = TemplateOf(o)
    BY DEF from_dict, TemplateFields, TemplateOf
  <2> QED
    BY <2>1, <2>2, <1>10, <1>11
<1>14. templates = <<>> <=> DiscoveryTemplates = {}
  <2>1. templates = [i \in DOMAIN values[n] |-> templates[i]]
    BY <1>12 DEF from_dicts
  <2>2. templates = <<>> <=> DOMAIN values[n] = {}
    BY <2>1
  <2>3. DOMAIN values[n] = {} <=> Range(values[n]) = {}
    BY DEF Range
  <2> QED
    BY <2>2, <2>3, <1>10, <1>11
<1>15. QueriesOf(templates) = QueriesFor(DiscoveryTemplates)
  <2>1. {{t} : t \in Range(templates)} = {{TemplateOf(o)} : o \in DiscoveryTemplates}
    BY <1>13
  <2> QED
    BY <2>1, <1>14 DEF QueriesOf, QueriesFor
<1> QED
  BY <1>5, <1>6, <1>7, <1>8, <1>9, <1>12, <1>15

(* What a server prints of a CA's database, and what is parsed of it.        *)
RowsAt(a, name) == UNION {Range(Database[n]) : n \in {o["Name"] : o \in Range(Forest[a])} \intersect {name}}
OfTemplate(rows, o) == {row \in rows : row.template \in {o["Name"], o["OID"]}}
FoundOf(a, ca, query) == Range(parse_certificates(dump_certificates(a, ca, query)))
TableAt(a, ca) ==
    IF \E i \in DOMAIN Forest[a] : Forest[a][i]["Name"] = ca.name THEN Database[ca.name] ELSE <<>>

LEMMA TableIs ==
    ASSUME NEW a \in Authorities, NEW ca
    PROVE  /\ IsList(TableAt(a, ca)) /\ Range(TableAt(a, ca)) = RowsAt(a, ca.name)
           /\ \A row \in RowsAt(a, ca.name) : HasChunks(row)
<1> DEFINE known == \E i \in DOMAIN Forest[a] : Forest[a][i]["Name"] = ca.name
           forest == {o["Name"] : o \in Range(Forest[a])}
<1>1. known <=> ca.name \in forest
  BY DEF Range
<1>2. CASE known
  <2>1. TableAt(a, ca) = Database[ca.name] /\ ca.name \in DOMAIN Database
    BY <1>2, FormsAssumption DEF TableAt
  <2>2. IsList(TableAt(a, ca))
    BY <2>1, UniqueAssumption DEF IsList
  <2>3. forest \intersect {ca.name} = {ca.name}
    BY <1>1, <1>2
  <2>4. RowsAt(a, ca.name) = Range(Database[ca.name])
    BY <2>3 DEF RowsAt
  <2>5. PICK o \in Range(Forest[a]) : o["Name"] = ca.name
    BY <1>1, <1>2
  <2>6. \A row \in Range(Database[ca.name]) : HasChunks(row)
    BY <2>5, RowsAssumption DEF HasChunks
  <2> QED
    BY <2>1, <2>2, <2>4, <2>6
<1>3. CASE ~known
  <2>1. TableAt(a, ca) = <<>>
    BY <1>3 DEF TableAt
  <2>2. forest \intersect {ca.name} = {}
    BY <1>1, <1>3
  <2>3. RowsAt(a, ca.name) = {}
    BY <2>2 DEF RowsAt
  <2>4. Range(<<>>) = {}
    BY DEF Range
  <2> QED
    BY <2>1, <2>3, <2>4, EmptyIsList
<1> QED
  BY <1>2, <1>3

LEMMA SomeRows ==
    ASSUME NEW a \in Authorities, NEW ca, NEW wanted, wanted \subseteq RowsAt(a, ca.name), NEW places,
           places = {i \in DOMAIN TableAt(a, ca) : TableAt(a, ca)[i] \in wanted}
    PROVE  Range(parse_certificates(PrintedRows(Elements(TableAt(a, ca), places))))
             = {CertificateIn(row) : row \in wanted}
<1>1. PICK table : table = TableAt(a, ca)
  OBVIOUS
<1>2. IsList(table) /\ wanted \subseteq Range(table) /\ \A row \in wanted : HasChunks(row)
  BY <1>1, TableIs
<1>3. PICK rows : rows = Elements(table, places)
  OBVIOUS
<1>4. /\ IsList(rows) /\ \A x \in Range(rows) : \E i \in places : x = table[i]
      /\ \A i \in places : table[i] \in Range(rows)
  <2>1. places \subseteq DOMAIN table
    BY <1>1
  <2> QED
    BY <2>1, <1>2, <1>3, SomeOfList
<1>5. Range(rows) = wanted
  <2>1. ASSUME NEW x \in Range(rows) PROVE x \in wanted
    BY <1>1, <1>4
  <2>2. ASSUME NEW x \in wanted PROVE x \in Range(rows)
    <3>1. PICK i \in DOMAIN table : x = table[i]
      BY <1>2 DEF Range
    <3> QED
      BY <3>1, <1>1, <1>4
  <2> QED
    BY <2>1, <2>2
<1>6. parse_certificates(PrintedRows(rows)) = [i \in DOMAIN rows |-> CertificateIn(rows[i])]
  <2>1. \A i \in DOMAIN rows : HasChunks(rows[i])
    BY <1>2, <1>5 DEF Range
  <2> QED
    BY <2>1, <1>4, ParsesRows DEF IsList
<1>7. Range(parse_certificates(PrintedRows(rows))) = {CertificateIn(row) : row \in Range(rows)}
  BY <1>6 DEF Range
<1> QED
  BY <1>1, <1>3, <1>5, <1>7

(* No template stands for all of them. *)
LEMMA FoundOfAny ==
    ASSUME NEW a \in Authorities, NEW ca
    PROVE  FoundOf(a, ca, {}) = {CertificateIn(row) : row \in RowsAt(a, ca.name)}
<1>1. PICK table : table = TableAt(a, ca)
  OBVIOUS
<1>2. PICK places : places = {i \in DOMAIN table : table[i] \in RowsAt(a, ca.name)}
  OBVIOUS
<1>3. places = DOMAIN table
  BY <1>1, <1>2, TableIs DEF Range
<1>4. dump_certificates(a, ca, {}) = PrintedRows(Elements(table, DOMAIN table))
  BY <1>1 DEF dump_certificates, RowsOf, TableAt
<1> QED
  BY <1>1, <1>2, <1>3, <1>4, SomeRows DEF FoundOf

(* The rows of a template have its name or its OID, as the filter has. *)
LEMMA FoundOfTemplate ==
    ASSUME NEW a \in Authorities, NEW ca, NEW o \in Range(TemplatesOf[a])
    PROVE  FoundOf(a, ca, {TemplateOf(o)}) = {CertificateIn(row) : row \in OfTemplate(RowsAt(a, ca.name), o)}
<1>1. PICK table : table = TableAt(a, ca)
  OBVIOUS
<1>2. PICK key : key = IF o["SchemaVersion"] = "1" THEN o["Name"] ELSE o["OID"]
  OBVIOUS
<1>3. PICK t : t = TemplateOf(o)
  OBVIOUS
<1>4. (IF t.schema_version = "1" THEN t.name ELSE t.oid) = key
  BY <1>2, <1>3 DEF TemplateOf
<1>5. PICK wanted : wanted = OfTemplate(RowsAt(a, ca.name), o)
  OBVIOUS
<1>6. wanted \subseteq RowsAt(a, ca.name)
  BY <1>5 DEF OfTemplate
<1>7. PICK places : places = {i \in DOMAIN table : table[i].template = key}
  OBVIOUS
<1>8. ASSUME NEW row \in RowsAt(a, ca.name)
      PROVE  row.template = key <=> row \in wanted
  <2>1. PICK p \in Range(Forest[a]) : row \in Range(Database[p["Name"]])
    BY DEF RowsAt
  <2>2. row.template \in {o["Name"], o["OID"]} => row.template = key
    BY <2>1, <1>2, RowsAssumption
  <2> QED
    BY <2>2, <1>2, <1>5 DEF OfTemplate
<1>9. places = {i \in DOMAIN table : table[i] \in wanted}
  BY <1>1, <1>6, <1>7, <1>8, TableIs DEF Range
<1>10. dump_certificates(a, ca, {t}) = PrintedRows(Elements(table, places))
  <2>1. {IF u.schema_version = "1" THEN u.name ELSE u.oid : u \in {t}} = {key}
    BY <1>4
  <2>2. dump_certificates(a, ca, {t})
          = PrintedRows(Elements(table, {i \in DOMAIN table : table[i].template \in {key}}))
    BY <1>1, <2>1 DEF dump_certificates, RowsOf, TableAt
  <2>3. {i \in DOMAIN table : table[i].template \in {key}} = places
    BY <1>7
  <2> QED
    BY <2>2, <2>3
<1> QED
  BY <1>1, <1>3, <1>5, <1>6, <1>9, <1>10, SomeRows DEF FoundOf

(* Of all that is found, for several CAs and templates. *)
Wanted(names, templates) ==
    {row \in UNION {Range(Database[n]) : n \in names} :
        templates = {} \/ \E t \in templates : row.template \in {t["Name"], t["OID"]}}
(* The names of the forest that some CAs have. *)
NamesOf(a, cas) == {o["Name"] : o \in Range(Forest[a])} \intersect {c.name : c \in Range(cas)}

LEMMA FoundIsWanted ==
    ASSUME NEW a \in Authorities, NEW cas, NEW templates \in SUBSET Range(TemplatesOf[a]), NEW names,
           names = NamesOf(a, cas)
    PROVE  Found(a, cas, QueriesFor(templates)) = {CertificateIn(row) : row \in Wanted(names, templates)}
<1>1. ASSUME NEW ca \in Range(cas), NEW row \in RowsAt(a, ca.name)
      PROVE  row \in UNION {Range(Database[n]) : n \in names}
  BY DEF RowsAt, NamesOf
<1>2. ASSUME NEW row \in UNION {Range(Database[n]) : n \in names}
      PROVE  \E ca \in Range(cas) : row \in RowsAt(a, ca.name)
  <2>1. PICK n \in names : row \in Range(Database[n])
    OBVIOUS
  <2>2. PICK ca \in Range(cas) : n = ca.name
    BY <2>1 DEF NamesOf
  <2> QED
    BY <2>1, <2>2 DEF RowsAt, NamesOf
<1>3. CASE templates = {}
  <2>1. QueriesFor(templates) = {{}}
    BY <1>3 DEF QueriesFor
  <2>2. ASSUME NEW x PROVE x \in Found(a, cas, QueriesFor(templates))
                             <=> \E ca \in Range(cas) : \E row \in RowsAt(a, ca.name) : x = CertificateIn(row)
    BY <2>1, FoundOfAny DEF Found, FoundOf
  <2>3. Wanted(names, templates) = UNION {Range(Database[n]) : n \in names}
    BY <1>3 DEF Wanted
  <2> QED
    BY <2>2, <2>3, <1>1, <1>2
<1>4. CASE templates # {}
  <2>1. QueriesFor(templates) = {{TemplateOf(o)} : o \in templates}
    BY <1>4 DEF QueriesFor
  <2>2. ASSUME NEW x
        PROVE  x \in Found(a, cas, QueriesFor(templates))
                 <=> \E ca \in Range(cas), o \in templates :
                         \E row \in OfTemplate(RowsAt(a, ca.name), o) : x = CertificateIn(row)
    <3>1. x \in Found(a, cas, QueriesFor(templates))
            <=> \E ca \in Range(cas) : \E q \in QueriesFor(templates) : x \in FoundOf(a, ca, q)
      BY DEF Found, FoundOf
    <3>2. ASSUME NEW ca \in Range(cas)
          PROVE  (\E q \in QueriesFor(templates) : x \in FoundOf(a, ca, q))
                   <=> \E o \in templates : x \in FoundOf(a, ca, {TemplateOf(o)})
      BY <2>1
    <3>3. ASSUME NEW ca \in Range(cas), NEW o \in templates
          PROVE  x \in FoundOf(a, ca, {TemplateOf(o)})
                   <=> \E row \in OfTemplate(RowsAt(a, ca.name), o) : x = CertificateIn(row)
      BY FoundOfTemplate
    <3> QED
      BY <3>1, <3>2, <3>3
  <2>3. \A row : row \in Wanted(names, templates)
                   <=> \E ca \in Range(cas), o \in templates : row \in OfTemplate(RowsAt(a, ca.name), o)
    BY <1>1, <1>2, <1>4 DEF Wanted, OfTemplate
  <2> QED
    BY <2>2, <2>3
<1> QED
  BY <1>3, <1>4

(* The CAs that are asked, and the names of the forest they stand for. *)
AskedNames ==
    LET forest == {o["Name"] : o \in Range(Forest[ChosenAuthority])}
    IN  IF DiscoveryCas = {} THEN forest ELSE forest \intersect {c.name : c \in DiscoveryCas}
AskedCas(a, selected) == IF selected = <<>> THEN get_cas(a) ELSE selected

LEMMA AskedOf ==
    ASSUME NEW selected, CasAreChosen(selected), ChosenAuthority \in Authorities
    PROVE  AskedNames = NamesOf(ChosenAuthority, AskedCas(ChosenAuthority, selected))
<1> DEFINE forest == {o["Name"] : o \in Range(Forest[ChosenAuthority])}
<1>1. CASE selected = <<>>
  <2>1. AskedNames = forest /\ AskedCas(ChosenAuthority, selected) = get_cas(ChosenAuthority)
    BY <1>1 DEF CasAreChosen, AskedNames, AskedCas
  <2>2. PICK a : a = ChosenAuthority
    OBVIOUS
  <2>3. get_cas(a) = [i \in DOMAIN Forest[a] |-> CaOf(Forest[a][i])]
    BY <2>2, CasRead
  <2>4. \A o : CaOf(o).name = o["Name"]
    BY DEF CaOf
  <2>5. Range(get_cas(a)) = {CaOf(o) : o \in Range(Forest[a])}
    BY <2>3 DEF Range
  <2>6. {c.name : c \in Range(get_cas(a))} = {o["Name"] : o \in Range(Forest[a])}
    BY <2>4, <2>5
  <2> QED
    BY <2>1, <2>2, <2>6 DEF NamesOf
<1>2. CASE selected # <<>>
  BY <1>2 DEF CasAreChosen, AskedNames, AskedCas, NamesOf
<1> QED
  BY <1>1, <1>2

(* A discovery's outcome, for the names and templates that were asked for. *)
Finds(out, names, templates) ==
    out.status = "completed" =>
        {<<c.certificate, c.meta[2].content[1]>> : c \in out.certificates} =
        {<<row.chunks, row.template>> : row \in Wanted(names, templates)}

LEMMA LabelIs ==
    ASSUME NEW cas, NEW template
    PROVE  get_certificate_meta(cas, template)[2].content[1] = template
<1>1. get_certificate_meta(cas, template)[2] = get_template_name_metadata_attribute(template)
  BY DEF get_certificate_meta
<1>2. get_template_name_metadata_attribute(template).content = <<template>>
  BY DEF get_template_name_metadata_attribute, MetaAttribute, DataAttribute
<1> QED
  BY <1>1, <1>2

LEMMA CompletedFinds ==
    ASSUME NEW cas, NEW names, NEW templates, NEW found,
           found = {CertificateIn(row) : row \in Wanted(names, templates)}, NEW out,
           out = [status |-> "completed", certificates |->
                     {[certificate |-> c.certificate,
                       meta |-> get_certificate_meta(cas, c.template)] : c \in found}]
    PROVE  Finds(out, names, templates)
<1> DEFINE Labelled(c) == [certificate |-> c.certificate, meta |-> get_certificate_meta(cas, c.template)]
           Pair(c) == <<c.certificate, c.meta[2].content[1]>>
<1>1. \A c : Pair(Labelled(c)) = <<c.certificate, c.template>>
  BY LabelIs
<1>2. \A row : CertificateIn(row).certificate = row.chunks /\ CertificateIn(row).template = row.template
  BY DEF CertificateIn
<1>3. \A row : Pair(Labelled(CertificateIn(row))) = <<row.chunks, row.template>>
  BY <1>1, <1>2
<1>4. out.certificates = {Labelled(c) : c \in found}
  OBVIOUS
<1> HIDE DEF Labelled, Pair
<1>5. {Pair(c) : c \in out.certificates} = {Pair(Labelled(c)) : c \in found}
  BY <1>4
<1>6. {Pair(c) : c \in out.certificates} = {<<row.chunks, row.template>> : row \in Wanted(names, templates)}
  <2>1. {Pair(Labelled(c)) : c \in found} = {Pair(Labelled(CertificateIn(row))) : row \in Wanted(names, templates)}
    OBVIOUS
  <2> QED
    BY <2>1, <1>3, <1>5
<1> QED
  BY <1>6 DEF Finds, Pair

LEMMA DiscoveryFinds ==
    ASSUME FormSent("discovery"), run_discovery
    PROVE  /\ Finds(outcome', AskedNames, DiscoveryTemplates)
           /\ outcome'.status = "refused" => ChosenAuthority \notin authorities \/ NoCaIsChosen
<1> DEFINE a == get_attribute_value("discovery_authority_instance", sent).uuid
           queries == QueriesOf(from_dicts(get_attribute_value_list("discovery_template_name", sent),
                                           TemplateFields))
           Completed(selected) ==
               [status |-> "completed", certificates |->
                   {[certificate |-> c.certificate,
                     meta |-> get_certificate_meta(AskedCas(a, selected), c.template)] :
                        c \in Found(a, AskedCas(a, selected), queries)}]
<1>1. a = ChosenAuthority /\ a \in Authorities
  BY TemplatesSent
<1>2. queries = QueriesFor(DiscoveryTemplates)
  BY TemplatesSent
<1>3. DiscoveryTemplates \in SUBSET Range(TemplatesOf[a])
  BY <1>1, TemplatesSent
<1>4. IF a \notin authorities \/ SelectedCas = {}
      THEN outcome' = Refused
      ELSE \E selected \in SelectedCas : outcome' = Completed(selected)
  BY DEF run_discovery, QueriesOf, AskedCas
<1> HIDE DEF a, queries
<1>5. CASE a \notin authorities \/ SelectedCas = {}
  <2>1. outcome'.status = "refused"
    BY <1>4, <1>5 DEF Refused
  <2>2. SelectedCas = {} => NoCaIsChosen
    BY CasSent DEF CasAreChosen
  <2> QED
    BY <2>1, <2>2, <1>1, <1>5 DEF Finds
<1>6. CASE ~(a \notin authorities \/ SelectedCas = {})
  <2>1. PICK selected \in SelectedCas : outcome' = Completed(selected)
    BY <1>4, <1>6
  <2>2. CasAreChosen(selected)
    BY <2>1, CasSent DEF CasAreChosen, NoCaIsChosen
  <2>3. PICK cas : cas = AskedCas(a, selected)
    OBVIOUS
  <2>4. PICK names, templates : names = AskedNames /\ templates = DiscoveryTemplates
    OBVIOUS
  <2>5. names = NamesOf(a, cas)
    BY <2>2, <2>3, <2>4, <1>1, AskedOf
  <2>6. Found(a, cas, queries) = {CertificateIn(row) : row \in Wanted(names, templates)}
    <3>1. Found(a, cas, QueriesFor(templates))
            = {CertificateIn(row) : row \in Wanted(names, templates)}
      BY <2>4, <2>5, <1>1, <1>3, FoundIsWanted
    <3> QED
      BY <3>1, <2>4, <1>2
  <2>7. PICK out : out = outcome'
    OBVIOUS
  <2>8. out = [status |-> "completed", certificates |->
                  {[certificate |-> c.certificate, meta |-> get_certificate_meta(cas, c.template)] :
                      c \in Found(a, cas, queries)}]
    BY <2>1, <2>3, <2>7
  <2>9. Finds(out, names, templates)
    BY <2>6, <2>8, CompletedFinds
  <2>10. out.status # "refused"
    BY <2>8
  <2> QED
    BY <2>4, <2>7, <2>9, <2>10
<1> QED
  BY <1>5, <1>6

LEMMA FoundThen ==
    ASSUME Finds(outcome', AskedNames, DiscoveryTemplates),
           outcome'.status = "refused" => ChosenAuthority \notin authorities \/ NoCaIsChosen,
           form' = form, values' = values, authorities' = authorities
    PROVE  DiscoversWhatWasChosen'
<1>1. ChosenAuthority' = ChosenAuthority
  BY DEF ChosenAuthority
<1>2. ChosenCas("discovery_select_ca_method", "discovery_ca_name", "discovery_config_string")' = DiscoveryCas
  BY DEF DiscoveryCas, ChosenCas
<1>3. ChosenTemplates("discovery_template_name")' = DiscoveryTemplates
  BY <1>1 DEF DiscoveryTemplates, ChosenTemplates
<1> QED
  BY <1>1, <1>2, <1>3 DEF DiscoversWhatWasChosen, Finds, Wanted, AskedNames, NoCaIsChosen

(* A discovery finds what was chosen: exactly the rows of the chosen CAs, or *)
(* of all of the forest, that belong to the chosen templates, or to any,     *)
(* each with its template's label; and it is refused only if the authority   *)
(* is gone or the configuration string is none.                              *)
THEOREM DiscoveriesFindWhatWasChosen == Spec => []DiscoversWhatWasChosen
<1>1. Init => DiscoversWhatWasChosen
  BY DEF Init, DiscoversWhatWasChosen, NoOutcome
<1>2. FormInv /\ SendInv /\ DiscoversWhatWasChosen /\ [Next]_vars => DiscoversWhatWasChosen'
  <2> SUFFICES ASSUME FormInv, SendInv, DiscoversWhatWasChosen, [Next]_vars
               PROVE  DiscoversWhatWasChosen'
    OBVIOUS
  <2>1. ASSUME outcome' = NoOutcome PROVE DiscoversWhatWasChosen'
    BY <2>1 DEF DiscoversWhatWasChosen, NoOutcome
  <2>2. CASE \/ get_discovery_attributes \/ Fill \/ RunCallback \/ Submit
             \/ \E a \in Authorities : get_raprofile_attributes(a)
    <3>1. SentOK
      BY DEF SendInv
    <3>2. (sent = <<>> \/ form.kind = "none") /\ outcome' = outcome
      BY <2>2 DEF get_discovery_attributes, Fill, RunCallback, Submit, get_raprofile_attributes
    <3> QED
      BY <2>1, <3>1, <3>2 DEF SentOK
  <2>3. CASE UNCHANGED vars \/ \E a \in Authorities : DeleteAuthority(a)
    <3>1. form' = form /\ values' = values /\ outcome' = outcome /\ authorities' \subseteq authorities
      BY <2>3 DEF vars, DeleteAuthority
    <3>2. ChosenAuthority' = ChosenAuthority
      BY <3>1 DEF ChosenAuthority
    <3>3. ChosenTemplates("discovery_template_name")' = ChosenTemplates("discovery_template_name")
      BY <3>1, <3>2 DEF ChosenTemplates
    <3>4. ChosenCas("discovery_select_ca_method", "discovery_ca_name", "discovery_config_string")'
            = ChosenCas("discovery_select_ca_method", "discovery_ca_name", "discovery_config_string")
      BY <3>1 DEF ChosenCas
    <3> QED
      BY <3>1, <3>2, <3>3, <3>4 DEF DiscoversWhatWasChosen
  <2>4. CASE run_discovery
    <3>1. FormSent("discovery") /\ form' = form /\ values' = values /\ authorities' = authorities
      BY <2>4 DEF run_discovery, FormSent
    <3> QED
      BY <2>4, <3>1, DiscoveryFinds, FoundThen
  <2>5. CASE \/ \E request_dto \in Requests : prepare_and_issue(request_dto)
             \/ \E serial \in Serials : identify(serial)
    <3>1. form'.kind = "raprofile"
      BY <2>5 DEF prepare_and_issue, identify
    <3>2. outcome'.status # "completed"
      <4>1. ASSUME NEW request_dto \in Requests, prepare_and_issue(request_dto) PROVE outcome'.status # "completed"
        BY <4>1 DEF prepare_and_issue, Refused
      <4>2. ASSUME NEW serial \in Serials, identify(serial) PROVE outcome'.status # "completed"
        BY <4>2 DEF identify, Refused
      <4> QED
        BY <2>5, <4>1, <4>2
    <3> QED
      BY <3>1, <3>2 DEF DiscoversWhatWasChosen
  <2> QED
    BY <2>2, <2>3, <2>4, <2>5 DEF Next
<1> QED
  BY <1>1, <1>2, FormInvariant, SendInvariant, PTL DEF Spec
===============================================================================
