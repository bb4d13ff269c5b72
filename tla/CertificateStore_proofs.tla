------------------------ MODULE CertificateStore_proofs ------------------------
(***************************************************************************)
(* What CertificateStore guarantees for any number of discoveries, DELETE  *)
(* requests, cleanup threads and fingerprints, and any batch size; at the  *)
(* end, what DiscoveryPoll adds: the answers to any number of polls, for   *)
(* any page size.                                                          *)
(***************************************************************************)
EXTENDS DiscoveryPoll, Counting_proofs

-------------------------------------------------------------------------------
(* Max of a bounded, non-empty set of naturals is its greatest element. *)
LEMMA MaxOfBounded ==
    ASSUME NEW S \in SUBSET Nat, S # {}, NEW n \in Nat, \A s \in S : s < n
    PROVE  Max(S) \in S /\ \A s \in S : s <= Max(S)
<1> DEFINE gaps == {k \in Nat : \E s \in S : k = n - s}
<1>1. gaps # {}
  <2>1. PICK s \in S : TRUE
    OBVIOUS
  <2>2. n - s \in gaps
    BY <2>1
  <2> QED
    BY <2>2
<1>2. PICK g \in gaps : \A k \in gaps : <<k, g>> \notin OpToRel(<, Nat)
  BY <1>1, WFMin, NatLessThanWellFounded, Zenon
<1>3. \A k \in gaps : g <= k
  <2>1. \A k \in gaps : ~(k < g)
    BY <1>2, Zenon DEF OpToRel
  <2> QED
    BY <2>1
<1>4. PICK top \in S : g = n - top
  OBVIOUS
<1>5. \A s \in S : s <= top
  <2> SUFFICES ASSUME NEW s \in S PROVE s <= top
    OBVIOUS
  <2>1. n - s \in gaps
    OBVIOUS
  <2> QED
    BY <2>1, <1>3, <1>4
<1> QED
  BY <1>5 DEF Max

(* A batch is never smaller than one, whatever the setting says (line 101). *)
LEMMA EffectiveBatchType == EffectiveBatch \in Nat \ {0}
<1>1. CASE BatchSize <= 1
  BY <1>1, ConstantsAssumption DEF EffectiveBatch, Max
<1>2. CASE BatchSize > 1
  BY <1>2, ConstantsAssumption DEF EffectiveBatch, Max
<1> QED
  BY <1>1, <1>2, ConstantsAssumption

(* The claim's bound is a natural number. *)
LEMMA BoundType ==
    ASSUME TypeOK, RowsInSequence
    PROVE  Max({0} \union {row.id : row \in certificate}) \in Nat
<1> DEFINE ids == {0} \union {row.id : row \in certificate}
<1>1. ids \in SUBSET Nat /\ ids # {} /\ \A i \in ids : i < nextId
  BY DEF TypeOK, CertificateRow, RowsInSequence
<1>2. nextId \in Nat
  BY DEF TypeOK
<1> HIDE DEF ids
<1>3. Max(ids) \in ids
  BY <1>1, <1>2, MaxOfBounded
<1> QED
  BY <1>1, <1>3 DEF ids

(* A new link is made from a collected certificate and one of its copies. *)
LEMMA NewLinksAre ==
    ASSUME NEW d \in Discoveries, NEW l \in NewLinks(d)
    PROVE  \E fp \in Unique(d) : \E k \in 1..found[d][fp] :
              l = [discovery |-> d, certificate |-> idByFp[d][fp], copy |-> k]
BY DEF NewLinks

LEMMA NewLinksType ==
    ASSUME TypeOK, NEW d \in Discoveries
    PROVE  NewLinks(d) \in SUBSET LinkRow
<1> SUFFICES ASSUME NEW l \in NewLinks(d) PROVE l \in LinkRow
  OBVIOUS
<1>1. PICK fp \in Unique(d) : \E k \in 1..found[d][fp] :
          l = [discovery |-> d, certificate |-> idByFp[d][fp], copy |-> k]
  BY NewLinksAre
<1>2. PICK k \in 1..found[d][fp] :
          l = [discovery |-> d, certificate |-> idByFp[d][fp], copy |-> k]
  BY <1>1
<1>3. idByFp[d][fp] \in Nat /\ found[d][fp] \in Nat
  BY DEF TypeOK, Unique
<1> QED
  BY <1>2, <1>3 DEF LinkRow

-------------------------------------------------------------------------------
(* Every step keeps every variable in its type. *)
LEMMA TypeNext ==
    ASSUME TypeOK, RowsInSequence, [Next]_vars
    PROVE  TypeOK'
<1> USE ConstantsAssumption DEF TypeOK, Status, Nothing, tables, discoveryVars, requestVars, sweepVars
<1>1. ASSUME NEW d \in Discoveries, StartDiscovery(d) PROVE TypeOK'
  BY <1>1 DEF StartDiscovery
<1>2. ASSUME NEW d \in Discoveries, FetchHistory(d) PROVE TypeOK'
  BY <1>2 DEF FetchHistory
<1>3. ASSUME NEW d \in Discoveries, Collect(d) PROVE TypeOK'
  BY <1>3 DEF Collect
<1>4. ASSUME NEW d \in Discoveries, LockShared(d) PROVE TypeOK'
  BY <1>4 DEF LockShared
<1>5. ASSUME NEW d \in Discoveries, LockRow(d) PROVE TypeOK'
  BY <1>5 DEF LockRow
<1>6. ASSUME NEW d \in Discoveries, SkipPersistence(d) PROVE TypeOK'
  BY <1>6 DEF SkipPersistence
<1>7. ASSUME NEW d \in Discoveries, InsertCertificate(d) PROVE TypeOK'
  <2>1. PICK fp \in Fingerprints :
            /\ handled' = [handled EXCEPT ![d] = @ \union {fp}]
            /\ InsertRow(d, fp)
    BY <1>7 DEF InsertCertificate, InsertNext, Unique
  <2>2. [id |-> nextId, fingerprint |-> fp] \in CertificateRow
    BY DEF CertificateRow
  <2>3. /\ pending' \in [Discoveries -> SUBSET CertificateRow]
        /\ nextId' \in Nat \ {0}
    <3>1. CASE \E row \in certificate : row.fingerprint = fp
      BY <2>1, <3>1 DEF InsertRow
    <3>2. CASE ~\E row \in certificate : row.fingerprint = fp
      BY <2>1, <2>2, <3>2 DEF InsertRow
    <3> QED
      BY <3>1, <3>2
  <2>4. handled' \in [Discoveries -> SUBSET Fingerprints]
    BY <2>1
  <2> QED
    BY <1>7, <2>3, <2>4 DEF InsertCertificate
<1>8. ASSUME NEW d \in Discoveries, ReadIds(d) PROVE TypeOK'
  <2>1. VisibleTo(d) \in SUBSET CertificateRow
    BY DEF VisibleTo
  <2>2. \A fp \in Fingerprints :
            (\E row \in VisibleTo(d) : row.fingerprint = fp) =>
                (CHOOSE row \in VisibleTo(d) : row.fingerprint = fp).id \in Nat
    BY <2>1 DEF CertificateRow
  <2>3. idByFp' \in [Discoveries -> [Fingerprints -> Nat]]
    BY <1>8, <2>2 DEF ReadIds
  <2> QED
    BY <1>8, <2>3 DEF ReadIds
<1>9. ASSUME NEW d \in Discoveries, Commit(d) PROVE TypeOK'
  <2>1. link' \in SUBSET LinkRow
    BY <1>9, NewLinksType DEF Commit
  <2>2. certificate' \in SUBSET CertificateRow
    BY <1>9 DEF Commit
  <2> QED
    BY <1>9, <2>1, <2>2 DEF Commit
<1>10. ASSUME NEW d \in Discoveries, Raise(d) PROVE TypeOK'
  BY <1>10 DEF Raise, Abandon
<1>11. ASSUME NEW d \in Discoveries, MarkFailed(d) PROVE TypeOK'
  BY <1>11 DEF MarkFailed
<1>12. ASSUME NEW d \in Discoveries, CrashDiscovery(d) PROVE TypeOK'
  BY <1>12 DEF CrashDiscovery, Abandon
<1>13. ASSUME NEW r \in Requests, DeleteLock(r) PROVE TypeOK'
  BY <1>13 DEF DeleteLock
<1>14. ASSUME NEW r \in Requests, DeleteNotFound(r) PROVE TypeOK'
  BY <1>14 DEF DeleteNotFound
<1>15. ASSUME NEW r \in Requests, DeleteLinks(r) PROVE TypeOK'
  BY <1>15 DEF DeleteLinks
<1>16. ASSUME NEW r \in Requests, DeleteCommit(r) PROVE TypeOK'
  BY <1>16 DEF DeleteCommit
<1>17. ASSUME NEW r \in Requests, DeleteRollback(r) PROVE TypeOK'
  BY <1>17 DEF DeleteRollback
<1>18. ASSUME NEW w \in Sweepers, ClaimLease(w) PROVE TypeOK'
  BY <1>18, BoundType DEF ClaimLease
<1>19. ASSUME NEW w \in Sweepers, LockBatch(w) PROVE TypeOK'
  BY <1>19 DEF LockBatch
<1>20. ASSUME NEW w \in Sweepers, DeleteFullBatch(w) PROVE TypeOK'
  <2>1. PICK victims \in SUBSET Orphans(w) :
            /\ Cardinality(victims) = EffectiveBatch
            /\ certificate' = certificate \ victims
            /\ deleted' = [deleted EXCEPT ![w] = @ + Cardinality(victims)]
    BY <1>20 DEF DeleteFullBatch
  <2>2. Cardinality(victims) \in Nat
    BY <2>1, EffectiveBatchType
  <2> QED
    BY <1>20, <2>1, <2>2 DEF DeleteFullBatch
<1>21. ASSUME NEW w \in Sweepers, DeleteLastBatch(w) PROVE TypeOK'
  BY <1>21 DEF DeleteLastBatch, EndSweep
<1>22. ASSUME NEW w \in Sweepers, SweepInterrupted(w) PROVE TypeOK'
  BY <1>22 DEF SweepInterrupted, EndSweep
<1>23. ASSUME Tick PROVE TypeOK'
  BY <1>23 DEF Tick
<1>24. CASE UNCHANGED vars
  BY <1>24 DEF vars
<1> QED
  BY <1>1, <1>2, <1>3, <1>4, <1>5, <1>6, <1>7, <1>8, <1>9, <1>10, <1>11, <1>12,
     <1>13, <1>14, <1>15, <1>16, <1>17, <1>18, <1>19, <1>20, <1>21, <1>22, <1>23, <1>24
  DEF Next, DiscoveryStep, RequestStep, SweepStep

-------------------------------------------------------------------------------
(* A batch waits for the persistence transactions, and they for it. *)
LEMMA LockExclusionNext ==
    ASSUME TypeOK, LockExclusion, [Next]_vars
    PROVE  LockExclusion'
<1> USE DEF TypeOK, tables, discoveryVars, requestVars, sweepVars, LockExclusion, SharedHolders, ExclusiveHolders
<1>1. ASSUME NEW d \in Discoveries, LockShared(d) PROVE LockExclusion'
  BY <1>1 DEF LockShared
<1>2. ASSUME NEW d \in Discoveries,
              StartDiscovery(d) \/ FetchHistory(d) \/ Collect(d) \/ LockRow(d)
           \/ SkipPersistence(d) \/ InsertCertificate(d) \/ ReadIds(d) \/ Commit(d)
           \/ Raise(d) \/ MarkFailed(d) \/ CrashDiscovery(d)
      PROVE LockExclusion'
  BY <1>2 DEF StartDiscovery, FetchHistory, Collect, LockRow, SkipPersistence,
     InsertCertificate, ReadIds, Commit, Raise, Abandon, MarkFailed, CrashDiscovery
<1>3. ASSUME NEW r \in Requests,
              DeleteLock(r) \/ DeleteNotFound(r) \/ DeleteLinks(r)
           \/ DeleteCommit(r) \/ DeleteRollback(r)
      PROVE LockExclusion'
  BY <1>3 DEF DeleteLock, DeleteNotFound, DeleteLinks, DeleteCommit, DeleteRollback
<1>4. ASSUME NEW w \in Sweepers, LockBatch(w) PROVE LockExclusion'
  BY <1>4 DEF LockBatch
<1>5. ASSUME NEW w \in Sweepers,
              ClaimLease(w) \/ DeleteFullBatch(w) \/ DeleteLastBatch(w)
           \/ SweepInterrupted(w)
      PROVE LockExclusion'
  BY <1>5 DEF ClaimLease, DeleteFullBatch, DeleteLastBatch, EndSweep,
     SweepInterrupted
<1>6. CASE Tick
  BY <1>6 DEF Tick
<1>7. CASE UNCHANGED vars
  BY <1>7 DEF vars
<1> QED
  BY [Next]_vars, <1>1, <1>2, <1>3, <1>4, <1>5, <1>6, <1>7
  DEF Next, DiscoveryStep, RequestStep, SweepStep

(* A row's lock is taken when it is free, and only its holder removes the row. *)
LEMMA RowExclusionNext ==
    ASSUME TypeOK, RunningStatus, RowExclusion, [Next]_vars
    PROVE  RowExclusion'
<1> USE DEF TypeOK, tables, discoveryVars, requestVars, sweepVars, RowExclusion, RunningStatus, RowHeldByDiscovery, RowHolders
<1>1. ASSUME NEW d \in Discoveries, StartDiscovery(d) PROVE RowExclusion'
  BY <1>1 DEF StartDiscovery
<1>2. ASSUME NEW d \in Discoveries,
              FetchHistory(d) \/ Collect(d) \/ LockShared(d)
      PROVE RowExclusion'
  BY <1>2 DEF FetchHistory, Collect, LockShared
<1>3. ASSUME NEW d \in Discoveries, LockRow(d) PROVE RowExclusion'
  BY <1>3 DEF LockRow, RowFree
<1>4. ASSUME NEW d \in Discoveries,
              SkipPersistence(d) \/ InsertCertificate(d) \/ ReadIds(d)
      PROVE RowExclusion'
  BY <1>4 DEF SkipPersistence, InsertCertificate, ReadIds
<1>5. ASSUME NEW d \in Discoveries, Commit(d) PROVE RowExclusion'
  BY <1>5 DEF Commit
<1>6. ASSUME NEW d \in Discoveries, Raise(d) \/ CrashDiscovery(d) PROVE RowExclusion'
  BY <1>6 DEF Raise, Abandon, CrashDiscovery
<1>7. ASSUME NEW d \in Discoveries, MarkFailed(d) PROVE RowExclusion'
  BY <1>7 DEF MarkFailed, RowFree
<1>8. ASSUME NEW r \in Requests, DeleteLock(r) PROVE RowExclusion'
  BY <1>8 DEF DeleteLock, RowFree
<1>9. ASSUME NEW r \in Requests, DeleteNotFound(r) PROVE RowExclusion'
  BY <1>9 DEF DeleteNotFound
<1>10. ASSUME NEW r \in Requests, DeleteLinks(r) PROVE RowExclusion'
  BY <1>10 DEF DeleteLinks
<1>11. ASSUME NEW r \in Requests, DeleteCommit(r) PROVE RowExclusion'
  BY <1>11 DEF DeleteCommit
<1>12. ASSUME NEW r \in Requests, DeleteRollback(r) PROVE RowExclusion'
  BY <1>12 DEF DeleteRollback
<1>13. ASSUME NEW w \in Sweepers,
              ClaimLease(w) \/ LockBatch(w) \/ DeleteFullBatch(w)
           \/ DeleteLastBatch(w) \/ SweepInterrupted(w)
      PROVE RowExclusion'
  BY <1>13 DEF ClaimLease, LockBatch, DeleteFullBatch, DeleteLastBatch, EndSweep,
     SweepInterrupted
<1>14. CASE Tick
  BY <1>14 DEF Tick
<1>15. CASE UNCHANGED vars
  BY <1>15 DEF vars
<1> QED
  BY [Next]_vars, <1>1, <1>2, <1>3, <1>4, <1>5, <1>6, <1>7, <1>8, <1>9, <1>10,
     <1>11, <1>12, <1>13, <1>14, <1>15
  DEF Next, DiscoveryStep, RequestStep, SweepStep

(* No link of a discovery appears while a DELETE holds its row. *)
LEMMA CascadeCompleteNext ==
    ASSUME TypeOK, RowExclusion, CascadeComplete, [Next]_vars
    PROVE  CascadeComplete'
<1> USE DEF TypeOK, tables, discoveryVars, requestVars, sweepVars, CascadeComplete
<1>1. ASSUME NEW d \in Discoveries,
              StartDiscovery(d) \/ FetchHistory(d) \/ Collect(d) \/ LockShared(d)
           \/ LockRow(d) \/ SkipPersistence(d) \/ InsertCertificate(d)
           \/ ReadIds(d) \/ Raise(d) \/ MarkFailed(d) \/ CrashDiscovery(d)
      PROVE CascadeComplete'
  BY <1>1 DEF StartDiscovery, FetchHistory, Collect, LockShared, LockRow,
     SkipPersistence, InsertCertificate, ReadIds, Raise, Abandon, MarkFailed,
     CrashDiscovery
<1>2. ASSUME NEW d \in Discoveries, Commit(d) PROVE CascadeComplete'
  <2>1. RowHolders(d) = {}
    BY <1>2 DEF Commit, RowExclusion, RowHeldByDiscovery
  <2>2. \A r \in Requests : rpc[r] = "cascading" => target[r] # d
    BY <2>1 DEF RowHolders
  <2>3. \A l \in NewLinks(d) : l.discovery = d
    BY NewLinksAre
  <2> QED
    BY <1>2, <2>2, <2>3 DEF Commit
<1>3. ASSUME NEW r \in Requests, DeleteLock(r) \/ DeleteNotFound(r) PROVE CascadeComplete'
  BY <1>3 DEF DeleteLock, DeleteNotFound
<1>4. ASSUME NEW r \in Requests, DeleteLinks(r) PROVE CascadeComplete'
  BY <1>4 DEF DeleteLinks
<1>5. ASSUME NEW r \in Requests, DeleteCommit(r) PROVE CascadeComplete'
  BY <1>5 DEF DeleteCommit
<1>6. ASSUME NEW r \in Requests, DeleteRollback(r) PROVE CascadeComplete'
  BY <1>6 DEF DeleteRollback
<1>7. ASSUME NEW w \in Sweepers,
              ClaimLease(w) \/ LockBatch(w) \/ DeleteFullBatch(w)
           \/ DeleteLastBatch(w) \/ SweepInterrupted(w)
      PROVE CascadeComplete'
  BY <1>7 DEF ClaimLease, LockBatch, DeleteFullBatch, DeleteLastBatch, EndSweep,
     SweepInterrupted
<1>8. CASE Tick
  BY <1>8 DEF Tick
<1>9. CASE UNCHANGED vars
  BY <1>9 DEF vars
<1> QED
  BY [Next]_vars, <1>1, <1>2, <1>3, <1>4, <1>5, <1>6, <1>7, <1>8, <1>9
  DEF Next, DiscoveryStep, RequestStep, SweepStep

(* Ids are handed out once, in order. *)
LEMMA RowsInSequenceNext ==
    ASSUME TypeOK, RowsInSequence, [Next]_vars
    PROVE  RowsInSequence'
<1> USE DEF TypeOK, tables, discoveryVars, requestVars, sweepVars, RowsInSequence
<1>1. ASSUME NEW d \in Discoveries,
              StartDiscovery(d) \/ FetchHistory(d) \/ Collect(d) \/ LockShared(d)
           \/ LockRow(d) \/ SkipPersistence(d) \/ ReadIds(d) \/ MarkFailed(d)
      PROVE RowsInSequence'
  <2>1. UNCHANGED <<certificate, pending, nextId>>
    BY <1>1 DEF StartDiscovery, FetchHistory, Collect, LockShared, LockRow, SkipPersistence,
             ReadIds, MarkFailed
  <2>2. \A e \in Discoveries : pc[e] \in {"inserting", "linking"} =>
            pc'[e] \in {"inserting", "linking"}
    BY <1>1 DEF StartDiscovery, FetchHistory, Collect, LockShared, LockRow, SkipPersistence,
             ReadIds, MarkFailed
  <2> QED
    BY <2>1, <2>2
<1>2. ASSUME NEW d \in Discoveries, InsertCertificate(d) PROVE RowsInSequence'
  <2>1. PICK fp \in Fingerprints : InsertRow(d, fp)
    BY <1>2 DEF InsertCertificate, InsertNext, Unique
  <2>2. CASE \E row \in certificate : row.fingerprint = fp
    <3>1. UNCHANGED <<pending, nextId>>
      BY <2>1, <2>2 DEF InsertRow
    <3> QED
      BY <1>2, <3>1 DEF InsertCertificate
  <2>3. CASE ~\E row \in certificate : row.fingerprint = fp
    <3>1. /\ pending' = [pending EXCEPT ![d] =
                            pending[d] \union {[id |-> nextId, fingerprint |-> fp]}]
          /\ nextId' = nextId + 1
      BY <2>1, <2>3 DEF InsertRow
    <3>2. UNCHANGED <<certificate, pc>> /\ pc[d] = "inserting"
      BY <1>2 DEF InsertCertificate
    <3>3. \A row \in certificate : row.id < nextId'
      BY <3>1 DEF CertificateRow
    <3>4. ASSUME NEW e \in Discoveries, NEW row \in pending'[e] PROVE row.id < nextId'
      <4>1. row \in pending[e] \/ row = [id |-> nextId, fingerprint |-> fp]
        BY <3>1
      <4>2. row.id <= nextId
        BY <4>1 DEF CertificateRow
      <4> QED
        BY <4>1, <4>2, <3>1 DEF CertificateRow
    <3> QED
      BY <3>1, <3>2, <3>3, <3>4
  <2> QED
    BY <2>2, <2>3
<1>3. ASSUME NEW d \in Discoveries, Commit(d) PROVE RowsInSequence'
  BY <1>3 DEF Commit
<1>4. ASSUME NEW d \in Discoveries, Raise(d) \/ CrashDiscovery(d) PROVE RowsInSequence'
  <2>1. /\ UNCHANGED <<certificate, nextId>>
        /\ pending' = [pending EXCEPT ![d] = {}]
        /\ \A e \in Discoveries \ {d} : pc'[e] = pc[e]
    BY <1>4 DEF Raise, CrashDiscovery, Abandon
  <2> QED
    BY <2>1
<1>5. ASSUME NEW r \in Requests,
              DeleteLock(r) \/ DeleteNotFound(r) \/ DeleteLinks(r)
           \/ DeleteCommit(r) \/ DeleteRollback(r)
      PROVE RowsInSequence'
  BY <1>5 DEF DeleteLock, DeleteNotFound, DeleteLinks, DeleteCommit, DeleteRollback
<1>6. ASSUME NEW w \in Sweepers,
              ClaimLease(w) \/ LockBatch(w) \/ SweepInterrupted(w)
      PROVE RowsInSequence'
  BY <1>6 DEF ClaimLease, LockBatch, SweepInterrupted, EndSweep
<1>7. ASSUME NEW w \in Sweepers,
              DeleteFullBatch(w) \/ DeleteLastBatch(w)
      PROVE RowsInSequence'
  BY <1>7 DEF DeleteFullBatch, DeleteLastBatch, EndSweep
<1>8. CASE Tick
  BY <1>8 DEF Tick
<1>9. CASE UNCHANGED vars
  BY <1>9 DEF vars
<1> QED
  BY [Next]_vars, <1>1, <1>2, <1>3, <1>4, <1>5, <1>6, <1>7, <1>8, <1>9
  DEF Next, DiscoveryStep, RequestStep, SweepStep

(* The status of a discovery is moved by its own thread, or its row goes. *)
LEMMA RunningStatusNext ==
    ASSUME TypeOK, RunningStatus, [Next]_vars
    PROVE  RunningStatus'
<1> USE DEF TypeOK, tables, discoveryVars, requestVars, sweepVars, RunningStatus, Status
<1>1. ASSUME NEW d \in Discoveries, StartDiscovery(d) PROVE RunningStatus'
  BY <1>1 DEF StartDiscovery
<1>2. ASSUME NEW d \in Discoveries,
              FetchHistory(d) \/ Collect(d) \/ LockShared(d) \/ LockRow(d)
           \/ SkipPersistence(d) \/ InsertCertificate(d) \/ ReadIds(d)
      PROVE RunningStatus'
  BY <1>2 DEF FetchHistory, Collect, LockShared, LockRow, SkipPersistence,
     InsertCertificate, ReadIds
<1>3. ASSUME NEW d \in Discoveries, Commit(d) PROVE RunningStatus'
  BY <1>3 DEF Commit
<1>4. ASSUME NEW d \in Discoveries, Raise(d) \/ CrashDiscovery(d) PROVE RunningStatus'
  BY <1>4 DEF Raise, Abandon, CrashDiscovery
<1>5. ASSUME NEW d \in Discoveries, MarkFailed(d) PROVE RunningStatus'
  BY <1>5 DEF MarkFailed
<1>6. ASSUME NEW r \in Requests,
              DeleteLock(r) \/ DeleteNotFound(r) \/ DeleteLinks(r)
           \/ DeleteRollback(r)
      PROVE RunningStatus'
  BY <1>6 DEF DeleteLock, DeleteNotFound, DeleteLinks, DeleteRollback
<1>7. ASSUME NEW r \in Requests, DeleteCommit(r) PROVE RunningStatus'
  BY <1>7 DEF DeleteCommit
<1>8. ASSUME NEW w \in Sweepers,
              ClaimLease(w) \/ LockBatch(w) \/ DeleteFullBatch(w)
           \/ DeleteLastBatch(w) \/ SweepInterrupted(w)
      PROVE RunningStatus'
  BY <1>8 DEF ClaimLease, LockBatch, DeleteFullBatch, DeleteLastBatch, EndSweep,
     SweepInterrupted
<1>9. CASE Tick
  BY <1>9 DEF Tick
<1>10. CASE UNCHANGED vars
  BY <1>10 DEF vars
<1> QED
  BY [Next]_vars, <1>1, <1>2, <1>3, <1>4, <1>5, <1>6, <1>7, <1>8, <1>9, <1>10
  DEF Next, DiscoveryStep, RequestStep, SweepStep

-------------------------------------------------------------------------------
(* Rows, spelled out. *)
LEMMA RowsAre ==
    ASSUME NEW row
    PROVE  row \in Rows <=> (row \in certificate \/ \E d \in Discoveries : row \in pending[d])
BY DEF Rows

LEMMA RowsPrimed ==
    ASSUME NEW row
    PROVE  row \in Rows' <=> (row \in certificate' \/ \E d \in Discoveries : row \in pending'[d])
BY DEF Rows

(* A step that writes neither certificate nor pending rows keeps them unique. *)
LEMMA UniqueRowsFrame ==
    ASSUME UniqueRows, certificate' = certificate, pending' = pending
    PROVE  UniqueRows'
<1>1. \A row : row \in Rows' => row \in Rows
  BY RowsAre, RowsPrimed
<1> QED
  BY <1>1 DEF UniqueRows

(* One row of the bulk insert, case by case. *)
LEMMA InsertRowCases ==
    ASSUME TypeOK, NEW d \in Discoveries, NEW fp, InsertRow(d, fp)
    PROVE  \/ /\ \E row \in certificate : row.fingerprint = fp
              /\ pending' = pending /\ nextId' = nextId
           \/ /\ ~\E row \in certificate : row.fingerprint = fp
              /\ pending'[d] = pending[d] \union {[id |-> nextId, fingerprint |-> fp]}
              /\ \A e \in Discoveries \ {d} : pending'[e] = pending[e]
              /\ nextId' = nextId + 1
<1>1. CASE \E row \in certificate : row.fingerprint = fp
  BY <1>1 DEF InsertRow
<1>2. CASE ~\E row \in certificate : row.fingerprint = fp
  BY <1>2 DEF InsertRow, TypeOK
<1> QED
  BY <1>1, <1>2

(* An insert that finds no row of its fingerprint, committed or pending, adds the only one. *)
LEMMA UniqueRowsNext ==
    ASSUME TypeOK, RowsInSequence, HandledVisible, UniqueRows, [Next]_vars
    PROVE  UniqueRows'
<1> USE DEF TypeOK, tables, discoveryVars, requestVars, sweepVars
<1>1. ASSUME NEW d \in Discoveries,
              StartDiscovery(d) \/ FetchHistory(d) \/ Collect(d) \/ LockShared(d)
           \/ LockRow(d) \/ SkipPersistence(d) \/ ReadIds(d) \/ MarkFailed(d)
      PROVE UniqueRows'
  <2>1. UNCHANGED <<certificate, pending>>
    BY <1>1 DEF StartDiscovery, FetchHistory, Collect, LockShared, LockRow,
             SkipPersistence, ReadIds, MarkFailed
  <2> QED
    BY <2>1, UniqueRowsFrame
<1>2. ASSUME NEW d \in Discoveries, InsertCertificate(d) PROVE UniqueRows'
  <2>1. PICK fp \in InsertNext(d) : InsertersOf(fp, d) = {} /\ InsertRow(d, fp)
    BY <1>2 DEF InsertCertificate
  <2>2. UNCHANGED certificate /\ fp \notin handled[d]
    BY <1>2 DEF InsertCertificate, InsertNext
  <2>3. CASE pending' = pending
    BY <2>2, <2>3, UniqueRowsFrame
  <2>4. CASE ~(pending' = pending)
    <3> DEFINE new == [id |-> nextId, fingerprint |-> fp]
    <3>1. /\ ~\E row \in certificate : row.fingerprint = fp
          /\ pending'[d] = pending[d] \union {new}
          /\ \A e \in Discoveries \ {d} : pending'[e] = pending[e]
      BY <2>1, <2>4, InsertRowCases
    <3>2. ASSUME NEW row \in Rows PROVE row.id # nextId /\ row.fingerprint # fp
      <4>1. CASE row \in certificate
        BY <3>1, <4>1 DEF RowsInSequence, CertificateRow
      <4>2. CASE row \in pending[d]
        BY <2>2, <4>2 DEF RowsInSequence, HandledVisible, CertificateRow
      <4>3. ASSUME NEW e \in Discoveries \ {d}, row \in pending[e]
            PROVE  row.id # nextId /\ row.fingerprint # fp
        BY <2>1, <4>3 DEF RowsInSequence, InsertersOf, CertificateRow
      <4> QED
        BY <4>1, <4>2, <4>3, RowsAre
    <3>3. new.id = nextId /\ new.fingerprint = fp
      OBVIOUS
    <3>4. new \notin Rows
      BY <3>2, <3>3
    <3>5. \A row : row \in Rows' => row \in Rows \/ row = new
      BY <2>2, <3>1, RowsAre, RowsPrimed
    <3> HIDE DEF new
    <3>6. \A a, b \in Rows' : (a.id = b.id \/ a.fingerprint = b.fingerprint) => a = b
      BY <3>2, <3>3, <3>5 DEF UniqueRows
    <3>7. ASSUME NEW e \in Discoveries PROVE pending'[e] \intersect certificate' = {}
      <4>1. \A row \in pending'[e] : row \in pending[e] \/ row = new
        BY <3>1
      <4>2. new \notin certificate
        BY <3>4, RowsAre
      <4> QED
        BY <2>2, <4>1, <4>2 DEF UniqueRows
    <3>8. ASSUME NEW e \in Discoveries, NEW f \in Discoveries, e # f
          PROVE  pending'[e] \intersect pending'[f] = {}
      <4>1. \A g \in Discoveries : new \notin pending[g]
        BY <3>4, RowsAre
      <4>2. CASE e # d /\ f # d
        BY <3>1, <3>8, <4>2 DEF UniqueRows
      <4>3. CASE e = d
        BY <3>1, <3>8, <4>1, <4>3 DEF UniqueRows
      <4>4. CASE f = d
        BY <3>1, <3>8, <4>1, <4>4 DEF UniqueRows
      <4> QED
        BY <4>2, <4>3, <4>4
    <3> QED
      BY <3>6, <3>7, <3>8 DEF UniqueRows
  <2> QED
    BY <2>3, <2>4
<1>3. ASSUME NEW d \in Discoveries, Commit(d) PROVE UniqueRows'
  <2>1. /\ certificate' = certificate \union pending[d]
        /\ pending' = [pending EXCEPT ![d] = {}]
    BY <1>3 DEF Commit
  <2>2. \A row : row \in Rows' => row \in Rows
    BY <2>1, RowsAre, RowsPrimed
  <2> QED
    BY <2>1, <2>2 DEF UniqueRows
<1>4. ASSUME NEW d \in Discoveries, Raise(d) \/ CrashDiscovery(d) PROVE UniqueRows'
  <2>1. certificate' = certificate /\ pending' = [pending EXCEPT ![d] = {}]
    BY <1>4 DEF Raise, CrashDiscovery, Abandon
  <2>2. \A row : row \in Rows' => row \in Rows
    BY <2>1, RowsAre, RowsPrimed
  <2> QED
    BY <2>1, <2>2 DEF UniqueRows
<1>5. ASSUME NEW r \in Requests,
              DeleteLock(r) \/ DeleteNotFound(r) \/ DeleteLinks(r)
           \/ DeleteCommit(r) \/ DeleteRollback(r)
      PROVE UniqueRows'
  <2>1. UNCHANGED <<certificate, pending>>
    BY <1>5 DEF DeleteLock, DeleteNotFound, DeleteLinks, DeleteCommit, DeleteRollback
  <2> QED
    BY <2>1, UniqueRowsFrame
<1>6. ASSUME NEW w \in Sweepers,
              ClaimLease(w) \/ LockBatch(w) \/ SweepInterrupted(w)
      PROVE UniqueRows'
  <2>1. UNCHANGED <<certificate, pending>>
    BY <1>6 DEF ClaimLease, LockBatch, SweepInterrupted
  <2> QED
    BY <2>1, UniqueRowsFrame
<1>7. ASSUME NEW w \in Sweepers,
              DeleteFullBatch(w) \/ DeleteLastBatch(w)
      PROVE UniqueRows'
  <2>1. certificate' \subseteq certificate /\ pending' = pending
    BY <1>7 DEF DeleteFullBatch, DeleteLastBatch
  <2>2. \A row : row \in Rows' => row \in Rows
    BY <2>1, RowsAre, RowsPrimed
  <2> QED
    BY <2>1, <2>2 DEF UniqueRows
<1>8. CASE Tick
  BY <1>8, UniqueRowsFrame DEF Tick
<1>9. CASE UNCHANGED vars
  BY <1>9, UniqueRowsFrame DEF vars
<1> QED
  BY [Next]_vars, <1>1, <1>2, <1>3, <1>4, <1>5, <1>6, <1>7, <1>8, <1>9
  DEF Next, DiscoveryStep, RequestStep, SweepStep

-------------------------------------------------------------------------------
(* What a transaction sees only grows under a step that keeps its own rows. *)
LEMMA VisibleGrows ==
    ASSUME NEW d \in Discoveries, certificate \subseteq certificate', pending[d] \subseteq pending'[d]
    PROVE  \A row \in VisibleTo(d) : row \in VisibleTo(d)'
BY DEF VisibleTo

(* No sweep comes between an insert that skips a row and the end of its transaction. *)
LEMMA HandledVisibleNext ==
    ASSUME TypeOK, LockExclusion, RowsInSequence, HandledVisible, [Next]_vars
    PROVE  HandledVisible'
<1> USE DEF TypeOK, tables, discoveryVars, requestVars, sweepVars, Nothing
<1>1. ASSUME NEW d \in Discoveries,
              StartDiscovery(d) \/ FetchHistory(d) \/ LockShared(d) \/ LockRow(d)
           \/ MarkFailed(d)
      PROVE HandledVisible'
  <2>1. UNCHANGED <<certificate, pending, handled, found>>
    BY <1>1 DEF StartDiscovery, FetchHistory, LockShared, LockRow, MarkFailed
  <2>2. \A e \in Discoveries : pc'[e] = pc[e] \/
            (pc[e] \notin {"inserting", "linking"} /\ pc'[e] # "linking")
    BY <1>1 DEF StartDiscovery, FetchHistory, LockShared, LockRow, MarkFailed
  <2>3. \A e \in Discoveries : VisibleTo(e)' = VisibleTo(e)
    BY <2>1 DEF VisibleTo
  <2> QED
    BY <2>1, <2>2, <2>3 DEF HandledVisible, Unique
<1>2. ASSUME NEW d \in Discoveries, Collect(d) \/ SkipPersistence(d) PROVE HandledVisible'
  <2>1. /\ UNCHANGED <<certificate, pending, handled>>
        /\ pc[d] \notin {"inserting", "linking"} /\ pc'[d] # "linking"
        /\ \A e \in Discoveries \ {d} : pc'[e] = pc[e] /\ found'[e] = found[e]
    BY <1>2 DEF Collect, SkipPersistence
  <2>2. \A e \in Discoveries : VisibleTo(e)' = VisibleTo(e)
    BY <2>1 DEF VisibleTo
  <2>3. handled[d] = {}
    BY <2>1 DEF HandledVisible
  <2>4. \A e \in Discoveries \ {d} : Unique(e)' = Unique(e)
    BY <2>1 DEF Unique
  <2>5. \A e \in Discoveries : pc'[e] = "linking" => e # d /\ pc[e] = "linking"
    BY <2>1
  <2>6. \A e \in Discoveries : handled[e] # {} => e # d /\ pc'[e] = pc[e]
    BY <2>1, <2>3
  <2> QED
    BY <2>1, <2>2, <2>4, <2>5, <2>6 DEF HandledVisible
<1>3. ASSUME NEW d \in Discoveries, InsertCertificate(d) PROVE HandledVisible'
  <2>1. PICK fp \in InsertNext(d) :
            InsertRow(d, fp) /\ handled' = [handled EXCEPT ![d] = @ \union {fp}]
    BY <1>3 DEF InsertCertificate
  <2>2. UNCHANGED <<certificate, pc, found>> /\ pc[d] = "inserting" /\ fp \in Fingerprints
    BY <1>3 DEF InsertCertificate, InsertNext, Unique
  <2>3. /\ \A e \in Discoveries \ {d} : pending'[e] = pending[e] /\ handled'[e] = handled[e]
        /\ pending[d] \subseteq pending'[d] /\ handled'[d] = handled[d] \union {fp}
        /\ \A row \in pending'[d] : row \in pending[d] \/ row.fingerprint = fp
        /\ \E row \in certificate \union pending'[d] : row.fingerprint = fp
    <3> DEFINE new == [id |-> nextId, fingerprint |-> fp]
    <3>1. new.fingerprint = fp
      OBVIOUS
    <3> HIDE DEF new
    <3>2. \/ (\E row \in certificate : row.fingerprint = fp) /\ pending' = pending
          \/ /\ pending'[d] = pending[d] \union {new}
             /\ \A e \in Discoveries \ {d} : pending'[e] = pending[e]
      BY <2>1, InsertRowCases DEF new
    <3>3. handled'[d] = handled[d] \union {fp}
          /\ \A e \in Discoveries \ {d} : handled'[e] = handled[e]
      BY <2>1
    <3> QED
      BY <3>1, <3>2, <3>3
  <2>4. \A f \in handled'[d] : \E row \in VisibleTo(d)' : row.fingerprint = f
    BY <2>2, <2>3 DEF HandledVisible, VisibleTo
  <2>5. \A e \in Discoveries \ {d} : VisibleTo(e)' = VisibleTo(e)
    BY <2>2, <2>3 DEF VisibleTo
  <2>6. \A row \in pending'[d] : row.fingerprint \in handled'[d]
    BY <2>3 DEF HandledVisible
  <2>7. ASSUME NEW e \in Discoveries \ {d}
        PROVE  /\ handled'[e] # {} => pc'[e] \in {"inserting", "linking"}
               /\ pc'[e] = "linking" => handled'[e] = Unique(e)'
               /\ \A f \in handled'[e] : \E row \in VisibleTo(e)' : row.fingerprint = f
               /\ \A row \in pending'[e] : row.fingerprint \in handled'[e]
    BY <2>2, <2>3, <2>5 DEF HandledVisible, Unique
  <2> QED
    BY <2>2, <2>4, <2>6, <2>7 DEF HandledVisible
<1>4. ASSUME NEW d \in Discoveries, ReadIds(d) PROVE HandledVisible'
  BY <1>4 DEF ReadIds, HandledVisible, VisibleTo, Unique
<1>5. ASSUME NEW d \in Discoveries, Commit(d) PROVE HandledVisible'
  <2>1. \A e \in Discoveries \ {d} : \A row \in VisibleTo(e) : row \in VisibleTo(e)'
    BY <1>5 DEF Commit, VisibleTo
  <2>2. UNCHANGED found /\ handled' = [handled EXCEPT ![d] = {}] /\ pending' = [pending EXCEPT ![d] = {}]
        /\ pc' = [pc EXCEPT ![d] = "ended"]
    BY <1>5 DEF Commit
  <2>3. ASSUME NEW e \in Discoveries \ {d}
        PROVE  /\ handled'[e] # {} => pc'[e] \in {"inserting", "linking"}
               /\ pc'[e] = "linking" => handled'[e] = Unique(e)'
               /\ \A fp \in handled'[e] : \E row \in VisibleTo(e)' : row.fingerprint = fp
               /\ \A row \in pending'[e] : row.fingerprint \in handled'[e]
    BY <2>1, <2>2 DEF HandledVisible, Unique, TypeOK
  <2>4. handled'[d] = {} /\ pending'[d] = {} /\ pc'[d] = "ended"
    BY <2>2 DEF TypeOK
  <2> QED
    BY <2>3, <2>4 DEF HandledVisible
<1>6. ASSUME NEW d \in Discoveries, Raise(d) \/ CrashDiscovery(d) PROVE HandledVisible'
  <2>1. \A e \in Discoveries \ {d} :
            /\ VisibleTo(e)' = VisibleTo(e) /\ handled'[e] = handled[e] /\ found'[e] = found[e]
            /\ pc'[e] = pc[e] /\ pending'[e] = pending[e]
    BY <1>6 DEF Raise, CrashDiscovery, Abandon, VisibleTo
  <2>2. handled'[d] = {} /\ pending'[d] = {} /\ pc'[d] # "linking"
    BY <1>6 DEF Raise, CrashDiscovery, Abandon
  <2>3. ASSUME NEW e \in Discoveries \ {d}
        PROVE  /\ handled'[e] # {} => pc'[e] \in {"inserting", "linking"}
               /\ pc'[e] = "linking" => handled'[e] = Unique(e)'
               /\ \A fp \in handled'[e] : \E row \in VisibleTo(e)' : row.fingerprint = fp
               /\ \A row \in pending'[e] : row.fingerprint \in handled'[e]
    BY <2>1 DEF HandledVisible, Unique
  <2> QED
    BY <2>2, <2>3 DEF HandledVisible
<1>7. ASSUME NEW r \in Requests,
              DeleteLock(r) \/ DeleteNotFound(r) \/ DeleteLinks(r)
           \/ DeleteCommit(r) \/ DeleteRollback(r)
      PROVE HandledVisible'
  BY <1>7 DEF DeleteLock, DeleteNotFound, DeleteLinks, DeleteCommit, DeleteRollback,
           HandledVisible, VisibleTo, Unique
<1>8. ASSUME NEW w \in Sweepers,
              ClaimLease(w) \/ LockBatch(w) \/ SweepInterrupted(w)
      PROVE HandledVisible'
  BY <1>8 DEF ClaimLease, LockBatch, SweepInterrupted, HandledVisible, VisibleTo, Unique
<1>9. ASSUME NEW w \in Sweepers,
              DeleteFullBatch(w) \/ DeleteLastBatch(w)
      PROVE HandledVisible'
  <2>1. \A e \in Discoveries : pc[e] \notin {"inserting", "linking"}
    BY <1>9 DEF DeleteFullBatch, DeleteLastBatch, LockExclusion, SharedHolders, ExclusiveHolders
  <2>2. UNCHANGED <<pc, found, handled, pending, idByFp>>
    BY <1>9 DEF DeleteFullBatch, DeleteLastBatch
  <2>3. \A e \in Discoveries : handled[e] = {} /\ pending[e] = {}
    BY <2>1 DEF HandledVisible, RowsInSequence
  <2> QED
    BY <2>1, <2>2, <2>3 DEF HandledVisible
<1>10. CASE Tick
  BY <1>10 DEF Tick, HandledVisible, VisibleTo, Unique
<1>11. CASE UNCHANGED vars
  BY <1>11 DEF vars, HandledVisible, VisibleTo, Unique
<1> QED
  BY [Next]_vars, <1>1, <1>2, <1>3, <1>4, <1>5, <1>6, <1>7, <1>8, <1>9, <1>10, <1>11
  DEF Next, DiscoveryStep, RequestStep, SweepStep

(* The ids read after the insert stay good until the links are written. *)
LEMMA IdsResolvedNext ==
    ASSUME TypeOK, LockExclusion, HandledVisible, IdsResolved, [Next]_vars
    PROVE  IdsResolved'
<1> USE DEF TypeOK, tables, discoveryVars, requestVars, sweepVars, Nothing
<1>1. ASSUME NEW d \in Discoveries,
              StartDiscovery(d) \/ FetchHistory(d) \/ LockShared(d) \/ LockRow(d)
           \/ MarkFailed(d)
      PROVE IdsResolved'
  BY <1>1 DEF StartDiscovery, FetchHistory, LockShared, LockRow, MarkFailed,
           IdsResolved, VisibleTo, Unique
<1>2. ASSUME NEW d \in Discoveries, Collect(d) \/ SkipPersistence(d) PROVE IdsResolved'
  BY <1>2 DEF Collect, SkipPersistence, IdsResolved, VisibleTo, Unique
<1>3. ASSUME NEW d \in Discoveries, InsertCertificate(d) PROVE IdsResolved'
  <2>1. UNCHANGED <<certificate, pc, found, idByFp>> /\ pc[d] = "inserting"
    BY <1>3 DEF InsertCertificate
  <2>2. \A e \in Discoveries \ {d} : pending'[e] = pending[e]
    BY <1>3, InsertRowCases DEF InsertCertificate
  <2> QED
    BY <2>1, <2>2 DEF IdsResolved, VisibleTo, Unique
<1>4. ASSUME NEW d \in Discoveries, ReadIds(d) PROVE IdsResolved'
  <2>1. UNCHANGED <<certificate, pending, found>> /\ handled[d] = Unique(d)
    BY <1>4 DEF ReadIds
  <2>2. ASSUME NEW fp \in Unique(d)
        PROVE  [id |-> idByFp'[d][fp], fingerprint |-> fp] \in VisibleTo(d)
    <3> DEFINE hit == CHOOSE row \in VisibleTo(d) : row.fingerprint = fp
    <3>1. \E row \in VisibleTo(d) : row.fingerprint = fp
      BY <2>1 DEF HandledVisible
    <3>2. hit \in VisibleTo(d) /\ hit.fingerprint = fp
      BY <3>1
    <3>3. idByFp'[d][fp] = hit.id
      BY <1>4, <3>1 DEF ReadIds, Unique
    <3> HIDE DEF hit
    <3>4. hit = [id |-> hit.id, fingerprint |-> hit.fingerprint]
      BY <3>2 DEF VisibleTo, CertificateRow
    <3> QED
      BY <3>2, <3>3, <3>4
  <2>3. \A e \in Discoveries \ {d} : pc'[e] = pc[e] /\ idByFp'[e] = idByFp[e]
    BY <1>4 DEF ReadIds
  <2> QED
    BY <2>1, <2>2, <2>3 DEF IdsResolved, VisibleTo, Unique
<1>5. ASSUME NEW d \in Discoveries, Commit(d) PROVE IdsResolved'
  <2>1. \A e \in Discoveries \ {d} :
            /\ \A row \in VisibleTo(e) : row \in VisibleTo(e)'
            /\ pc'[e] = pc[e] /\ idByFp'[e] = idByFp[e]
    BY <1>5 DEF Commit, VisibleTo
  <2>2. UNCHANGED found /\ pc'[d] = "ended"
    BY <1>5 DEF Commit
  <2> QED
    BY <2>1, <2>2 DEF IdsResolved, Unique
<1>6. ASSUME NEW d \in Discoveries, Raise(d) \/ CrashDiscovery(d) PROVE IdsResolved'
  <2>1. \A e \in Discoveries \ {d} :
            /\ VisibleTo(e)' = VisibleTo(e) /\ pc'[e] = pc[e]
            /\ found'[e] = found[e] /\ idByFp'[e] = idByFp[e]
    BY <1>6 DEF Raise, CrashDiscovery, Abandon, VisibleTo
  <2>2. pc'[d] # "linking"
    BY <1>6 DEF Raise, CrashDiscovery
  <2> QED
    BY <2>1, <2>2 DEF IdsResolved, Unique
<1>7. ASSUME NEW r \in Requests,
              DeleteLock(r) \/ DeleteNotFound(r) \/ DeleteLinks(r)
           \/ DeleteCommit(r) \/ DeleteRollback(r)
      PROVE IdsResolved'
  BY <1>7 DEF DeleteLock, DeleteNotFound, DeleteLinks, DeleteCommit, DeleteRollback,
           IdsResolved, VisibleTo, Unique
<1>8. ASSUME NEW w \in Sweepers,
              ClaimLease(w) \/ LockBatch(w) \/ SweepInterrupted(w)
      PROVE IdsResolved'
  BY <1>8 DEF ClaimLease, LockBatch, SweepInterrupted, IdsResolved, VisibleTo, Unique
<1>9. ASSUME NEW w \in Sweepers,
              DeleteFullBatch(w) \/ DeleteLastBatch(w)
      PROVE IdsResolved'
  <2>1. \A e \in Discoveries : pc[e] \notin {"inserting", "linking"}
    BY <1>9 DEF DeleteFullBatch, DeleteLastBatch, LockExclusion, SharedHolders, ExclusiveHolders
  <2>2. UNCHANGED <<pc, found, handled, pending, idByFp>>
    BY <1>9 DEF DeleteFullBatch, DeleteLastBatch
  <2> QED
    BY <2>1, <2>2 DEF IdsResolved
<1>10. CASE Tick
  BY <1>10 DEF Tick, IdsResolved, VisibleTo, Unique
<1>11. CASE UNCHANGED vars
  BY <1>11 DEF vars, IdsResolved, VisibleTo, Unique
<1> QED
  BY [Next]_vars, <1>1, <1>2, <1>3, <1>4, <1>5, <1>6, <1>7, <1>8, <1>9, <1>10, <1>11
  DEF Next, DiscoveryStep, RequestStep, SweepStep

(* A link is added for a row that is there, and a row or a discovery goes only without links. *)
LEMMA ForeignKeysNext ==
    ASSUME TypeOK, CascadeComplete, IdsResolved, ForeignKeys, [Next]_vars
    PROVE  ForeignKeys'
<1> USE DEF TypeOK, tables, discoveryVars, requestVars, sweepVars, ForeignKeys
<1>1. ASSUME NEW d \in Discoveries,
              StartDiscovery(d) \/ FetchHistory(d) \/ Collect(d) \/ LockShared(d)
           \/ LockRow(d) \/ SkipPersistence(d) \/ InsertCertificate(d)
           \/ ReadIds(d) \/ MarkFailed(d)
      PROVE ForeignKeys'
  <2>1. UNCHANGED <<certificate, link>>
    BY <1>1 DEF StartDiscovery, FetchHistory, Collect, LockShared, LockRow,
                SkipPersistence, InsertCertificate, ReadIds, MarkFailed
  <2>2. \A e \in Discoveries : history[e] # "noRow" => history'[e] # "noRow"
    BY <1>1 DEF StartDiscovery, FetchHistory, Collect, LockShared, LockRow,
                SkipPersistence, InsertCertificate, ReadIds, MarkFailed
  <2> QED
    BY <2>1, <2>2 DEF LinkRow
<1>2. ASSUME NEW d \in Discoveries, Commit(d) PROVE ForeignKeys'
  <2>1. /\ link' = link \union NewLinks(d) /\ certificate' = certificate \union pending[d]
        /\ history' = [history EXCEPT ![d] = "completed"] /\ pc[d] = "linking"
    BY <1>2 DEF Commit
  <2>2. ASSUME NEW l \in NewLinks(d)
        PROVE  l.discovery = d /\ \E row \in certificate' : row.id = l.certificate
    <3>1. PICK fp \in Unique(d) : \E k \in 1..found[d][fp] :
              l = [discovery |-> d, certificate |-> idByFp[d][fp], copy |-> k]
      BY NewLinksAre
    <3>2. [id |-> idByFp[d][fp], fingerprint |-> fp] \in certificate'
      BY <2>1, <3>1 DEF IdsResolved, VisibleTo
    <3> QED
      BY <3>1, <3>2
  <2>3. ASSUME NEW l \in link
        PROVE  history'[l.discovery] # "noRow" /\ \E row \in certificate' : row.id = l.certificate
    BY <2>1 DEF LinkRow
  <2> QED
    BY <2>1, <2>2, <2>3
<1>3. ASSUME NEW d \in Discoveries, Raise(d) \/ CrashDiscovery(d) PROVE ForeignKeys'
  BY <1>3 DEF Raise, Abandon, CrashDiscovery
<1>4. ASSUME NEW r \in Requests,
              DeleteLock(r) \/ DeleteNotFound(r) \/ DeleteLinks(r)
           \/ DeleteRollback(r)
      PROVE ForeignKeys'
  BY <1>4 DEF DeleteLock, DeleteNotFound, DeleteLinks, DeleteRollback
<1>5. ASSUME NEW r \in Requests, DeleteCommit(r) PROVE ForeignKeys'
  <2>1. /\ link' = link \ doomed[r] /\ certificate' = certificate
        /\ history' = [history EXCEPT ![target[r]] = "noRow"]
    BY <1>5 DEF DeleteCommit
  <2>2. \A l \in link' : l.discovery # target[r] /\ l.discovery \in Discoveries
    BY <1>5, <2>1 DEF DeleteCommit, CascadeComplete, LinkRow
  <2> QED
    BY <2>1, <2>2
<1>6. ASSUME NEW w \in Sweepers,
              ClaimLease(w) \/ LockBatch(w) \/ SweepInterrupted(w)
      PROVE ForeignKeys'
  BY <1>6 DEF ClaimLease, LockBatch, SweepInterrupted, EndSweep
<1>7. ASSUME NEW w \in Sweepers,
              DeleteFullBatch(w) \/ DeleteLastBatch(w)
      PROVE ForeignKeys'
  <2>1. PICK victims \in SUBSET Orphans(w) : certificate' = certificate \ victims
    BY <1>7 DEF DeleteFullBatch, DeleteLastBatch
  <2>2. \A row \in victims : ~\E l \in link : l.certificate = row.id
    BY <2>1 DEF Orphans
  <2>3. UNCHANGED <<history, link>>
    BY <1>7 DEF DeleteFullBatch, DeleteLastBatch
  <2> QED
    BY <2>1, <2>2, <2>3
<1>8. CASE Tick
  BY <1>8 DEF Tick
<1>9. CASE UNCHANGED vars
  BY <1>9 DEF vars
<1> QED
  BY [Next]_vars, <1>1, <1>2, <1>3, <1>4, <1>5, <1>6, <1>7, <1>8, <1>9
  DEF Next, DiscoveryStep, RequestStep, SweepStep

-------------------------------------------------------------------------------
(* The inductive invariant holds at the start and survives every step. *)
LEMMA InitIInv == Init => IInv
<1> SUFFICES ASSUME Init PROVE IInv
  OBVIOUS
<1> USE ConstantsAssumption DEF Init, Nothing
<1>1. TypeOK
  BY DEF TypeOK
<1>2. LockExclusion /\ RowExclusion /\ CascadeComplete /\ RowsInSequence
  BY DEF LockExclusion, SharedHolders, RowExclusion, RowHeldByDiscovery, CascadeComplete,
         RowsInSequence
<1>3. HandledVisible /\ RunningStatus
  BY DEF HandledVisible, RunningStatus
<1>4. UniqueRows /\ IdsResolved /\ ForeignKeys
  BY RowsAre DEF UniqueRows, IdsResolved, ForeignKeys
<1> QED
  BY <1>1, <1>2, <1>3, <1>4 DEF IInv

LEMMA NextIInv == IInv /\ [Next]_vars => IInv'
BY TypeNext, LockExclusionNext, RowExclusionNext, CascadeCompleteNext, RowsInSequenceNext,
   HandledVisibleNext, RunningStatusNext, UniqueRowsNext, IdsResolvedNext, ForeignKeysNext, Zenon
DEF IInv

(* Every behaviour of the store satisfies the inductive invariant. *)
THEOREM Invariant == Spec => []IInv
BY InitIInv, NextIInv, PTL DEF Spec

-------------------------------------------------------------------------------
(* Every variable keeps its type. *)
THEOREM TypeCorrect == Spec => []TypeOK
BY Invariant, PTL DEF IInv

(* No transaction of a discovery, a DELETE or a sweep breaks a foreign key: *)
(* links never outlive their discovery or their certificate.                *)
THEOREM ForeignKeysHold == Spec => []ForeignKeys
BY Invariant, PTL DEF IInv

(* bulk_create(ignore_conflicts=True) stores a certificate once, however    *)
(* many discoveries insert it at the same time.                             *)
THEOREM RowsAreUnique == Spec => []UniqueRows
BY Invariant, PTL DEF IInv

(* id_by_fp has every fingerprint of the collection, and its rows are still *)
(* there when the links are written.                                        *)
THEOREM IdsAreResolved == Spec => []IdsResolved
BY Invariant, PTL DEF IInv

(* A discovery ends at most once and never comes back once deleted. *)
THEOREM LifecycleHolds == Spec => HistoryLifecycle
<1> DEFINE Moves(d) == history'[d] # history[d] =>
            \/ pc[d] = "unborn" /\ history'[d] = "inProgress"
            \/ history[d] = "inProgress" /\ history'[d] \in {"completed", "failed"}
            \/ history'[d] = "noRow"
<1>1. ASSUME IInv, [Next]_vars PROVE \A d \in Discoveries : Moves(d)
  <2> USE DEF IInv, TypeOK, RunningStatus, tables, discoveryVars, requestVars, sweepVars
  <2>1. ASSUME NEW e \in Discoveries, StartDiscovery(e) \/ Commit(e) \/ MarkFailed(e)
        PROVE  \A d \in Discoveries : Moves(d)
    <3>1. \A d \in Discoveries \ {e} : history'[d] = history[d]
      BY <1>1, <2>1 DEF StartDiscovery, Commit, MarkFailed
    <3>2. CASE StartDiscovery(e)
      BY <3>1, <3>2 DEF StartDiscovery
    <3>3. CASE Commit(e)
      <4>1. history[e] = "inProgress" /\ history'[e] = "completed"
        BY <1>1, <3>3 DEF Commit, RowExclusion, RowHeldByDiscovery
      <4> QED
        BY <3>1, <4>1
    <3>4. CASE MarkFailed(e)
      <4>1. history'[e] = history[e] \/ (history[e] = "inProgress" /\ history'[e] = "failed")
        BY <1>1, <3>4 DEF MarkFailed
      <4> QED
        BY <3>1, <4>1
    <3> QED
      BY <2>1, <3>2, <3>3, <3>4
  <2>2. ASSUME NEW r \in Requests, DeleteCommit(r)
        PROVE  \A d \in Discoveries : Moves(d)
    BY <2>2 DEF DeleteCommit
  <2>3. CASE UNCHANGED history
    BY <2>3
  <2> QED
    BY <1>1, <2>1, <2>2, <2>3
    DEF Next, DiscoveryStep, RequestStep, SweepStep, FetchHistory, Collect, LockShared,
        LockRow, SkipPersistence, InsertCertificate, ReadIds, Raise, CrashDiscovery,
        DeleteLock, DeleteNotFound, DeleteLinks, DeleteRollback, ClaimLease, LockBatch,
        DeleteFullBatch, DeleteLastBatch, SweepInterrupted, Tick, vars
<1>2. IInv /\ [Next]_vars => [\A d \in Discoveries : Moves(d)]_vars
  BY <1>1
<1> QED
  BY <1>2, Invariant, PTL DEF Spec, HistoryLifecycle

-------------------------------------------------------------------------------
(***************************************************************************)
(* What a discovery shows is what it collected, and the certificate store  *)
(* implements DiscoveryStore, on top of that invariant.                    *)
(***************************************************************************)

(* The links of one collected certificate. *)
Copies(d, c, n) == {[discovery |-> d, certificate |-> c, copy |-> k] : k \in 1..n}

ShowsCollected ==
    \A d \in Discoveries :
        IF history[d] = "completed"
        THEN \A fp \in Fingerprints :
                 \E c \in Nat : LinksTo(d, fp) = Copies(d, c, found[d][fp])
        ELSE ~\E l \in link : l.discovery = d

(* A cascade takes the links of its own discovery only. *)
OwnDoomed == \A r \in Requests : \A l \in doomed[r] : l.discovery = target[r]

RInv == IInv /\ OwnDoomed /\ ShowsCollected

-------------------------------------------------------------------------------
LEMMA CopiesCount ==
    ASSUME NEW d, NEW c, NEW n \in Nat
    PROVE  Cardinality(Copies(d, c, n)) = n
<1> DEFINE f == [k \in 1..n |-> [discovery |-> d, certificate |-> c, copy |-> k]]
<1>1. f \in Surjection(1..n, Copies(d, c, n))
  BY DEF Surjection, Copies
<1>2. f \in Injection(1..n, Copies(d, c, n))
  <2>1. \A k \in 1..n : f[k].copy = k
    OBVIOUS
  <2>2. f \in [1..n -> Copies(d, c, n)]
    BY DEF Copies
  <2> HIDE DEF f
  <2> QED
    BY <2>1, <2>2 DEF Injection, IsInjective
<1>3. ExistsBijection(1..n, Copies(d, c, n))
  BY <1>1, <1>2 DEF ExistsBijection, Bijection
<1> QED
  BY <1>3, FS_CountingElements

(* How many times a discovery shows a certificate. *)
LEMMA Shows ==
    ASSUME TypeOK, ShowsCollected, NEW d \in Discoveries, NEW fp \in Fingerprints
    PROVE  Cardinality(LinksTo(d, fp)) = IF history[d] = "completed" THEN found[d][fp] ELSE 0
<1>1. CASE history[d] = "completed"
  <2>1. PICK c \in Nat : LinksTo(d, fp) = Copies(d, c, found[d][fp])
    BY <1>1 DEF ShowsCollected
  <2>2. found[d][fp] \in Nat
    BY ConstantsAssumption DEF TypeOK
  <2> QED
    BY <1>1, <2>1, <2>2, CopiesCount
<1>2. CASE history[d] # "completed"
  <2>1. LinksTo(d, fp) = {}
    BY <1>2 DEF ShowsCollected, LinksTo
  <2> QED
    BY <1>2, <2>1, FS_EmptySet
<1> QED
  BY <1>1, <1>2

-------------------------------------------------------------------------------
LEMMA OwnDoomedNext ==
    ASSUME TypeOK, OwnDoomed, [Next]_vars
    PROVE  OwnDoomed'
<1> USE DEF TypeOK, tables, discoveryVars, requestVars, sweepVars, OwnDoomed
<1>1. CASE UNCHANGED requestVars
  BY <1>1
<1>2. ASSUME NEW r \in Requests,
             \/ DeleteLock(r) \/ DeleteNotFound(r) \/ DeleteLinks(r)
             \/ DeleteCommit(r) \/ DeleteRollback(r)
      PROVE  OwnDoomed'
  <2>1. CASE DeleteLock(r) \/ DeleteNotFound(r)
    BY <2>1 DEF DeleteLock, DeleteNotFound
  <2>2. CASE DeleteLinks(r)
    BY <2>2 DEF DeleteLinks
  <2>3. CASE DeleteCommit(r) \/ DeleteRollback(r)
    <3>1. doomed' = [doomed EXCEPT ![r] = {}] /\ target' = target
      BY <2>3 DEF DeleteCommit, DeleteRollback
    <3> QED
      BY <3>1
  <2> QED
    BY <1>2, <2>1, <2>2, <2>3
<1> QED
  BY <1>1, <1>2
  DEF Next, DiscoveryStep, RequestStep, SweepStep, StartDiscovery, FetchHistory, Collect,
      LockShared, LockRow, SkipPersistence, InsertCertificate, ReadIds, Commit, Raise,
      MarkFailed, CrashDiscovery, ClaimLease, LockBatch, DeleteFullBatch, DeleteLastBatch,
      SweepInterrupted, Tick, vars

(* A step that writes neither certificates nor links, and neither completes  *)
(* a discovery nor touches a completed one.                                  *)
LEMMA ShowsFrame ==
    ASSUME ShowsCollected, UNCHANGED <<certificate, link>>,
           \A d \in Discoveries :
               /\ history'[d] = "completed" <=> history[d] = "completed"
               /\ history[d] = "completed" => found'[d] = found[d]
    PROVE  ShowsCollected'
<1>1. \A d, fp : LinksTo(d, fp)' = LinksTo(d, fp)
  BY DEF LinksTo
<1> QED
  BY <1>1 DEF ShowsCollected

(* A sweep that takes only certificates without links. *)
LEMMA ShowsSwept ==
    ASSUME ShowsCollected, UNCHANGED <<link, history, found>>,
           NEW w \in Sweepers, NEW victims \in SUBSET Orphans(w),
           certificate' = certificate \ victims
    PROVE  ShowsCollected'
<1>1. \A l \in link : \A row \in certificate : row.id = l.certificate => row \in certificate'
  BY DEF Orphans
<1>2. \A d, fp : LinksTo(d, fp)' = LinksTo(d, fp)
  BY <1>1 DEF LinksTo
<1> QED
  BY <1>2 DEF ShowsCollected

(* What persists shows the collection: a link for every copy, to the row its *)
(* fingerprint has, and to no other.                                         *)
LEMMA CommitShows ==
    ASSUME TypeOK, RowExclusion, RowsInSequence, RunningStatus, UniqueRows, IdsResolved, ForeignKeys,
           ShowsCollected, NEW d \in Discoveries, Commit(d)
    PROVE  ShowsCollected'
<1>1. /\ pc[d] = "linking" /\ found' = found
      /\ certificate' = certificate \union pending[d] /\ link' = link \union NewLinks(d)
      /\ history' = [history EXCEPT ![d] = "completed"]
  BY DEF Commit
<1>2. \A a, b \in certificate' : (a.id = b.id \/ a.fingerprint = b.fingerprint) => a = b
  BY <1>1, RowsAre DEF UniqueRows
<1>3. \A l \in NewLinks(d) : l.discovery = d
  BY NewLinksAre
<1>4. ASSUME NEW e \in Discoveries, e # d
      PROVE  /\ history'[e] = history[e]
             /\ \A fp : LinksTo(e, fp)' = LinksTo(e, fp)
             /\ (\E l \in link' : l.discovery = e) => \E l \in link : l.discovery = e
  <2>1. ASSUME NEW l \in link, NEW row \in certificate', row.id = l.certificate
        PROVE  row \in certificate
    <3>1. PICK other \in certificate : other.id = l.certificate
      BY DEF ForeignKeys
    <3> QED
      BY <1>1, <1>2, <2>1, <3>1
  <2>2. \A fp : LinksTo(e, fp)' = LinksTo(e, fp)
    BY <1>1, <1>3, <1>4, <2>1 DEF LinksTo
  <2> QED
    BY <1>1, <1>3, <1>4, <2>2 DEF TypeOK
<1>5. ASSUME NEW fp \in Fingerprints
      PROVE  LinksTo(d, fp)' = Copies(d, idByFp[d][fp], found[d][fp])
  <2>1. ~\E l \in link : l.discovery = d
    BY <1>1 DEF ShowsCollected, RunningStatus
  <2>2. \A g \in Unique(d) : [id |-> idByFp[d][g], fingerprint |-> g] \in certificate'
    BY <1>1 DEF IdsResolved, VisibleTo
  <2>3. ASSUME NEW l \in LinksTo(d, fp)' PROVE l \in Copies(d, idByFp[d][fp], found[d][fp])
    <3>1. l \in NewLinks(d) /\ \E row \in certificate' : row.id = l.certificate /\ row.fingerprint = fp
      BY <1>1, <2>1, <2>3 DEF LinksTo
    <3>2. PICK g \in Unique(d) : \E k \in 1..found[d][g] :
              l = [discovery |-> d, certificate |-> idByFp[d][g], copy |-> k]
      BY <3>1, NewLinksAre
    <3>3. g = fp
      <4>1. PICK row \in certificate' : row.id = l.certificate /\ row.fingerprint = fp
        BY <3>1
      <4>2. PICK other \in certificate' : other = [id |-> idByFp[d][g], fingerprint |-> g]
        BY <2>2, <3>2
      <4>3. row = other
        BY <1>2, <3>2, <4>1, <4>2
      <4> QED
        BY <4>1, <4>2, <4>3
    <3> QED
      BY <3>2, <3>3 DEF Copies
  <2>4. ASSUME NEW l \in Copies(d, idByFp[d][fp], found[d][fp]) PROVE l \in LinksTo(d, fp)'
    <3>1. PICK k \in 1..found[d][fp] :
              l = [discovery |-> d, certificate |-> idByFp[d][fp], copy |-> k]
      BY <2>4 DEF Copies
    <3>2. fp \in Unique(d)
      BY <3>1, ConstantsAssumption DEF Unique, TypeOK
    <3>3. l \in NewLinks(d)
      BY <3>1, <3>2 DEF NewLinks
    <3>4. \E row \in certificate' : row.id = l.certificate /\ row.fingerprint = fp
      BY <2>2, <3>1, <3>2
    <3> QED
      BY <1>1, <3>1, <3>3, <3>4 DEF LinksTo
  <2> QED
    BY <2>3, <2>4
<1>6. history'[d] = "completed" /\ \A fp \in Fingerprints : idByFp[d][fp] \in Nat
  BY <1>1 DEF TypeOK
<1>7. ASSUME NEW e \in Discoveries, history'[e] = "completed", NEW fp \in Fingerprints
      PROVE  \E c \in Nat : LinksTo(e, fp)' = Copies(e, c, found'[e][fp])
  <2>1. CASE e = d
    BY <1>1, <1>5, <1>6, <2>1
  <2>2. CASE e # d
    BY <1>1, <1>4, <1>7, <2>2 DEF ShowsCollected
  <2> QED
    BY <2>1, <2>2
<1>8. ASSUME NEW e \in Discoveries, history'[e] # "completed"
      PROVE  ~\E l \in link' : l.discovery = e
  BY <1>4, <1>6, <1>8 DEF ShowsCollected
<1> QED
  BY <1>7, <1>8 DEF ShowsCollected

(* The cascade leaves nothing of its discovery and everything of the others. *)
LEMMA DeleteShows ==
    ASSUME TypeOK, CascadeComplete, OwnDoomed, ShowsCollected, NEW r \in Requests, DeleteCommit(r)
    PROVE  ShowsCollected'
<1>1. /\ rpc[r] = "cascading" /\ link' = link \ doomed[r]
      /\ history' = [history EXCEPT ![target[r]] = "noRow"]
      /\ UNCHANGED <<certificate, found>>
  BY DEF DeleteCommit, discoveryVars
<1>2. ASSUME NEW e \in Discoveries, e # target[r]
      PROVE  /\ history'[e] = history[e]
             /\ \A fp : LinksTo(e, fp)' = LinksTo(e, fp)
  BY <1>1, <1>2 DEF LinksTo, OwnDoomed, TypeOK
<1>3. history'[target[r]] = "noRow" /\ ~\E l \in link' : l.discovery = target[r]
  BY <1>1 DEF CascadeComplete, TypeOK
<1>4. ASSUME NEW e \in Discoveries, history'[e] = "completed", NEW fp \in Fingerprints
      PROVE  \E c \in Nat : LinksTo(e, fp)' = Copies(e, c, found'[e][fp])
  <2>1. e # target[r]
    BY <1>3, <1>4
  <2> QED
    BY <1>1, <1>2, <1>4, <2>1 DEF ShowsCollected
<1>5. ASSUME NEW e \in Discoveries, history'[e] # "completed"
      PROVE  ~\E l \in link' : l.discovery = e
  BY <1>1, <1>2, <1>3, <1>5 DEF ShowsCollected
<1> QED
  BY <1>4, <1>5 DEF ShowsCollected

LEMMA ShowsNext ==
    ASSUME IInv, OwnDoomed, ShowsCollected, [Next]_vars
    PROVE  ShowsCollected'
<1> USE DEF tables, discoveryVars, requestVars, sweepVars
<1>0. /\ TypeOK /\ RowExclusion /\ CascadeComplete /\ RowsInSequence /\ RunningStatus
      /\ UniqueRows /\ IdsResolved /\ ForeignKeys
  BY DEF IInv
<1>1. CASE UNCHANGED <<history, certificate, link, found>>
  BY <1>1, ShowsFrame
<1>2. ASSUME NEW d \in Discoveries, StartDiscovery(d) PROVE ShowsCollected'
  <2>1. \A e \in Discoveries : history'[e] = "completed" <=> history[e] = "completed"
    BY <1>0, <1>2 DEF StartDiscovery, RunningStatus, TypeOK
  <2> QED
    BY <1>2, <2>1, ShowsFrame DEF StartDiscovery
<1>3. ASSUME NEW d \in Discoveries, MarkFailed(d) PROVE ShowsCollected'
  <2>1. \A e \in Discoveries : history'[e] = "completed" <=> history[e] = "completed"
    BY <1>0, <1>3 DEF MarkFailed, RunningStatus, TypeOK
  <2> QED
    BY <1>3, <2>1, ShowsFrame DEF MarkFailed
<1>4. ASSUME NEW d \in Discoveries,
             Collect(d) \/ SkipPersistence(d) \/ Raise(d) \/ CrashDiscovery(d)
      PROVE  ShowsCollected'
  <2>1. /\ pc[d] # "ended" /\ \E copies : found' = [found EXCEPT ![d] = copies]
        /\ UNCHANGED <<history, certificate, link>>
    BY <1>4 DEF Collect, SkipPersistence, Raise, CrashDiscovery, Abandon
  <2>2. \A e \in Discoveries : history[e] = "completed" => found'[e] = found[e]
    BY <1>0, <2>1 DEF RunningStatus, TypeOK
  <2> QED
    BY <2>1, <2>2, ShowsFrame
<1>5. ASSUME NEW d \in Discoveries, Commit(d) PROVE ShowsCollected'
  BY <1>0, <1>5, CommitShows
<1>6. ASSUME NEW r \in Requests, DeleteCommit(r) PROVE ShowsCollected'
  BY <1>0, <1>6, DeleteShows
<1>7. ASSUME NEW w \in Sweepers, DeleteFullBatch(w) \/ DeleteLastBatch(w) PROVE ShowsCollected'
  <2>1. \E victims \in SUBSET Orphans(w) : certificate' = certificate \ victims
    BY <1>7 DEF DeleteFullBatch, DeleteLastBatch
  <2> QED
    BY <1>7, <2>1, ShowsSwept DEF DeleteFullBatch, DeleteLastBatch
<1>8. ASSUME NEW d \in Discoveries,
             FetchHistory(d) \/ LockShared(d) \/ LockRow(d) \/ InsertCertificate(d) \/ ReadIds(d)
      PROVE  UNCHANGED <<history, certificate, link, found>>
  BY <1>8 DEF FetchHistory, LockShared, LockRow, InsertCertificate, ReadIds
<1>9. ASSUME NEW r \in Requests,
             DeleteLock(r) \/ DeleteNotFound(r) \/ DeleteLinks(r) \/ DeleteRollback(r)
      PROVE  UNCHANGED <<history, certificate, link, found>>
  BY <1>9 DEF DeleteLock, DeleteNotFound, DeleteLinks, DeleteRollback
<1>10. ASSUME NEW w \in Sweepers, ClaimLease(w) \/ LockBatch(w) \/ SweepInterrupted(w)
       PROVE  UNCHANGED <<history, certificate, link, found>>
  BY <1>10 DEF ClaimLease, LockBatch, SweepInterrupted
<1>11. CASE Tick \/ UNCHANGED vars
  BY <1>1, <1>11 DEF Tick, vars
<1> QED
  BY <1>1, <1>2, <1>3, <1>4, <1>5, <1>6, <1>7, <1>8, <1>9, <1>10, <1>11
  DEF Next, DiscoveryStep, RequestStep, SweepStep

LEMMA InitRInv == Init => RInv
<1> SUFFICES ASSUME Init PROVE RInv
  OBVIOUS
<1>1. OwnDoomed /\ ShowsCollected
  BY DEF Init, OwnDoomed, ShowsCollected
<1> QED
  BY <1>1, InitIInv DEF RInv

LEMMA NextRInv == RInv /\ [Next]_vars => RInv'
<1> SUFFICES ASSUME RInv, [Next]_vars PROVE RInv'
  OBVIOUS
<1>1. IInv /\ OwnDoomed /\ ShowsCollected /\ TypeOK
  BY DEF RInv, IInv
<1>2. IInv' /\ OwnDoomed' /\ ShowsCollected'
  BY <1>1, NextIInv, OwnDoomedNext, ShowsNext
<1> QED
  BY <1>2 DEF RInv

THEOREM RefinementInvariant == Spec => []RInv
BY InitRInv, NextRInv, PTL DEF Spec

LEMMA RInvAllOrNothing == RInv => AllOrNothing
<1> SUFFICES ASSUME RInv PROVE AllOrNothing
  OBVIOUS
<1>1. TypeOK /\ ShowsCollected
  BY DEF RInv, IInv
<1> QED
  BY <1>1, Shows DEF AllOrNothing, ShowsCollected

(* A discovery that reads "completed" shows what it collected, copy by copy, *)
(* and any other shows nothing, whatever sweeps and DELETEs do.              *)
THEOREM AllOrNothingHolds == Spec => []AllOrNothing
BY RefinementInvariant, RInvAllOrNothing, PTL

-------------------------------------------------------------------------------
(* The state of DiscoveryStore.  A discovery's content is read off its row   *)
(* and its collection, which says what a step does to it.                    *)
StatusOf == [d \in Discoveries |->
                IF pc[d] = "unborn" THEN "unborn"
                ELSE IF history[d] = "noRow" THEN "deleted" ELSE history[d]]
ContentOf == [d \in Discoveries |->
                [fp \in Fingerprints |-> IF history[d] = "completed" THEN found[d][fp] ELSE 0]]
StoredOf == {row.fingerprint : row \in certificate}

ContentIsRead ==
    [d \in Discoveries |-> [fp \in Fingerprints |-> Cardinality(LinksTo(d, fp))]] = ContentOf

LEMMA ContentIs == RInv => ContentIsRead
BY Shows DEF ContentIsRead, ContentOf, RInv, IInv

LEMMA ContentStep == RInv' => ContentIsRead'
BY ContentIs, PTL

LEMMA InitImplements == Init => Promise!Init
<1> SUFFICES ASSUME Init PROVE Promise!Init
  OBVIOUS
<1>1. \A d, fp : Cardinality(LinksTo(d, fp)) = 0
  BY FS_EmptySet DEF Init, LinksTo
<1> QED
  BY <1>1 DEF Init, Promise!Init, Promise!Nothing

(* The steps that DiscoveryStore sees, and the others. *)
Completes(d) ==
    /\ StatusOf[d] = "inProgress"
    /\ StatusOf' = [StatusOf EXCEPT ![d] = "completed"]
    /\ \E collection \in [Fingerprints -> 0..MaxCopies] :
           /\ ContentOf' = [ContentOf EXCEPT ![d] = collection]
           /\ StoredOf' = StoredOf \union {fp \in Fingerprints : collection[fp] > 0}

Moves(d, from, to) ==
    /\ StatusOf[d] \in from
    /\ StatusOf' = [StatusOf EXCEPT ![d] = to]
    /\ UNCHANGED StoredOf

Sweeps ==
    /\ \E orphans \in SUBSET StoredOf :
           /\ StoredOf' = StoredOf \ orphans
           /\ \A fp \in orphans, d \in Discoveries : ContentOf[d][fp] = 0
    /\ UNCHANGED <<StatusOf, ContentOf>>

Steps ==
    \/ UNCHANGED <<StatusOf, ContentOf, StoredOf>>
    \/ \E d \in Discoveries :
           \/ Moves(d, {"unborn"}, "inProgress") /\ UNCHANGED ContentOf
           \/ Completes(d)
           \/ Moves(d, {"inProgress"}, "failed") /\ UNCHANGED ContentOf
           \/ /\ Moves(d, {"inProgress", "completed", "failed"}, "deleted")
              /\ ContentOf' = [ContentOf EXCEPT ![d] = Nothing]
    \/ Sweeps

(* They are steps of DiscoveryStore. *)
LEMMA StepsImplement ==
    ASSUME RInv, RInv', Steps
    PROVE  [Promise!Next]_(Promise!vars)
<1> DEFINE content == [d \in Discoveries |-> [fp \in Fingerprints |-> Cardinality(LinksTo(d, fp))]]
<1>1. content = ContentOf /\ content' = ContentOf'
  BY ContentIs, ContentStep DEF ContentIsRead
<1> HIDE DEF content
<1>2. CASE UNCHANGED <<StatusOf, ContentOf, StoredOf>>
  BY <1>1, <1>2 DEF Promise!vars, content, StatusOf, StoredOf
<1>3. ASSUME NEW d \in Discoveries, Moves(d, {"unborn"}, "inProgress"), UNCHANGED ContentOf
      PROVE  Promise!Start(d)
  BY <1>1, <1>3 DEF Promise!Start, Moves, content, StatusOf, StoredOf
<1>4. ASSUME NEW d \in Discoveries, Completes(d) PROVE Promise!Complete(d)
  BY <1>1, <1>4 DEF Promise!Complete, Promise!Collection, Completes, content, StatusOf, StoredOf
<1>5. ASSUME NEW d \in Discoveries, Moves(d, {"inProgress"}, "failed"), UNCHANGED ContentOf
      PROVE  Promise!Fail(d)
  BY <1>1, <1>5 DEF Promise!Fail, Moves, content, StatusOf, StoredOf
<1>6. ASSUME NEW d \in Discoveries, Moves(d, {"inProgress", "completed", "failed"}, "deleted"),
             ContentOf' = [ContentOf EXCEPT ![d] = Nothing]
      PROVE  Promise!Delete(d)
  BY <1>1, <1>6 DEF Promise!Delete, Promise!Nothing, Nothing, Moves, content, StatusOf, StoredOf
<1>7. CASE Sweeps
  <2>1. PICK orphans \in SUBSET StoredOf :
            /\ StoredOf' = StoredOf \ orphans
            /\ \A fp \in orphans, d \in Discoveries : ContentOf[d][fp] = 0
    BY <1>7 DEF Sweeps
  <2>2. orphans \in SUBSET (StoredOf \ Promise!Visible)
    <3>1. ASSUME NEW d \in Discoveries, NEW fp \in Fingerprints
          PROVE  Cardinality(LinksTo(d, fp)) = ContentOf[d][fp]
      BY Shows DEF ContentOf, RInv, IInv
    <3>2. ASSUME NEW d \in Discoveries, NEW fp \in orphans PROVE fp \notin Promise!Shown(d)
      BY <2>1, <3>1 DEF Promise!Shown
    <3> QED
      BY <3>2 DEF Promise!Visible
  <2>3. UNCHANGED <<StatusOf, content>>
    BY <1>1, <1>7 DEF Sweeps
  <2>4. Promise!Sweep
    BY <2>1, <2>2, <2>3 DEF Promise!Sweep, content, StatusOf, StoredOf
  <2> QED
    BY <2>4 DEF Promise!Next
<1> QED
  BY <1>2, <1>3, <1>4, <1>5, <1>6, <1>7 DEF Steps, Promise!Next

-------------------------------------------------------------------------------
(* What ILM Core cannot see. *)
LEMMA HiddenStep ==
    ASSUME UNCHANGED <<history, certificate>>,
           \A d \in Discoveries :
               /\ pc'[d] = "unborn" <=> pc[d] = "unborn"
               /\ history[d] = "completed" => found'[d] = found[d]
    PROVE  Steps
<1>1. StatusOf' = StatusOf /\ ContentOf' = ContentOf /\ StoredOf' = StoredOf
  BY DEF StatusOf, ContentOf, StoredOf
<1> QED
  BY <1>1 DEF Steps

LEMMA StartStep ==
    ASSUME RInv, NEW d \in Discoveries, StartDiscovery(d)
    PROVE  Steps
<1>0. TypeOK /\ RunningStatus
  BY DEF RInv, IInv
<1>1. /\ pc[d] = "unborn" /\ history[d] = "noRow"
      /\ pc' = [pc EXCEPT ![d] = "spawned"] /\ history' = [history EXCEPT ![d] = "inProgress"]
      /\ UNCHANGED <<certificate, found>>
  BY <1>0 DEF StartDiscovery, RunningStatus
<1>2. StatusOf[d] = "unborn" /\ StatusOf' = [StatusOf EXCEPT ![d] = "inProgress"]
  BY <1>0, <1>1 DEF StatusOf, TypeOK
<1>3. \A e \in Discoveries : history'[e] = "completed" <=> history[e] = "completed"
  BY <1>0, <1>1 DEF TypeOK
<1>4. ContentOf' = ContentOf /\ StoredOf' = StoredOf
  BY <1>1, <1>3 DEF ContentOf, StoredOf
<1> QED
  BY <1>2, <1>4 DEF Moves, Steps

LEMMA FailStep ==
    ASSUME RInv, NEW d \in Discoveries, MarkFailed(d)
    PROVE  Steps
<1>0. TypeOK /\ RunningStatus
  BY DEF RInv, IInv
<1>1. /\ pc[d] = "failing" /\ pc' = [pc EXCEPT ![d] = "ended"]
      /\ history' = [history EXCEPT ![d] = IF @ = "noRow" THEN @ ELSE "failed"]
      /\ UNCHANGED <<certificate, found>>
  BY DEF MarkFailed
<1>2. CASE history[d] = "noRow"
  <2>1. history' = history
    BY <1>0, <1>1, <1>2 DEF TypeOK
  <2>2. \A e \in Discoveries : pc'[e] = "unborn" <=> pc[e] = "unborn"
    BY <1>0, <1>1 DEF TypeOK
  <2> QED
    BY <1>1, <2>1, <2>2, HiddenStep
<1>3. CASE history[d] # "noRow"
  <2>1. history[d] = "inProgress" /\ history' = [history EXCEPT ![d] = "failed"]
    BY <1>0, <1>1, <1>3 DEF RunningStatus
  <2>2. StatusOf[d] = "inProgress" /\ StatusOf' = [StatusOf EXCEPT ![d] = "failed"]
    <3>1. pc[d] # "unborn" /\ \A e \in Discoveries : pc'[e] = "unborn" <=> pc[e] = "unborn"
      BY <1>0, <1>1 DEF TypeOK
    <3>2. history'[d] = "failed" /\ \A e \in Discoveries : e # d => history'[e] = history[e]
      BY <1>0, <2>1 DEF TypeOK
    <3> QED
      BY <2>1, <3>1, <3>2 DEF StatusOf
  <2>3. \A e \in Discoveries : history'[e] = "completed" <=> history[e] = "completed"
    BY <1>0, <2>1 DEF TypeOK
  <2>4. ContentOf' = ContentOf /\ StoredOf' = StoredOf
    BY <1>1, <2>3 DEF ContentOf, StoredOf
  <2> QED
    BY <2>2, <2>4 DEF Moves, Steps
<1> QED
  BY <1>2, <1>3

(* The COMMIT of the persistence transaction is all of Complete. *)
LEMMA CommitStep ==
    ASSUME RInv, NEW d \in Discoveries, Commit(d)
    PROVE  Steps
<1>0. TypeOK /\ RunningStatus /\ RowExclusion /\ HandledVisible
  BY DEF RInv, IInv
<1>1. /\ pc[d] = "linking" /\ pc' = [pc EXCEPT ![d] = "ended"]
      /\ certificate' = certificate \union pending[d]
      /\ history' = [history EXCEPT ![d] = "completed"] /\ found' = found
  BY DEF Commit
<1>2. history[d] = "inProgress"
  BY <1>0, <1>1 DEF RowExclusion, RunningStatus, RowHeldByDiscovery
<1>3. StatusOf[d] = "inProgress" /\ StatusOf' = [StatusOf EXCEPT ![d] = "completed"]
  BY <1>0, <1>1, <1>2 DEF StatusOf, TypeOK
<1>4. found[d] \in [Fingerprints -> 0..MaxCopies]
  BY <1>0 DEF TypeOK
<1>5. ContentOf' = [ContentOf EXCEPT ![d] = found[d]]
  <2>1. [fp \in Fingerprints |-> found[d][fp]] = found[d]
    BY <1>4
  <2>2. \A e \in Discoveries :
            history'[e] = "completed" <=> e = d \/ history[e] = "completed"
    BY <1>0, <1>1 DEF TypeOK
  <2> QED
    BY <1>1, <2>1, <2>2 DEF ContentOf
<1>6. StoredOf' = StoredOf \union {fp \in Fingerprints : found[d][fp] > 0}
  <2>1. Unique(d) = {fp \in Fingerprints : found[d][fp] > 0} /\ handled[d] = Unique(d)
    BY <1>0, <1>1 DEF HandledVisible, Unique
  <2>2. \A fp \in Unique(d) : \E row \in certificate' : row.fingerprint = fp
    BY <1>0, <1>1, <2>1 DEF HandledVisible, VisibleTo
  <2>3. \A row \in pending[d] : row.fingerprint \in Unique(d)
    BY <1>0, <2>1 DEF HandledVisible
  <2> QED
    BY <1>1, <2>1, <2>2, <2>3 DEF StoredOf
<1> QED
  BY <1>3, <1>4, <1>5, <1>6 DEF Completes, Steps

LEMMA DeleteStep ==
    ASSUME RInv, NEW r \in Requests, DeleteCommit(r)
    PROVE  Steps
<1>0. TypeOK /\ RunningStatus /\ RowExclusion
  BY DEF RInv, IInv
<1>1. PICK d \in Discoveries : d = target[r]
  BY <1>0 DEF TypeOK
<1>2. /\ rpc[r] = "cascading" /\ history' = [history EXCEPT ![d] = "noRow"]
      /\ UNCHANGED <<pc, found, certificate>>
  BY <1>1 DEF DeleteCommit, discoveryVars
<1>3. history[d] # "noRow" /\ pc[d] # "unborn"
  BY <1>0, <1>1, <1>2 DEF RowExclusion, RunningStatus
<1>4. /\ StatusOf[d] \in {"inProgress", "completed", "failed"}
      /\ StatusOf' = [StatusOf EXCEPT ![d] = "deleted"]
  BY <1>0, <1>2, <1>3 DEF StatusOf, TypeOK, Status
<1>5. ContentOf' = [ContentOf EXCEPT ![d] = Nothing] /\ StoredOf' = StoredOf
  <2>1. \A e \in Discoveries :
            history'[e] = "completed" <=> e # d /\ history[e] = "completed"
    BY <1>0, <1>2 DEF TypeOK
  <2> QED
    BY <1>2, <2>1 DEF ContentOf, StoredOf, Nothing
<1> QED
  BY <1>4, <1>5 DEF Moves, Steps

(* A batch takes certificates that no discovery shows: those have links. *)
LEMMA BatchStep ==
    ASSUME RInv, NEW w \in Sweepers, NEW victims \in SUBSET Orphans(w),
           certificate' = certificate \ victims, UNCHANGED <<history, pc, found>>
    PROVE  Steps
<1>0. TypeOK /\ UniqueRows /\ ShowsCollected
  BY DEF RInv, IInv
<1>1. victims \subseteq certificate
  BY DEF Orphans
<1>2. \A a, b \in certificate : a.fingerprint = b.fingerprint => a = b
  BY <1>0, RowsAre DEF UniqueRows
<1> DEFINE orphans == {row.fingerprint : row \in victims}
<1>3. orphans \in SUBSET StoredOf /\ StoredOf' = StoredOf \ orphans
  BY <1>1, <1>2 DEF StoredOf
<1>4. ASSUME NEW fp \in orphans, NEW d \in Discoveries, history[d] = "completed",
             fp \in Fingerprints
      PROVE  found[d][fp] = 0
  <2>1. PICK c \in Nat : LinksTo(d, fp) = Copies(d, c, found[d][fp])
    BY <1>0, <1>4 DEF ShowsCollected
  <2>2. found[d][fp] \in Nat
    BY <1>0, <1>4, ConstantsAssumption DEF TypeOK
  <2>3. ASSUME NEW l \in LinksTo(d, fp) PROVE FALSE
    <3>1. l \in link /\ \E row \in certificate : row.id = l.certificate /\ row.fingerprint = fp
      BY DEF LinksTo
    <3>2. PICK row \in victims : row.fingerprint = fp
      BY <1>4
    <3>3. row.id = l.certificate
      BY <1>1, <1>2, <3>1, <3>2
    <3> QED
      BY <3>1, <3>2, <3>3 DEF Orphans
  <2>4. found[d][fp] > 0 => [discovery |-> d, certificate |-> c, copy |-> 1] \in LinksTo(d, fp)
    BY <2>1, <2>2 DEF Copies
  <2> QED
    BY <2>2, <2>3, <2>4
<1>5. \A fp \in orphans, d \in Discoveries : ContentOf[d][fp] = 0
  <2>1. orphans \subseteq Fingerprints
    BY <1>0, <1>1 DEF TypeOK, CertificateRow
  <2> HIDE DEF orphans
  <2> QED
    BY <1>4, <2>1 DEF ContentOf
<1>6. UNCHANGED <<StatusOf, ContentOf>>
  BY DEF StatusOf, ContentOf
<1> QED
  BY <1>3, <1>5, <1>6 DEF Sweeps, Steps

LEMMA NextSteps ==
    ASSUME RInv, [Next]_vars
    PROVE  Steps
<1> USE DEF tables, discoveryVars, requestVars, sweepVars
<1>0. TypeOK /\ RunningStatus
  BY DEF RInv, IInv
<1>1. CASE UNCHANGED <<history, certificate, pc, found>>
  BY <1>1, HiddenStep
<1>2. ASSUME NEW d \in Discoveries,
             \/ FetchHistory(d) \/ Collect(d) \/ LockShared(d) \/ LockRow(d)
             \/ SkipPersistence(d) \/ InsertCertificate(d) \/ ReadIds(d) \/ Raise(d)
             \/ CrashDiscovery(d)
      PROVE  Steps
  <2>1. /\ pc[d] \notin {"unborn", "ended"}
        /\ \E place : pc' = [pc EXCEPT ![d] = place] /\ place # "unborn"
        /\ UNCHANGED <<history, certificate>>
    <3>1. CASE FetchHistory(d) \/ Collect(d)
      BY <3>1 DEF FetchHistory, Collect
    <3>2. CASE LockShared(d) \/ LockRow(d) \/ SkipPersistence(d) \/ ReadIds(d)
      BY <3>2 DEF LockShared, LockRow, SkipPersistence, ReadIds
    <3>3. CASE InsertCertificate(d)
      <4>1. pc[d] = "inserting" /\ pc' = [pc EXCEPT ![d] = "inserting"]
        BY <1>0, <3>3 DEF InsertCertificate, TypeOK
      <4> QED
        BY <3>3, <4>1 DEF InsertCertificate
    <3>4. CASE Raise(d) \/ CrashDiscovery(d)
      BY <3>4 DEF Raise, CrashDiscovery
    <3> QED
      BY <1>2, <3>1, <3>2, <3>3, <3>4
  <2>2. \A e \in Discoveries \ {d} : found'[e] = found[e]
    BY <1>0, <1>2 DEF FetchHistory, Collect, LockShared, LockRow, SkipPersistence,
                      InsertCertificate, ReadIds, Raise, CrashDiscovery, Abandon, TypeOK
  <2>3. history[d] # "completed"
    BY <1>0, <2>1 DEF RunningStatus
  <2>4. \A e \in Discoveries : pc'[e] = "unborn" <=> pc[e] = "unborn"
    BY <1>0, <2>1 DEF TypeOK
  <2> QED
    BY <2>1, <2>2, <2>3, <2>4, HiddenStep
<1>3. ASSUME NEW w \in Sweepers, DeleteFullBatch(w) \/ DeleteLastBatch(w) PROVE Steps
  <2>1. \E victims \in SUBSET Orphans(w) : certificate' = certificate \ victims
    BY <1>3 DEF DeleteFullBatch, DeleteLastBatch
  <2> QED
    BY <1>3, <2>1, BatchStep DEF DeleteFullBatch, DeleteLastBatch
<1>4. ASSUME NEW r \in Requests,
             DeleteLock(r) \/ DeleteNotFound(r) \/ DeleteLinks(r) \/ DeleteRollback(r)
      PROVE  Steps
  BY <1>1, <1>4 DEF DeleteLock, DeleteNotFound, DeleteLinks, DeleteRollback
<1>5. ASSUME NEW w \in Sweepers, ClaimLease(w) \/ LockBatch(w) \/ SweepInterrupted(w)
      PROVE  Steps
  BY <1>1, <1>5 DEF ClaimLease, LockBatch, SweepInterrupted
<1>6. CASE Tick \/ UNCHANGED vars
  BY <1>1, <1>6 DEF Tick, vars
<1> QED
  BY <1>2, <1>3, <1>4, <1>5, <1>6, StartStep, CommitStep, FailStep, DeleteStep
  DEF Next, DiscoveryStep, RequestStep, SweepStep

(* Every behaviour of the store, with its locks, transactions, crashes and   *)
(* sweeps, is one of DiscoveryStore, whose operations are single steps.      *)
THEOREM Implements == Spec => ImplementsDiscoveryStore
<1>1. RInv /\ RInv' /\ [Next]_vars => [Promise!Next]_(Promise!vars)
  BY NextSteps, StepsImplement
<1> QED
  BY <1>1, InitImplements, RefinementInvariant, PTL DEF Spec, Promise!Spec, ImplementsDiscoveryStore

-------------------------------------------------------------------------------
(***************************************************************************)
(* A sweep ends: it deletes at most as many certificates as its claim saw  *)
(* ids, for any batch size and however many discoveries complete meanwhile. *)
(***************************************************************************)

(* What a sweep may still delete. *)
Below(w) == {row \in certificate : row.id <= bound[w]}

(* Every row yet to be committed has an id beyond the claim's. *)
LaterIds ==
    \A w \in Sweepers :
        /\ bound[w] < nextId
        /\ \A d \in Discoveries : \A row \in pending[d] : bound[w] < row.id

Asleep == \A w \in Sweepers : spc[w] = "idle" => deleted[w] = 0 /\ bound[w] = 0

Left == \A w \in Sweepers : deleted[w] + Cardinality(Below(w)) <= bound[w]

BInv == IInv /\ LaterIds /\ Asleep /\ Left

-------------------------------------------------------------------------------
(* Ids are different and start at 1. *)
LEMMA RowsCount ==
    ASSUME TypeOK, UniqueRows, NEW n \in Nat
    PROVE  LET rows == {row \in certificate : row.id <= n}
           IN  /\ IsFiniteSet(rows) /\ Cardinality(rows) \in Nat
               /\ Cardinality(rows) <= n
<1> DEFINE rows == {row \in certificate : row.id <= n}
<1> DEFINE f == [row \in rows |-> row.id]
<1>1. f \in [rows -> 1..n]
  BY DEF TypeOK, CertificateRow
<1>2. \A a, b \in rows : f[a] = f[b] => a = b
  BY RowsAre DEF UniqueRows
<1>3. f \in Injection(rows, 1..n)
  <2> HIDE DEF f, rows
  <2> QED
    BY <1>1, <1>2 DEF Injection, IsInjective
<1>4. IsFiniteSet(1..n) /\ Cardinality(1..n) = n
  BY FS_Interval
<1>5. IsFiniteSet(rows) /\ Cardinality(rows) <= n
  BY <1>3, <1>4, FS_Injection
<1> QED
  BY <1>5, FS_CardinalityType

(* The bound of a claim is an id that has been given out. *)
LEMMA ClaimedBound ==
    ASSUME TypeOK, RowsInSequence, NEW n, n = Max({0} \union {row.id : row \in certificate})
    PROVE  n \in Nat /\ n < nextId
<1> DEFINE ids == {0} \union {row.id : row \in certificate}
<1>1. ids \in SUBSET Nat /\ ids # {} /\ \A i \in ids : i < nextId
  BY DEF TypeOK, CertificateRow, RowsInSequence
<1>2. nextId \in Nat /\ n = Max(ids)
  BY DEF TypeOK
<1> HIDE DEF ids
<1> QED
  BY <1>1, <1>2, MaxOfBounded

LEMMA AsleepNext ==
    ASSUME TypeOK, Asleep, [Next]_vars
    PROVE  Asleep'
<1> USE DEF TypeOK, tables, discoveryVars, requestVars, sweepVars, Asleep
<1>1. CASE UNCHANGED <<spc, bound, deleted>>
  BY <1>1
<1>2. ASSUME NEW w \in Sweepers, ClaimLease(w) PROVE Asleep'
  BY <1>2 DEF ClaimLease
<1>3. ASSUME NEW w \in Sweepers, LockBatch(w) PROVE Asleep'
  BY <1>3 DEF LockBatch
<1>4. ASSUME NEW w \in Sweepers, DeleteFullBatch(w) PROVE Asleep'
  BY <1>4 DEF DeleteFullBatch
<1>5. ASSUME NEW w \in Sweepers, DeleteLastBatch(w) \/ SweepInterrupted(w) PROVE Asleep'
  BY <1>5 DEF DeleteLastBatch, SweepInterrupted, EndSweep
<1>6. ASSUME NEW r \in Requests,
             DeleteLock(r) \/ DeleteNotFound(r) \/ RequestStep(r) \/ DeleteRollback(r)
      PROVE  UNCHANGED <<spc, bound, deleted>>
  BY <1>6 DEF RequestStep, DeleteLock, DeleteNotFound, DeleteLinks, DeleteCommit, DeleteRollback
<1>7. ASSUME NEW d \in Discoveries,
             StartDiscovery(d) \/ DiscoveryStep(d) \/ Raise(d) \/ CrashDiscovery(d)
      PROVE  UNCHANGED <<spc, bound, deleted>>
  BY <1>7 DEF DiscoveryStep, StartDiscovery, FetchHistory, Collect, LockShared, LockRow,
      SkipPersistence, InsertCertificate, ReadIds, Commit, Raise, MarkFailed, CrashDiscovery
<1>8. CASE Tick \/ UNCHANGED vars
  BY <1>8 DEF Tick, vars
<1> QED
  BY <1>1, <1>2, <1>3, <1>4, <1>5, <1>6, <1>7, <1>8 DEF Next, SweepStep

(* Steps that give out no id and claim no bound. *)
LEMMA LaterFrame ==
    ASSUME LaterIds, nextId' = nextId,
           \A w \in Sweepers : bound'[w] = bound[w] \/ (bound'[w] = 0 /\ bound[w] \in Nat),
           \A d \in Discoveries : pending'[d] \subseteq pending[d],
           TypeOK
    PROVE  LaterIds'
<1>1. \A w \in Sweepers : bound'[w] \in Nat /\ bound[w] \in Nat /\ bound'[w] <= bound[w]
  BY DEF TypeOK
<1>2. \A d \in Discoveries : \A row \in pending[d] : row.id \in Nat
  BY DEF TypeOK, CertificateRow
<1>3. nextId \in Nat
  BY DEF TypeOK
<1> QED
  BY <1>1, <1>2, <1>3 DEF LaterIds

LEMMA LaterIdsNext ==
    ASSUME TypeOK, RowsInSequence, LaterIds, [Next]_vars
    PROVE  LaterIds'
<1> USE DEF tables, discoveryVars, requestVars, sweepVars
<1>0. \A w \in Sweepers : bound[w] \in Nat
  BY DEF TypeOK
<1>1. CASE UNCHANGED <<nextId, bound, pending>>
  BY <1>1 DEF LaterIds
<1>2. ASSUME NEW d \in Discoveries, InsertCertificate(d) PROVE LaterIds'
  <2>1. PICK fp \in InsertNext(d) : InsertRow(d, fp)
    BY <1>2 DEF InsertCertificate
  <2>2. bound' = bound
    BY <1>2 DEF InsertCertificate
  <2>3. CASE pending' = pending /\ nextId' = nextId
    BY <1>1, <2>2, <2>3
  <2>4. CASE /\ pending' = [pending EXCEPT ![d] = @ \union {[id |-> nextId, fingerprint |-> fp]}]
             /\ nextId' = nextId + 1
    <3>1. \A e \in Discoveries : \A row \in pending'[e] : row \in pending[e] \/ row.id = nextId
      BY <2>4 DEF TypeOK
    <3>2. nextId \in Nat
      BY DEF TypeOK
    <3> QED
      BY <1>0, <2>2, <2>4, <3>1, <3>2 DEF LaterIds
  <2> QED
    BY <2>1, <2>3, <2>4 DEF InsertRow
<1>3. ASSUME NEW d \in Discoveries, Commit(d) \/ Raise(d) \/ CrashDiscovery(d) PROVE LaterIds'
  <2>1. UNCHANGED <<nextId, bound>> /\ pending' = [pending EXCEPT ![d] = {}]
    BY <1>3 DEF Commit, Raise, CrashDiscovery, Abandon
  <2>2. \A e \in Discoveries : pending'[e] \subseteq pending[e]
    BY <2>1 DEF TypeOK
  <2> QED
    BY <2>1, <2>2, LaterFrame
<1>4. ASSUME NEW w \in Sweepers, ClaimLease(w) PROVE LaterIds'
  <2>1. PICK n : n = Max({0} \union {row.id : row \in certificate})
    OBVIOUS
  <2>2. /\ n \in Nat /\ n < nextId /\ bound' = [bound EXCEPT ![w] = n]
        /\ UNCHANGED <<nextId, pending>> /\ SharedHolders = {}
    BY <1>4, <2>1, ClaimedBound DEF ClaimLease
  <2>3. \A d \in Discoveries : pending[d] = {}
    BY <2>2 DEF RowsInSequence, SharedHolders
  <2> QED
    BY <2>2, <2>3 DEF LaterIds, TypeOK
<1>5. ASSUME NEW w \in Sweepers, DeleteLastBatch(w) \/ SweepInterrupted(w) PROVE LaterIds'
  <2>1. UNCHANGED <<nextId, pending>> /\ bound' = [bound EXCEPT ![w] = 0]
    BY <1>5 DEF DeleteLastBatch, SweepInterrupted, EndSweep
  <2>2. \A v \in Sweepers : bound'[v] = bound[v] \/ (bound'[v] = 0 /\ bound[v] \in Nat)
    BY <2>1 DEF TypeOK
  <2> QED
    BY <2>1, <2>2, LaterFrame
<1>6. ASSUME NEW w \in Sweepers, LockBatch(w) \/ DeleteFullBatch(w) PROVE LaterIds'
  BY <1>1, <1>6 DEF LockBatch, DeleteFullBatch
<1>7. ASSUME NEW r \in Requests,
             DeleteLock(r) \/ DeleteNotFound(r) \/ RequestStep(r) \/ DeleteRollback(r)
      PROVE  LaterIds'
  BY <1>1, <1>7 DEF RequestStep, DeleteLock, DeleteNotFound, DeleteLinks, DeleteCommit, DeleteRollback
<1>8. ASSUME NEW d \in Discoveries,
             \/ StartDiscovery(d) \/ FetchHistory(d) \/ Collect(d) \/ LockShared(d)
             \/ LockRow(d) \/ SkipPersistence(d) \/ ReadIds(d) \/ MarkFailed(d)
      PROVE  LaterIds'
  BY <1>1, <1>8 DEF StartDiscovery, FetchHistory, Collect, LockShared, LockRow,
      SkipPersistence, ReadIds, MarkFailed
<1>9. CASE Tick \/ UNCHANGED vars
  BY <1>1, <1>9 DEF Tick, vars
<1> QED
  BY <1>2, <1>3, <1>4, <1>5, <1>6, <1>7, <1>8, <1>9 DEF Next, DiscoveryStep, SweepStep

(* A sweep that has not claimed or deleted anything new: there is no more    *)
(* below its bound than before.                                              *)
LEMMA LeftFrame ==
    ASSUME TypeOK, UniqueRows, Left, NEW w \in Sweepers,
           bound'[w] = bound[w], deleted'[w] = deleted[w], Below(w)' \subseteq Below(w)
    PROVE  deleted'[w] + Cardinality(Below(w)') <= bound'[w]
<1>1. bound[w] \in Nat /\ deleted[w] \in Nat
  BY DEF TypeOK
<1>2. IsFiniteSet(Below(w)) /\ Cardinality(Below(w)) \in Nat
  BY <1>1, RowsCount DEF Below
<1>3. Cardinality(Below(w)') \in Nat /\ Cardinality(Below(w)') <= Cardinality(Below(w))
  <2>1. PICK rest \in SUBSET Below(w) : rest = Below(w)'
    OBVIOUS
  <2> QED
    BY <1>2, <2>1, FS_Subset, FS_CardinalityType
<1>4. deleted[w] + Cardinality(Below(w)) <= bound[w]
  BY DEF Left
<1> QED
  BY <1>1, <1>2, <1>3, <1>4

LEMMA LeftNext ==
    ASSUME IInv, LaterIds, Asleep, Left, [Next]_vars
    PROVE  Left'
<1> USE DEF tables, discoveryVars, requestVars, sweepVars
<1>0. TypeOK /\ RowsInSequence /\ UniqueRows
  BY DEF IInv
<1>1. CASE certificate' \subseteq certificate /\ UNCHANGED <<bound, deleted>>
  <2>1. \A w \in Sweepers : Below(w)' \subseteq Below(w)
    BY <1>1 DEF Below
  <2> QED
    BY <1>0, <1>1, <2>1, LeftFrame DEF Left
<1>2. ASSUME NEW d \in Discoveries, Commit(d) PROVE Left'
  <2>1. UNCHANGED <<bound, deleted>> /\ certificate' = certificate \union pending[d]
    BY <1>2 DEF Commit
  <2>2. ASSUME NEW w \in Sweepers, NEW row \in pending[d] PROVE ~(row.id <= bound[w])
    BY <1>0 DEF LaterIds, TypeOK, CertificateRow
  <2>3. \A w \in Sweepers : Below(w)' \subseteq Below(w)
    BY <2>1, <2>2 DEF Below
  <2> QED
    BY <1>0, <2>1, <2>3, LeftFrame DEF Left
<1>3. ASSUME NEW w \in Sweepers, ClaimLease(w) PROVE Left'
  <2>1. PICK n : n = Max({0} \union {row.id : row \in certificate})
    OBVIOUS
  <2>2. /\ n \in Nat /\ bound' = [bound EXCEPT ![w] = n] /\ UNCHANGED <<certificate, deleted>>
        /\ deleted[w] = 0
    BY <1>0, <1>3, <2>1, ClaimedBound DEF ClaimLease, Asleep
  <2>3. deleted'[w] + Cardinality(Below(w)') <= bound'[w]
    <3>1. bound'[w] = n /\ Below(w)' = {row \in certificate : row.id <= n}
      BY <1>0, <2>2 DEF TypeOK, Below
    <3>2. Cardinality({row \in certificate : row.id <= n}) \in Nat
          /\ Cardinality({row \in certificate : row.id <= n}) <= n
      BY <1>0, <2>2, RowsCount
    <3> QED
      BY <2>2, <3>1, <3>2
  <2>4. ASSUME NEW v \in Sweepers, v # w
        PROVE  deleted'[v] + Cardinality(Below(v)') <= bound'[v]
    <3>1. bound'[v] = bound[v] /\ deleted'[v] = deleted[v] /\ Below(v)' \subseteq Below(v)
      BY <1>0, <2>2, <2>4 DEF TypeOK, Below
    <3> QED
      BY <1>0, <3>1, LeftFrame
  <2> QED
    BY <2>3, <2>4 DEF Left
<1>4. ASSUME NEW w \in Sweepers, DeleteFullBatch(w) PROVE Left'
  <2>1. PICK victims \in SUBSET Orphans(w) :
            /\ Cardinality(victims) = EffectiveBatch
            /\ certificate' = certificate \ victims
            /\ deleted' = [deleted EXCEPT ![w] = @ + Cardinality(victims)]
    BY <1>4 DEF DeleteFullBatch
  <2>2. bound' = bound /\ Cardinality(victims) \in Nat
    BY <1>4, <2>1, EffectiveBatchType DEF DeleteFullBatch
  <2>3. deleted'[w] + Cardinality(Below(w)') <= bound'[w]
    <3>1. victims \subseteq Below(w) /\ Below(w)' = Below(w) \ victims
      BY <2>1, <2>2 DEF Orphans, Below
    <3>2. bound[w] \in Nat /\ deleted[w] \in Nat /\ deleted'[w] = deleted[w] + Cardinality(victims)
      BY <1>0, <2>1 DEF TypeOK
    <3>3. IsFiniteSet(Below(w)) /\ Cardinality(Below(w)) \in Nat
      BY <1>0, <3>2, RowsCount DEF Below
    <3>4. Below(w) \cap victims = victims
      BY <3>1
    <3>5. Cardinality(Below(w) \ victims) = Cardinality(Below(w)) - Cardinality(victims)
      BY <3>3, <3>4, FS_Difference
    <3>6. deleted[w] + Cardinality(Below(w)) <= bound[w]
      BY DEF Left
    <3> QED
      BY <2>2, <3>1, <3>2, <3>3, <3>5, <3>6
  <2>4. ASSUME NEW v \in Sweepers, v # w
        PROVE  deleted'[v] + Cardinality(Below(v)') <= bound'[v]
    <3>1. bound'[v] = bound[v] /\ deleted'[v] = deleted[v] /\ Below(v)' \subseteq Below(v)
      BY <1>0, <2>1, <2>2, <2>4 DEF TypeOK, Below
    <3> QED
      BY <1>0, <3>1, LeftFrame
  <2> QED
    BY <2>3, <2>4 DEF Left
<1>5. ASSUME NEW w \in Sweepers, DeleteLastBatch(w) \/ SweepInterrupted(w) PROVE Left'
  <2>1. /\ certificate' \subseteq certificate
        /\ bound' = [bound EXCEPT ![w] = 0] /\ deleted' = [deleted EXCEPT ![w] = 0]
    BY <1>5 DEF DeleteLastBatch, SweepInterrupted, EndSweep
  <2>2. deleted'[w] + Cardinality(Below(w)') <= bound'[w]
    <3>1. bound'[w] = 0 /\ deleted'[w] = 0
      BY <1>0, <2>1 DEF TypeOK
    <3>2. Below(w)' = {}
      BY <1>0, <2>1, <3>1 DEF TypeOK, CertificateRow, Below
    <3> QED
      BY <3>1, <3>2, FS_EmptySet
  <2>3. ASSUME NEW v \in Sweepers, v # w
        PROVE  deleted'[v] + Cardinality(Below(v)') <= bound'[v]
    <3>1. bound'[v] = bound[v] /\ deleted'[v] = deleted[v] /\ Below(v)' \subseteq Below(v)
      BY <1>0, <2>1, <2>3 DEF TypeOK, Below
    <3> QED
      BY <1>0, <3>1, LeftFrame
  <2> QED
    BY <2>2, <2>3 DEF Left
<1>6. ASSUME NEW w \in Sweepers, LockBatch(w) PROVE Left'
  BY <1>1, <1>6 DEF LockBatch
<1>7. ASSUME NEW r \in Requests,
             DeleteLock(r) \/ DeleteNotFound(r) \/ RequestStep(r) \/ DeleteRollback(r)
      PROVE  Left'
  BY <1>1, <1>7 DEF RequestStep, DeleteLock, DeleteNotFound, DeleteLinks, DeleteCommit, DeleteRollback
<1>8. ASSUME NEW d \in Discoveries,
             \/ StartDiscovery(d) \/ FetchHistory(d) \/ Collect(d) \/ LockShared(d)
             \/ LockRow(d) \/ SkipPersistence(d) \/ InsertCertificate(d) \/ ReadIds(d)
             \/ Raise(d) \/ MarkFailed(d) \/ CrashDiscovery(d)
      PROVE  Left'
  BY <1>1, <1>8 DEF StartDiscovery, FetchHistory, Collect, LockShared, LockRow,
      SkipPersistence, InsertCertificate, ReadIds, Raise, MarkFailed, CrashDiscovery
<1>9. CASE Tick \/ UNCHANGED vars
  BY <1>1, <1>9 DEF Tick, vars
<1> QED
  BY <1>2, <1>3, <1>4, <1>5, <1>6, <1>7, <1>8, <1>9 DEF Next, DiscoveryStep, SweepStep

-------------------------------------------------------------------------------
LEMMA InitBInv == Init => BInv
<1> SUFFICES ASSUME Init PROVE BInv
  OBVIOUS
<1>1. LaterIds /\ Asleep
  BY DEF Init, LaterIds, Asleep
<1>2. \A w \in Sweepers : Below(w) = {} /\ deleted[w] = 0 /\ bound[w] = 0
  BY DEF Init, Below
<1>3. Left
  BY <1>2, FS_EmptySet DEF Left
<1> QED
  BY <1>1, <1>3, InitIInv DEF BInv

LEMMA NextBInv == BInv /\ [Next]_vars => BInv'
<1> SUFFICES ASSUME BInv, [Next]_vars PROVE BInv'
  OBVIOUS
<1>1. IInv /\ LaterIds /\ Asleep /\ Left /\ TypeOK /\ RowsInSequence
  BY DEF BInv, IInv
<1>2. IInv' /\ LaterIds' /\ Asleep' /\ Left'
  BY <1>1, NextIInv, LaterIdsNext, AsleepNext, LeftNext
<1> QED
  BY <1>2 DEF BInv

(* What the sweep deletes and what is left below its bound is never more     *)
(* than the bound, the ids there were when it claimed.                       *)
THEOREM BoundInvariant == Spec => []BInv
BY InitBInv, NextBInv, PTL DEF Spec

LEMMA BInvBounded == BInv => SweepBounded
<1> SUFFICES ASSUME BInv, NEW w \in Sweepers PROVE deleted[w] <= bound[w]
  BY DEF SweepBounded
<1>1. TypeOK /\ UniqueRows /\ Left
  BY DEF BInv, IInv
<1>2. bound[w] \in Nat /\ deleted[w] \in Nat
  BY <1>1 DEF TypeOK
<1>3. Cardinality(Below(w)) \in Nat
  BY <1>1, <1>2, RowsCount DEF Below
<1> QED
  BY <1>1, <1>2, <1>3 DEF Left

(* A sweep deletes no more certificates than its claim saw ids, so it ends   *)
(* however fast discoveries complete and are deleted while it runs.          *)
THEOREM SweepBoundHolds == Spec => []SweepBounded
BY BoundInvariant, BInvBounded, PTL

-------------------------------------------------------------------------------
(***************************************************************************)
(* No deadlock among any number of discoveries, DELETE requests and        *)
(* cleanup threads: locks are taken in an order, the advisory lock before  *)
(* the row lock before the keys of the bulk insert, and those ascending.   *)
(***************************************************************************)

(* The bulk insert has not passed over a fingerprint. *)
Ascending ==
    \A d \in Discoveries : \A fp \in handled[d], later \in Unique(d) \ handled[d] : fp < later

DInv == IInv /\ Ascending

-------------------------------------------------------------------------------
LEMMA AscendingFrame ==
    ASSUME Ascending, UNCHANGED <<handled, found>>
    PROVE  Ascending'
BY DEF Ascending, Unique

LEMMA AscendingNext ==
    ASSUME TypeOK, HandledVisible, Ascending, [Next]_vars
    PROVE  Ascending'
<1> USE DEF tables, discoveryVars, requestVars, sweepVars
<1>1. ASSUME NEW d \in Discoveries,
             Collect(d) \/ SkipPersistence(d) \/ Commit(d) \/ Raise(d) \/ CrashDiscovery(d)
      PROVE  Ascending'
  <2>1. /\ handled'[d] = {}
        /\ \A e \in Discoveries \ {d} : handled'[e] = handled[e] /\ found'[e] = found[e]
    <3>1. CASE Collect(d) \/ SkipPersistence(d)
      BY <3>1 DEF Collect, SkipPersistence, HandledVisible, TypeOK
    <3>2. CASE Commit(d) \/ Raise(d) \/ CrashDiscovery(d)
      BY <3>2 DEF Commit, Raise, CrashDiscovery, Abandon, TypeOK
    <3> QED
      BY <1>1, <3>1, <3>2
  <2> QED
    BY <2>1 DEF Ascending, Unique
<1>2. ASSUME NEW d \in Discoveries, InsertCertificate(d) PROVE Ascending'
  <2>1. PICK fp \in InsertNext(d) : handled' = [handled EXCEPT ![d] = @ \union {fp}]
    BY <1>2 DEF InsertCertificate
  <2>2. found' = found
    BY <1>2 DEF InsertCertificate
  <2>3. /\ fp \in Fingerprints /\ fp \in Unique(d) \ handled[d]
        /\ \A later \in Unique(d) \ handled[d] : fp <= later
        /\ Unique(d) \subseteq Nat
    BY ConstantsAssumption DEF InsertNext, Unique
  <2>4. ASSUME NEW early \in handled'[d], NEW later \in Unique(d) \ handled'[d]
        PROVE  early < later
    <3>1. (early \in handled[d] \/ early = fp) /\ later \in Unique(d) \ handled[d] /\ later # fp
      BY <2>1 DEF TypeOK
    <3> QED
      BY <2>3, <3>1 DEF Ascending
  <2>5. \A e \in Discoveries \ {d} : handled'[e] = handled[e]
    BY <2>1 DEF TypeOK
  <2> QED
    BY <2>2, <2>4, <2>5 DEF Ascending, Unique
<1>3. ASSUME NEW d \in Discoveries,
             \/ StartDiscovery(d) \/ FetchHistory(d) \/ LockShared(d) \/ LockRow(d)
             \/ ReadIds(d) \/ MarkFailed(d)
      PROVE  Ascending'
  BY <1>3, AscendingFrame DEF StartDiscovery, FetchHistory, LockShared, LockRow, ReadIds, MarkFailed
<1>4. ASSUME NEW r \in Requests,
             DeleteLock(r) \/ DeleteNotFound(r) \/ RequestStep(r) \/ DeleteRollback(r)
      PROVE  Ascending'
  BY <1>4, AscendingFrame
  DEF RequestStep, DeleteLock, DeleteNotFound, DeleteLinks, DeleteCommit, DeleteRollback
<1>5. ASSUME NEW w \in Sweepers, ClaimLease(w) \/ SweepStep(w) \/ SweepInterrupted(w)
      PROVE  Ascending'
  BY <1>5, AscendingFrame
  DEF SweepStep, ClaimLease, LockBatch, DeleteFullBatch, DeleteLastBatch, SweepInterrupted
<1>6. CASE Tick \/ UNCHANGED vars
  BY <1>6, AscendingFrame DEF Tick, vars
<1> QED
  BY <1>1, <1>2, <1>3, <1>4, <1>5, <1>6 DEF Next, DiscoveryStep

-------------------------------------------------------------------------------
(* A fingerprint's place among all of them. *)
Rank(fp) == Cardinality({other \in Fingerprints : other <= fp})

LEMMA RankGrows ==
    /\ \A fp \in Fingerprints : Rank(fp) \in Nat /\ Rank(fp) < Cardinality(Fingerprints) + 1
    /\ \A fp, later \in Fingerprints : fp < later => Rank(fp) < Rank(later)
<1> DEFINE upTo(fp) == {other \in Fingerprints : other <= fp}
<1>1. IsFiniteSet(Fingerprints) /\ Fingerprints \subseteq Nat /\ Cardinality(Fingerprints) \in Nat
  BY ConstantsAssumption, FS_CardinalityType
<1>2. ASSUME NEW fp \in Fingerprints
      PROVE  /\ IsFiniteSet(upTo(fp)) /\ Rank(fp) \in Nat
             /\ Rank(fp) <= Cardinality(Fingerprints)
  <2>1. PICK S \in SUBSET Fingerprints : S = upTo(fp)
    OBVIOUS
  <2> QED
    BY <1>1, <2>1, FS_Subset, FS_CardinalityType DEF Rank
<1>3. ASSUME NEW fp \in Fingerprints, NEW later \in Fingerprints, fp < later
      PROVE  Rank(fp) < Rank(later)
  <2>1. PICK S : S = upTo(later)
    OBVIOUS
  <2>2. PICK T \in SUBSET S : T = upTo(fp)
    <3>1. upTo(fp) \subseteq upTo(later)
      <4> SUFFICES ASSUME NEW other \in Fingerprints, other <= fp PROVE other <= later
        OBVIOUS
      <4>1. other \in Nat /\ fp \in Nat /\ later \in Nat
        BY <1>1
      <4> QED
        BY <1>3, <4>1
    <3> QED
      BY <2>1, <3>1
  <2>3. later \in S /\ later \notin T
    BY <1>1, <1>3, <2>1, <2>2
  <2>4. IsFiniteSet(S) /\ Cardinality(T) <= Cardinality(S) /\ Cardinality(T) # Cardinality(S)
    BY <1>2, <2>1, <2>2, <2>3, FS_Subset
  <2> QED
    BY <1>2, <2>1, <2>2, <2>4 DEF Rank
<1>4. ASSUME NEW fp \in Fingerprints
      PROVE  Rank(fp) \in Nat /\ Rank(fp) < Cardinality(Fingerprints) + 1
  <2>1. Rank(fp) \in Nat /\ Rank(fp) <= Cardinality(Fingerprints)
    BY <1>2
  <2> QED
    BY <1>1, <2>1
<1> QED
  BY <1>3, <1>4

(* Of discoveries that are all in their bulk insert, the one that is at the  *)
(* highest fingerprint waits for none of them.                               *)
LEMMA InsertersEnd ==
    ASSUME TypeOK, HandledVisible, Ascending,
           NEW group \in SUBSET Discoveries, group # {}, \A d \in group : pc[d] = "inserting"
    PROVE  \E d \in group : \A fp \in InsertNext(d) : InsertersOf(fp, d) \intersect group = {}
<1>1. CASE \E d \in group : InsertNext(d) = {}
  BY <1>1
<1>2. CASE \A d \in group : InsertNext(d) # {}
  <2> DEFINE ranks == {k \in Nat : \E d \in group : \E fp \in InsertNext(d) : k = Rank(fp)}
  <2>1. /\ Fingerprints \subseteq Nat
        /\ \A d \in group : /\ InsertNext(d) \subseteq Fingerprints
                            /\ InsertNext(d) \subseteq Unique(d) \ handled[d]
                            /\ \A fp, other \in InsertNext(d) : fp = other
    BY ConstantsAssumption DEF InsertNext, Unique
  <2>2. /\ ranks \in SUBSET Nat /\ ranks # {}
        /\ \A k \in ranks : k < Cardinality(Fingerprints) + 1
    <3>1. ranks # {}
      <4>1. PICK d \in group : TRUE
        OBVIOUS
      <4>2. PICK fp \in InsertNext(d) : TRUE
        BY <1>2
      <4>3. Rank(fp) \in ranks
        BY <2>1, <4>2, RankGrows
      <4> QED
        BY <4>3
    <3>2. ASSUME NEW k \in ranks PROVE k < Cardinality(Fingerprints) + 1
      <4>1. PICK d \in group : \E fp \in InsertNext(d) : k = Rank(fp)
        OBVIOUS
      <4>2. PICK fp \in InsertNext(d) : k = Rank(fp)
        BY <4>1
      <4>3. fp \in Fingerprints
        BY <2>1
      <4> QED
        BY <4>2, <4>3, RankGrows
    <3> QED
      BY <3>1, <3>2
  <2>3. Cardinality(Fingerprints) + 1 \in Nat
    BY ConstantsAssumption, FS_CardinalityType
  <2>4. PICK top \in ranks : \A k \in ranks : k <= top
    <3> HIDE DEF ranks
    <3> QED
      BY <2>2, <2>3, MaxOfBounded
  <2>5. PICK d \in group : \E fp \in InsertNext(d) : top = Rank(fp)
    BY <2>4
  <2>6. ASSUME NEW fp \in InsertNext(d), NEW e \in InsertersOf(fp, d) \intersect group
        PROVE  FALSE
    <3>1. top = Rank(fp)
      BY <2>1, <2>5
    <3>2. fp \in handled[e]
      BY <2>6 DEF InsertersOf, HandledVisible
    <3>3. PICK later \in InsertNext(e) : TRUE
      BY <1>2, <2>6
    <3>4. fp < later /\ fp \in Fingerprints /\ later \in Fingerprints
      BY <2>1, <2>6, <3>2, <3>3 DEF Ascending
    <3>5. Rank(fp) < Rank(later) /\ Rank(later) \in Nat /\ Rank(fp) \in Nat
      BY <3>4, RankGrows
    <3>6. Rank(later) \in ranks
      BY <2>6, <3>3, <3>5
    <3>7. Rank(later) <= top
      BY <2>4, <3>6
    <3> HIDE DEF ranks
    <3> QED
      BY <3>1, <3>5, <3>7
  <2> QED
    BY <2>5, <2>6
<1> QED
  BY <1>1, <1>2

(* In every set of threads one waits for none of them: a batch, a cascade or *)
(* a COMMIT waits for nobody; a thread that waits for such ones is next;     *)
(* then come the bulk inserts.                                               *)
LEMMA DInvNoDeadlock == DInv => NoDeadlock
<1> SUFFICES ASSUME DInv, NEW group \in SUBSET Threads, group # {}
             PROVE  \E a \in group : BlockersOf(a) \intersect group = {}
  BY DEF NoDeadlock
<1>0. TypeOK /\ HandledVisible /\ Ascending
  BY DEF DInv, IInv
<1>1. CASE \E w \in group \intersect Sweepers : spc[w] # "sweeping"
  <2>1. PICK w \in group \intersect Sweepers : spc[w] # "sweeping"
    BY <1>1
  <2>2. BlockersOf(w) = {}
    BY <2>1, ConstantsAssumption DEF BlockersOf
  <2> QED
    BY <2>1, <2>2
<1>2. CASE \E r \in group \intersect Requests : rpc[r] # "idle"
  <2>1. PICK r \in group \intersect Requests : rpc[r] # "idle"
    BY <1>2
  <2>2. BlockersOf(r) = {}
    BY <2>1, ConstantsAssumption DEF BlockersOf
  <2> QED
    BY <2>1, <2>2
<1>3. CASE /\ \A w \in group \intersect Sweepers : spc[w] = "sweeping"
           /\ \A r \in group \intersect Requests : rpc[r] = "idle"
  <2>1. ExclusiveHolders \intersect group = {}
    BY <1>3 DEF ExclusiveHolders
  <2>2. \A d : RowHolders(d) \intersect group = {}
    BY <1>3 DEF RowHolders
  <2>3. CASE \E d \in group \intersect Discoveries : pc[d] # "inserting"
    <3>1. PICK d \in group \intersect Discoveries : pc[d] # "inserting"
      BY <2>3
    <3>2. BlockersOf(d) = {} \/ BlockersOf(d) = ExclusiveHolders \/ BlockersOf(d) = RowHolders(d)
      BY <3>1 DEF BlockersOf
    <3> QED
      BY <2>1, <2>2, <3>1, <3>2
  <2>4. CASE /\ group \intersect Discoveries # {}
             /\ \A d \in group \intersect Discoveries : pc[d] = "inserting"
    <3>1. PICK d \in group \intersect Discoveries :
              \A fp \in InsertNext(d) : InsertersOf(fp, d) \intersect (group \intersect Discoveries) = {}
      BY <1>0, <2>4, InsertersEnd
    <3>2. BlockersOf(d) = UNION {InsertersOf(fp, d) : fp \in InsertNext(d)}
      BY <2>4, <3>1 DEF BlockersOf
    <3>3. \A fp \in InsertNext(d) : InsertersOf(fp, d) \subseteq Discoveries
      BY DEF InsertersOf
    <3> QED
      BY <3>1, <3>2, <3>3
  <2>5. CASE group \intersect Discoveries = {}
    <3>1. PICK a \in group : a \in Requests \union Sweepers /\ a \notin Discoveries
      BY <2>5 DEF Threads
    <3>2. CASE a \in Sweepers
      <4>1. BlockersOf(a) = SharedHolders \union ExclusiveHolders
        BY <1>3, <3>1, <3>2 DEF BlockersOf
      <4>2. SharedHolders \subseteq Discoveries
        BY DEF SharedHolders
      <4> QED
        BY <2>1, <2>5, <3>1, <4>1, <4>2
    <3>3. CASE a \in Requests
      <4>1. BlockersOf(a) \subseteq {target[a]}
        BY <3>1, <3>3, ConstantsAssumption DEF BlockersOf
      <4>2. target[a] \in Discoveries
        BY <1>0, <3>3 DEF TypeOK
      <4> QED
        BY <2>5, <3>1, <4>1, <4>2
    <3> QED
      BY <3>1, <3>2, <3>3
  <2> QED
    BY <2>3, <2>4, <2>5
<1> QED
  BY <1>1, <1>2, <1>3

-------------------------------------------------------------------------------
LEMMA InitDInv == Init => DInv
<1>1. Init => Ascending
  BY DEF Init, Ascending
<1> QED
  BY <1>1, InitIInv DEF DInv

LEMMA NextDInv == DInv /\ [Next]_vars => DInv'
<1> SUFFICES ASSUME DInv, [Next]_vars PROVE DInv'
  OBVIOUS
<1>1. IInv /\ TypeOK /\ HandledVisible /\ Ascending
  BY DEF DInv, IInv
<1>2. IInv' /\ Ascending'
  BY <1>1, NextIInv, AscendingNext
<1> QED
  BY <1>2 DEF DInv

THEOREM OrderInvariant == Spec => []DInv
BY InitDInv, NextDInv, PTL DEF Spec

(* However many discoveries, deletions and sweeps run at once, they never    *)
(* wait for each other in a circle.                                          *)
THEOREM DeadlockFree == Spec => []NoDeadlock
BY OrderInvariant, DInvNoDeadlock, PTL
-------------------------------------------------------------------------------
(* Polls. *)
(* The inductive invariant: "completed" was read of a discovery whose thread *)
(* had ended, so that it can only be deleted since; and while it is not, the *)
(* later statements have read what a statement would read now.              *)
PollTypeOK ==
    /\ ppc \in [Polls -> {"idle", "notFound", "counting", "paging", "answered"}]
    /\ asked \in [Polls -> Discoveries]
    /\ page \in [Polls -> 0..MaxPage]
    /\ seenStatus \in [Polls -> Status \union {"none"}]
    /\ seenTotal \in [Polls -> Nat]
    /\ seenData \in [Polls -> SUBSET LinkRow]

EndedWhenSeen ==
    \A p \in Polls : seenStatus[p] = "completed" =>
        pc[asked[p]] = "ended" /\ history[asked[p]] \in {"completed", "noRow"}

AnswersStand ==
    \A p \in Polls : seenStatus[p] = "completed" /\ history[asked[p]] = "completed" =>
        /\ ppc[p] \in {"paging", "answered"} => seenTotal[p] = Cardinality(LinksOf(asked[p]))
        /\ ppc[p] = "answered" => seenData[p] = PageOf(asked[p], page[p])

PInv == RInv /\ PollTypeOK /\ EndedWhenSeen /\ AnswersStand

-------------------------------------------------------------------------------
(* How a step of the store moves a discovery whose thread has ended. *)
LEMMA EndedStays ==
    ASSUME RInv, [Next]_vars, NEW d \in Discoveries, pc[d] = "ended"
    PROVE  /\ pc'[d] = "ended"
           /\ history'[d] = history[d] \/ history'[d] = "noRow"
           /\ history'[d] = "completed" => LinksOf(d)' = LinksOf(d)
<1>0. TypeOK /\ OwnDoomed
  BY DEF RInv, IInv
<1> USE DEF TypeOK, tables, discoveryVars, requestVars, sweepVars
<1>1. CASE UNCHANGED <<pc, history, link>>
  BY <1>1 DEF LinksOf
<1>2. ASSUME NEW e \in Discoveries, StartDiscovery(e) \/ FetchHistory(e) \/ Collect(e) \/ LockShared(e)
                 \/ LockRow(e) \/ SkipPersistence(e) \/ ReadIds(e) \/ Raise(e) \/ MarkFailed(e)
                 \/ CrashDiscovery(e)
      PROVE  pc'[d] = "ended" /\ history'[d] = history[d] /\ link' = link
  BY <1>0, <1>2 DEF StartDiscovery, FetchHistory, Collect, LockShared, LockRow, SkipPersistence,
     ReadIds, Raise, MarkFailed, CrashDiscovery
<1>3. ASSUME NEW e \in Discoveries, Commit(e)
      PROVE  pc'[d] = "ended" /\ history'[d] = history[d] /\ LinksOf(d)' = LinksOf(d)
  <2>1. /\ e # d /\ pc' = [pc EXCEPT ![e] = "ended"] /\ link' = link \union NewLinks(e)
        /\ history' = [history EXCEPT ![e] = "completed"]
    BY <1>3 DEF Commit
  <2>2. \A l \in NewLinks(e) : l.discovery = e
    BY DEF NewLinks
  <2> QED
    BY <1>0, <2>1, <2>2 DEF LinksOf
<1>4. ASSUME NEW r \in Requests, DeleteCommit(r)
      PROVE  /\ pc' = pc /\ (history'[d] = history[d] \/ history'[d] = "noRow")
             /\ history'[d] = "completed" => LinksOf(d)' = LinksOf(d)
  <2>1. /\ link' = link \ doomed[r] /\ pc' = pc
        /\ history' = [history EXCEPT ![target[r]] = "noRow"]
    BY <1>4 DEF DeleteCommit
  <2>2. CASE target[r] = d
    BY <1>0, <2>1, <2>2
  <2>3. CASE target[r] # d
    <3>1. \A l \in doomed[r] : l.discovery # d
      BY <1>0, <2>3 DEF OwnDoomed
    <3> QED
      BY <1>0, <2>1, <2>3, <3>1 DEF LinksOf
  <2> QED
    BY <2>2, <2>3
<1>5. ASSUME NEW e \in Discoveries, InsertCertificate(e) PROVE UNCHANGED <<pc, history, link>>
  BY <1>5 DEF InsertCertificate
<1>6. ASSUME NEW r \in Requests,
             DeleteLock(r) \/ DeleteNotFound(r) \/ DeleteLinks(r) \/ DeleteRollback(r)
      PROVE  UNCHANGED <<pc, history, link>>
  BY <1>6 DEF DeleteLock, DeleteNotFound, DeleteLinks, DeleteRollback
<1>7. ASSUME NEW w \in Sweepers,
             \/ ClaimLease(w) \/ LockBatch(w) \/ SweepInterrupted(w)
             \/ DeleteFullBatch(w) \/ DeleteLastBatch(w)
      PROVE  UNCHANGED <<pc, history, link>>
  BY <1>7 DEF ClaimLease, LockBatch, SweepInterrupted, DeleteFullBatch, DeleteLastBatch
<1>8. CASE Tick \/ UNCHANGED vars
  BY <1>1, <1>8 DEF Tick, vars
<1> QED
  BY <1>1, <1>2, <1>3, <1>4, <1>5, <1>6, <1>7, <1>8
  DEF Next, DiscoveryStep, RequestStep, SweepStep, LinksOf

-------------------------------------------------------------------------------
LEMMA InitPInv == PollInit => PInv
<1> SUFFICES ASSUME PollInit PROVE PInv
  OBVIOUS
<1>1. RInv
  BY InitRInv DEF PollInit
<1> QED
  BY <1>1 DEF PollInit, PInv, PollTypeOK, EndedWhenSeen, AnswersStand, Status

LEMMA CopiesFinite ==
    ASSUME NEW d, NEW c, NEW n \in Nat
    PROVE  IsFiniteSet(Copies(d, c, n))
<1> DEFINE f == [k \in 1..n |-> [discovery |-> d, certificate |-> c, copy |-> k]]
<1>1. f \in Surjection(1..n, Copies(d, c, n))
  BY DEF Surjection, Copies
<1> HIDE DEF f
<1> QED
  BY <1>1, FS_Interval, FS_Surjection

(* A completed discovery has as many links as it collected certificates. *)
LEMMA LinksCounted ==
    ASSUME RInv, NEW d \in Discoveries, history[d] = "completed"
    PROVE  IsFiniteSet(LinksOf(d)) /\ Cardinality(LinksOf(d)) = SumFunction(found[d])
<1>0. TypeOK /\ ShowsCollected /\ UniqueRows /\ ForeignKeys
  BY DEF RInv, IInv
<1> DEFINE F == [fp \in Fingerprints |-> LinksTo(d, fp)]
<1>1. \A fp \in Fingerprints : IsFiniteSet(F[fp]) /\ Cardinality(F[fp]) = found[d][fp]
  <2> SUFFICES ASSUME NEW fp \in Fingerprints
               PROVE  IsFiniteSet(LinksTo(d, fp)) /\ Cardinality(LinksTo(d, fp)) = found[d][fp]
    OBVIOUS
  <2>1. PICK c \in Nat : LinksTo(d, fp) = Copies(d, c, found[d][fp])
    BY <1>0 DEF ShowsCollected
  <2>2. found[d][fp] \in Nat
    BY <1>0, ConstantsAssumption DEF TypeOK
  <2> QED
    BY <2>1, <2>2, CopiesCount, CopiesFinite
<1>2. \A a, b \in Fingerprints : a # b => F[a] \intersect F[b] = {}
  BY <1>0 DEF LinksTo, UniqueRows, Rows
<1>3. LinksOf(d) = Together(F, Fingerprints)
  <2>1. \A l \in LinksOf(d) : \E fp \in Fingerprints : l \in LinksTo(d, fp)
    BY <1>0 DEF LinksOf, LinksTo, ForeignKeys, TypeOK, CertificateRow
  <2>2. \A fp \in Fingerprints : LinksTo(d, fp) \subseteq LinksOf(d)
    BY DEF LinksOf, LinksTo
  <2> QED
    BY <2>1, <2>2 DEF Together
<1>4. DOMAIN found[d] = Fingerprints /\ \A fp \in Fingerprints : found[d][fp] = Cardinality(F[fp])
  BY <1>0, <1>1 DEF TypeOK
<1> HIDE DEF F
<1>5. IsFiniteSet(Together(F, Fingerprints)) /\ Cardinality(Together(F, Fingerprints)) = SumFunction(found[d])
  <2>1. PICK f : f = found[d]
    OBVIOUS
  <2>2. DOMAIN f = Fingerprints /\ \A fp \in Fingerprints : f[fp] = Cardinality(F[fp])
    BY <1>4, <2>1
  <2>3. IsFiniteSet(Together(F, Fingerprints)) /\ Cardinality(Together(F, Fingerprints)) = SumFunction(f)
    <3>1. IsFiniteSet(Fingerprints) /\ \A fp \in Fingerprints : IsFiniteSet(F[fp])
      BY <1>1, ConstantsAssumption
    <3> QED
      BY <3>1, <1>2, <2>2, CountTogether
  <2> QED
    BY <2>1, <2>3
<1> QED
  BY <1>3, <1>5

LEMMA LinksAreFinite ==
    ASSUME RInv, NEW d \in Discoveries
    PROVE  IsFiniteSet(LinksOf(d)) /\ Cardinality(LinksOf(d)) \in Nat
<1>1. CASE history[d] = "completed"
  BY <1>1, LinksCounted, FS_CardinalityType
<1>2. CASE history[d] # "completed"
  <2>1. LinksOf(d) = {}
    BY <1>2 DEF RInv, ShowsCollected, LinksOf
  <2> QED
    BY <2>1, FS_EmptySet
<1> QED
  BY <1>1, <1>2

(* A step of the store. *)
LEMMA StorePInv ==
    ASSUME PInv, Next, UNCHANGED pollVars
    PROVE  PInv'
<1>0. RInv /\ PollTypeOK /\ EndedWhenSeen /\ AnswersStand
  BY DEF PInv
<1> USE <1>0 DEF pollVars
<1>1. RInv'
  BY NextRInv
<1>2. PollTypeOK'
  BY DEF PollTypeOK, LinkRow, Status
<1>3. ASSUME NEW p \in Polls, seenStatus[p] = "completed"
      PROVE  /\ pc'[asked[p]] = "ended" /\ history'[asked[p]] \in {"completed", "noRow"}
             /\ history'[asked[p]] = "completed" =>
                    history[asked[p]] = "completed" /\ LinksOf(asked[p])' = LinksOf(asked[p])
  <2>1. asked[p] \in Discoveries /\ pc[asked[p]] = "ended" /\ history[asked[p]] \in {"completed", "noRow"}
    BY <1>3 DEF PollTypeOK, EndedWhenSeen
  <2> QED
    BY <2>1, EndedStays
<1>4. EndedWhenSeen'
  BY <1>3 DEF EndedWhenSeen
<1>5. ASSUME NEW p \in Polls, LinksOf(asked[p])' = LinksOf(asked[p])
      PROVE  PageOf(asked[p], page[p])' = PageOf(asked[p], page[p])
  <2>1. \A l \in LinksOf(asked[p]) : Position(l)' = Position(l)
    BY <1>5 DEF LinksOf, Position, Before
  <2> QED
    BY <1>5, <2>1 DEF PageOf
<1>6. AnswersStand'
  BY <1>3, <1>5 DEF AnswersStand
<1> QED
  BY <1>1, <1>2, <1>4, <1>6 DEF PInv

(* A step of a request thread. *)
LEMMA ThreadPInv ==
    ASSUME PInv, NEW p \in Polls,
           AnswerStart(p) \/ ReadStatus(p) \/ PollNotFound(p) \/ CountLinks(p) \/ ReadPage(p)
    PROVE  PInv'
<1>0. RInv /\ PollTypeOK /\ EndedWhenSeen /\ AnswersStand
  BY DEF PInv
<1>1. UNCHANGED <<vars, asked, page>>
  BY DEF AnswerStart, ReadStatus, PollNotFound, CountLinks, ReadPage
<1>2. RInv'
  BY <1>0, <1>1, NextRInv
<1>3. \A d, n : LinksOf(d)' = LinksOf(d) /\ PageOf(d, n)' = PageOf(d, n)
  BY <1>1 DEF LinksOf, PageOf, Position, Before, vars, tables
<1>4. TypeOK /\ RunningStatus /\ pc' = pc /\ history' = history
  BY <1>0, <1>1 DEF RInv, IInv, vars, tables, discoveryVars
<1>5. CASE AnswerStart(p) \/ ReadStatus(p)
  <2>1. /\ ppc[p] = "idle" /\ ppc' = [ppc EXCEPT ![p] = "counting"]
        /\ UNCHANGED <<seenTotal, seenData>>
    BY <1>5 DEF AnswerStart, ReadStatus
  <2>2. PICK s \in Status : /\ seenStatus' = [seenStatus EXCEPT ![p] = s]
                            /\ s = "inProgress" \/ s = history[asked[p]]
    <3>1. CASE AnswerStart(p)
      BY <3>1 DEF AnswerStart, Status
    <3>2. CASE ReadStatus(p)
      <4>1. history[asked[p]] \in Status
        BY <1>0, <1>4, <3>2 DEF ReadStatus, TypeOK, PollTypeOK
      <4> QED
        BY <3>2, <4>1 DEF ReadStatus
    <3> QED
      BY <1>5, <3>1, <3>2
  <2>3. PollTypeOK'
    BY <1>0, <1>1, <2>1, <2>2 DEF PollTypeOK, LinkRow, Status
  <2>4. EndedWhenSeen'
    BY <1>0, <1>1, <1>4, <2>2 DEF EndedWhenSeen, PollTypeOK, RunningStatus
  <2>5. AnswersStand'
    BY <1>0, <1>1, <1>3, <1>4, <2>1, <2>2 DEF AnswersStand, PollTypeOK
  <2> QED
    BY <1>2, <2>3, <2>4, <2>5 DEF PInv
<1>6. CASE PollNotFound(p)
  BY <1>0, <1>1, <1>2, <1>3, <1>4, <1>6
  DEF PollNotFound, PInv, PollTypeOK, EndedWhenSeen, AnswersStand, LinkRow
<1>7. CASE CountLinks(p)
  <2>1. /\ ppc' = [ppc EXCEPT ![p] = "paging"]
        /\ seenTotal' = [seenTotal EXCEPT ![p] = Cardinality(LinksOf(asked[p]))]
        /\ UNCHANGED <<seenStatus, seenData>>
    BY <1>7 DEF CountLinks
  <2>2. Cardinality(LinksOf(asked[p])) \in Nat
    BY <1>0, LinksAreFinite DEF PollTypeOK
  <2> QED
    BY <1>0, <1>1, <1>2, <1>3, <1>4, <2>1, <2>2
    DEF PInv, PollTypeOK, EndedWhenSeen, AnswersStand, LinkRow
<1>8. CASE ReadPage(p)
  <2>1. /\ ppc[p] = "paging" /\ ppc' = [ppc EXCEPT ![p] = "answered"]
        /\ seenData' = [seenData EXCEPT ![p] = PageOf(asked[p], page[p])]
        /\ UNCHANGED <<seenStatus, seenTotal>>
    BY <1>8 DEF ReadPage
  <2>2. PageOf(asked[p], page[p]) \in SUBSET LinkRow
    BY <1>4 DEF PageOf, LinksOf, TypeOK
  <2> QED
    BY <1>0, <1>1, <1>2, <1>3, <1>4, <2>1, <2>2
    DEF PInv, PollTypeOK, EndedWhenSeen, AnswersStand, LinkRow
<1> QED
  BY <1>5, <1>6, <1>7, <1>8

LEMMA NextPInv == PInv /\ [PollNext]_allVars => PInv'
<1> SUFFICES ASSUME PInv, [PollNext]_allVars PROVE PInv'
  OBVIOUS
<1>1. CASE UNCHANGED allVars
  <2>1. RInv'
    BY <1>1, NextRInv DEF PInv, allVars
  <2>2. PollTypeOK' /\ EndedWhenSeen' /\ AnswersStand'
    BY <1>1 DEF PInv, PollTypeOK, EndedWhenSeen, AnswersStand, allVars, pollVars, vars, tables,
       discoveryVars, LinksOf, PageOf, Position, Before, LinkRow
  <2> QED
    BY <2>1, <2>2 DEF PInv
<1> QED
  BY <1>1, StorePInv, ThreadPInv DEF PollNext

(* Whatever the store does between the statements of an answer, they agree. *)
THEOREM PollInvariant == PollSpec => []PInv
BY InitPInv, NextPInv, PTL DEF PollSpec

-------------------------------------------------------------------------------
LEMMA PInvWhole == PInv => CompletedIsWhole
<1> SUFFICES ASSUME PInv, NEW p \in Polls, ppc[p] = "answered", seenStatus[p] = "completed",
                    history[asked[p]] # "noRow"
             PROVE  /\ seenTotal[p] = SumFunction(found[asked[p]])
                    /\ seenData[p] = PageOf(asked[p], page[p])
  BY DEF CompletedIsWhole
<1>1. asked[p] \in Discoveries /\ history[asked[p]] = "completed"
  BY DEF PInv, PollTypeOK, EndedWhenSeen
<1>2. seenTotal[p] = Cardinality(LinksOf(asked[p])) /\ seenData[p] = PageOf(asked[p], page[p])
  BY <1>1 DEF PInv, AnswersStand
<1> QED
  BY <1>1, <1>2, LinksCounted DEF PInv

(* An answer that says "completed" has the total and the page of what the    *)
(* discovery collected, although three statements made it.                   *)
THEOREM CompletedAnswersAreWhole == PollSpec => []CompletedIsWhole
BY PollInvariant, PInvWhole, PTL

-------------------------------------------------------------------------------
(* Every position is on some page, and no page overlaps a later one. *)
LEMMA PageExists ==
    ASSUME NEW I \in Nat \ {0}, NEW x \in Nat
    PROVE  \E n \in Nat \ {0} : (n - 1) * I <= x /\ x < n * I
<1>1. \E q \in Nat, r \in 0..(I - 1) : x = I * q + r
  <2>1. x = I * (x \div I) + (x % I) /\ x % I \in 0..(I - 1) /\ x \div I \in Nat
    OBVIOUS
  <2> QED
    BY <2>1
<1>2. PICK q \in Nat : I * q <= x /\ x < I * q + I
  <2>1. PICK q \in Nat, r \in 0..(I - 1) : x = I * q + r
    BY <1>1
  <2>2. I * q \in Nat
    OBVIOUS
  <2>3. I * q <= x /\ x < I * q + I
    BY <2>1, <2>2
  <2> QED
    BY <2>3
<1>3. I * q = q * I /\ (q + 1) * I = I * q + I
  OBVIOUS
<1>4. q + 1 \in Nat \ {0} /\ (q + 1) - 1 = q
  OBVIOUS
<1> QED
  BY <1>2, <1>3, <1>4

LEMMA PagesApart ==
    ASSUME NEW I \in Nat \ {0}, NEW n \in Nat, NEW m \in Nat, n < m
    PROVE  n * I <= (m - 1) * I
<1>1. PICK k \in Nat : m = n + 1 + k
  <2>1. m = n + 1 + (m - n - 1) /\ m - n - 1 \in Nat
    OBVIOUS
  <2> QED BY <2>1
<1>2. k * I \in Nat /\ n * I \in Nat
  OBVIOUS
<1>3. (m - 1) * I = n * I + k * I
  BY <1>1
<1> QED
  BY <1>2, <1>3

(* A row has fewer rows before it than there are. *)
LEMMA PositionBound ==
    ASSUME RInv, NEW d \in Discoveries, NEW l \in LinksOf(d), IsFiniteSet(LinksOf(d))
    PROVE  Position(l) \in Nat /\ Position(l) < Cardinality(LinksOf(d))
<1>1. PICK earlier : earlier = {m \in LinksOf(l.discovery) : Before(m, l)}
  OBVIOUS
<1>2. l.certificate \in Nat /\ l.copy \in Nat /\ l.discovery = d
  BY DEF LinksOf, RInv, IInv, TypeOK, LinkRow
<1>3. earlier \subseteq LinksOf(d) /\ l \notin earlier
  BY <1>1, <1>2 DEF Before
<1>4. /\ IsFiniteSet(earlier) /\ Cardinality(earlier) <= Cardinality(LinksOf(d))
      /\ Cardinality(earlier) # Cardinality(LinksOf(d))
  BY <1>3, FS_Subset
<1>5. Cardinality(earlier) \in Nat /\ Cardinality(LinksOf(d)) \in Nat
  BY <1>4, FS_CardinalityType
<1> QED
  BY <1>1, <1>4, <1>5 DEF Position

LEMMA PInvPages == PInv => PagesPartition
<1> SUFFICES ASSUME PInv, NEW d \in Discoveries, history[d] = "completed"
             PROVE  LET answers == {p \in Polls : /\ asked[p] = d
                                                  /\ ppc[p] = "answered" /\ seenStatus[p] = "completed"}
                        reached == {PageAsked(p) : p \in answers}
                    IN  /\ \A p, q \in answers :
                            IF PageAsked(p) = PageAsked(q) THEN seenData[p] = seenData[q]
                            ELSE seenData[p] \intersect seenData[q] = {}
                        /\ (\A n \in 1..Cardinality(LinksOf(d)) :
                                (n - 1) * ItemsPerPage < Cardinality(LinksOf(d)) => n \in reached)
                            => UNION {seenData[p] : p \in answers} = LinksOf(d)
  BY DEF PagesPartition
<1> DEFINE answers == {p \in Polls : /\ asked[p] = d
                                     /\ ppc[p] = "answered" /\ seenStatus[p] = "completed"}
           reached == {PageAsked(p) : p \in answers}
<1>0. RInv /\ PollTypeOK /\ AnswersStand /\ ItemsPerPage \in Nat \ {0}
  BY PollAssumption DEF PInv
<1>1. IsFiniteSet(LinksOf(d)) /\ Cardinality(LinksOf(d)) \in Nat
  BY <1>0, LinksCounted, FS_CardinalityType
<1>2. \A l \in LinksOf(d) : Position(l) \in Nat /\ Position(l) < Cardinality(LinksOf(d))
  BY <1>0, <1>1, PositionBound
<1>3. ASSUME NEW p \in answers
      PROVE  /\ PageAsked(p) \in Nat \ {0}
             /\ seenData[p] = {l \in LinksOf(d) : /\ (PageAsked(p) - 1) * ItemsPerPage <= Position(l)
                                                  /\ Position(l) < PageAsked(p) * ItemsPerPage}
  <2>1. /\ PageAsked(p) \in Nat \ {0}
        /\ PageIndex(page[p]) = PageAsked(p) - 1 /\ (PageAsked(p) - 1) + 1 = PageAsked(p)
    BY <1>0, PollAssumption DEF PollTypeOK, PageIndex, PageAsked
  <2>2. seenData[p] = PageOf(d, page[p])
    BY <1>0 DEF AnswersStand
  <2> QED
    BY <2>1, <2>2 DEF PageOf
<1>4. ASSUME NEW p \in answers, NEW q \in answers, PageAsked(p) < PageAsked(q)
      PROVE  seenData[p] \intersect seenData[q] = {}
  <2>1. PageAsked(p) * ItemsPerPage <= (PageAsked(q) - 1) * ItemsPerPage
    BY <1>0, <1>3, <1>4, PagesApart
  <2>2. PageAsked(p) * ItemsPerPage \in Nat /\ (PageAsked(q) - 1) * ItemsPerPage \in Nat
    BY <1>0, <1>3
  <2> HIDE DEF answers
  <2> QED
    BY <1>2, <1>3, <2>1, <2>2
<1>5. ASSUME NEW p \in answers, NEW q \in answers
      PROVE  IF PageAsked(p) = PageAsked(q) THEN seenData[p] = seenData[q]
             ELSE seenData[p] \intersect seenData[q] = {}
  <2>1. PageAsked(p) \in Nat /\ PageAsked(q) \in Nat
    BY <1>3
  <2>2. CASE PageAsked(p) = PageAsked(q)
    BY <1>3, <2>2
  <2>3. CASE PageAsked(p) # PageAsked(q)
    BY <1>4, <2>1, <2>3
  <2> QED
    BY <2>2, <2>3
<1>6. ASSUME \A n \in 1..Cardinality(LinksOf(d)) :
               (n - 1) * ItemsPerPage < Cardinality(LinksOf(d)) => n \in reached,
             NEW l \in LinksOf(d)
      PROVE  \E p \in answers : l \in seenData[p]
  <2>1. PICK n \in Nat \ {0} : (n - 1) * ItemsPerPage <= Position(l) /\ Position(l) < n * ItemsPerPage
    BY <1>0, <1>2, PageExists
  <2>2. (n - 1) * ItemsPerPage \in Nat /\ n - 1 <= (n - 1) * ItemsPerPage
    BY <1>0
  <2>3. (n - 1) * ItemsPerPage < Cardinality(LinksOf(d)) /\ n \in 1..Cardinality(LinksOf(d))
    BY <1>1, <1>2, <2>1, <2>2
  <2>4. PICK p \in answers : PageAsked(p) = n
    BY <1>6, <2>3
  <2> QED
    BY <1>3, <2>1, <2>4
<1>7. \A p \in answers : seenData[p] \subseteq LinksOf(d)
  BY <1>3
<1> QED
  BY <1>5, <1>6, <1>7

(* Paging through a completed discovery loses and repeats nothing, page 0    *)
(* being page 1.                                                             *)
THEOREM PagesArePartition == PollSpec => []PagesPartition
BY PollInvariant, PInvPages, PTL
===============================================================================
