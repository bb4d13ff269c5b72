--------------------------- MODULE CertificateStore ---------------------------
(***************************************************************************)
(* The shared certificate store: discovery threads that collect over WinRM *)
(* and persist in one transaction, DELETE requests that cascade to the     *)
(* links of a discovery, and the scheduled sweep that deletes certificates *)
(* no discovery links to.                                                  *)
(*                                                                         *)
(* The database is PostgreSQL at READ COMMITTED.  history, certificate and *)
(* link hold what is committed; the rows a transaction has written and not *)
(* yet committed are kept with its thread.  Locks are transaction-scoped,  *)
(* so they are derived from where each thread stands.  The two foreign     *)
(* keys are not used to reject anything: ForeignKeys says that no          *)
(* transaction the code runs is ever in their way.                         *)
(***************************************************************************)
EXTENDS FiniteSetsExt

CONSTANTS
    Discoveries,    \* one per accepted POST; each runs once, in its own thread
    Fingerprints,   \* certificate fingerprints, as numbers: only their order matters
    MaxCopies,      \* bound: how often one certificate occurs in a collection
    Requests,       \* DELETE requests, each served once
    Sweepers,       \* the cleanup threads, one per gunicorn worker
    BatchSize,      \* CERTIFICATE_CLEANUP_BATCH_SIZE
    Interval,       \* CERTIFICATE_CLEANUP_INTERVAL_SECONDS, in ticks
    MaxCrashes      \* bound: threads that die with their worker

ASSUME ConstantsAssumption ==
    /\ IsFiniteSet(Discoveries)
    /\ IsFiniteSet(Fingerprints) /\ Fingerprints \subseteq Nat
    /\ BatchSize \in Int
    /\ {MaxCopies, Interval, MaxCrashes} \subseteq Nat
    /\ Discoveries \intersect Requests = {}
    /\ (Discoveries \union Requests) \intersect Sweepers = {}

VARIABLES
    \* committed rows
    history,        \* history[d]: the status column of d's row, or "noRow"
    certificate,    \* rows of the certificate table
    link,           \* rows of the discovery_certificate table
    nextId,         \* the certificate id sequence
    sinceRun,       \* ticks since last_run_at, up to Interval (null counts as due)
    \* discovery threads
    pc,             \* where d's thread is
    found,          \* found[d][fp]: copies of fp in total_certificates
    handled,        \* fingerprints the bulk insert has processed
    pending,        \* certificate rows inserted and not yet committed
    idByFp,         \* id_by_fp, 0 where the query returned no row
    \* DELETE requests
    rpc,            \* where the request is
    target,         \* the discovery it deletes
    doomed,         \* link rows it has deleted and not yet committed
    \* sweeps
    spc,            \* where the cleanup thread is
    bound,          \* max_certificate_id
    deleted,        \* certificates this sweep has deleted
    crashes         \* crashes so far

tables == <<history, certificate, link, nextId>>
discoveryVars == <<pc, found, handled, pending, idByFp>>
requestVars == <<rpc, target, doomed>>
sweepVars == <<spc, bound, deleted, sinceRun>>
vars == <<tables, discoveryVars, requestVars, sweepVars, crashes>>

-------------------------------------------------------------------------------
CertificateRow == [id : Nat \ {0}, fingerprint : Fingerprints]

LinkRow == [discovery : Discoveries, certificate : Nat, copy : Nat \ {0}]

Status == {"inProgress", "completed", "failed"}

Nothing == [fp \in Fingerprints |-> 0]

(* The keys of the dict "unique". *)
Unique(d) == {fp \in Fingerprints : found[d][fp] > 0}

(* pg_advisory_xact_lock_shared, held from its call to the end of the transaction. *)
SharedHolders == {d \in Discoveries : pc[d] \in {"locked", "inserting", "linking"}}

(* pg_advisory_xact_lock, held by a batch.  The claim of the lease holds it *)
(* within one step.                                                         *)
ExclusiveHolders == {w \in Sweepers : spc[w] = "batch"}

(* SELECT ... FOR UPDATE on the history row of d. *)
RowHeldByDiscovery(d) == pc[d] \in {"inserting", "linking"}

RowHolders(d) == {r \in Requests : target[r] = d /\ rpc[r] \in {"locked", "cascading"}}

RowFree(d) == ~RowHeldByDiscovery(d) /\ RowHolders(d) = {}

(* What a statement of d's transaction can read. *)
VisibleTo(d) == certificate \union pending[d]

(* Mutant: the bulk insert without sorted(). *)
InsertNext_Unsorted(d) == Unique(d) \ handled[d]

(* Where the bulk insert stands: sorted(unique.items()) is ascending. *)
InsertNext(d) ==
    LET remaining == Unique(d) \ handled[d]
    IN  {fp \in remaining : \A other \in remaining : fp <= other}

(* Transactions whose uncommitted row makes an insert of fp wait for them. *)
InsertersOf(fp, d) ==
    {e \in Discoveries \ {d} : \E row \in pending[e] : row.fingerprint = fp}

(* Mutant: a batch without "id <= max_certificate_id". *)
Orphans_Unbounded(w) == {row \in certificate : ~\E l \in link : l.certificate = row.id}

(* The batch's candidates, and max(1, CERTIFICATE_CLEANUP_BATCH_SIZE). *)
Orphans(w) ==
    {row \in certificate :
        row.id <= bound[w] /\ ~\E l \in link : l.certificate = row.id}

(* Mutant: the batch size as configured. *)
EffectiveBatch_Raw == BatchSize

EffectiveBatch == Max({1, BatchSize})

-------------------------------------------------------------------------------
Init ==
    /\ history = [d \in Discoveries |-> "noRow"]
    /\ certificate = {} /\ link = {} /\ nextId = 1
    /\ sinceRun = Interval
    /\ pc = [d \in Discoveries |-> "unborn"]
    /\ found = [d \in Discoveries |-> Nothing]
    /\ handled = [d \in Discoveries |-> {}]
    /\ pending = [d \in Discoveries |-> {}]
    /\ idByFp = [d \in Discoveries |-> Nothing]
    /\ rpc = [r \in Requests |-> "idle"]
    /\ target \in [Requests -> Discoveries]
    /\ doomed = [r \in Requests |-> {}]
    /\ spc = [w \in Sweepers |-> "idle"]
    /\ bound = [w \in Sweepers |-> 0]
    /\ deleted = [w \in Sweepers |-> 0]
    /\ crashes = 0

-------------------------------------------------------------------------------
(* The discovery thread. *)

(* Mutant: the row is saved before its status is set. *)
StartDiscovery_NoStatus(d) ==
    /\ pc[d] = "unborn"
    /\ pc' = [pc EXCEPT ![d] = "spawned"]
    /\ history' = [history EXCEPT ![d] = ""]
    /\ UNCHANGED <<certificate, link, nextId, found, handled, pending, idByFp,
                   requestVars, sweepVars, crashes>>

(* start_discovery: the row is committed, then the thread is spawned. *)
StartDiscovery(d) ==
    /\ pc[d] = "unborn"
    /\ pc' = [pc EXCEPT ![d] = "spawned"]
    /\ history' = [history EXCEPT ![d] = "inProgress"]
    /\ UNCHANGED <<certificate, link, nextId, found, handled, pending, idByFp,
                   requestVars, sweepVars, crashes>>

(* run_discovery reads its row; DoesNotExist ends the thread. *)
FetchHistory(d) ==
    /\ pc[d] = "spawned"
    /\ pc' = [pc EXCEPT ![d] = IF history[d] = "noRow" THEN "ended" ELSE "collecting"]
    /\ UNCHANGED <<tables, found, handled, pending, idByFp,
                   requestVars, sweepVars, crashes>>

(* The WinRM collection, with no lock held: any bag of certificates. *)
Collect(d) ==
    /\ pc[d] = "collecting"
    /\ pc' = [pc EXCEPT ![d] = "collected"]
    /\ \E collection \in [Fingerprints -> 0..MaxCopies] :
        found' = [found EXCEPT ![d] = collection]
    /\ UNCHANGED <<tables, handled, pending, idByFp,
                   requestVars, sweepVars, crashes>>

(* Mutant: persistence without the advisory lock's wait. *)
LockShared_NoWait(d) ==
    /\ pc[d] = "collected"
    /\ pc' = [pc EXCEPT ![d] = "locked"]
    /\ UNCHANGED <<tables, found, handled, pending, idByFp,
                   requestVars, sweepVars, crashes>>

(* The persistence transaction takes the shared advisory lock. *)
LockShared(d) ==
    /\ pc[d] = "collected"
    /\ ExclusiveHolders = {}
    /\ pc' = [pc EXCEPT ![d] = "locked"]
    /\ UNCHANGED <<tables, found, handled, pending, idByFp,
                   requestVars, sweepVars, crashes>>

(* Mutant: the history row is not read again after the collection. *)
LockRow_NoRead(d) ==
    /\ pc[d] = "locked"
    /\ RowFree(d)
    /\ pc' = [pc EXCEPT ![d] = "inserting"]
    /\ UNCHANGED <<tables, found, handled, pending, idByFp,
                   requestVars, sweepVars, crashes>>

(* Mutant: get() in place of select_for_update(). *)
LockRow_NoLock(d) ==
    /\ pc[d] = "locked"
    /\ history[d] # "noRow"
    /\ pc' = [pc EXCEPT ![d] = "inserting"]
    /\ UNCHANGED <<tables, found, handled, pending, idByFp,
                   requestVars, sweepVars, crashes>>

(* It locks its history row, once no other transaction holds it. *)
LockRow(d) ==
    /\ pc[d] = "locked"
    /\ RowFree(d)
    /\ history[d] # "noRow"
    /\ pc' = [pc EXCEPT ![d] = "inserting"]
    /\ UNCHANGED <<tables, found, handled, pending, idByFp,
                   requestVars, sweepVars, crashes>>

(* The discovery was deleted during collection: nothing is persisted. *)
SkipPersistence(d) ==
    /\ pc[d] = "locked"
    /\ RowFree(d)
    /\ history[d] = "noRow"
    /\ pc' = [pc EXCEPT ![d] = "ended"]
    /\ found' = [found EXCEPT ![d] = Nothing]
    /\ UNCHANGED <<tables, handled, pending, idByFp,
                   requestVars, sweepVars, crashes>>

(* Mutant: Certificate.fingerprint without unique=True. *)
InsertRow_NotUnique(d, fp) ==
    /\ pending' = [pending EXCEPT ![d] = @ \union {[id |-> nextId, fingerprint |-> fp]}]
    /\ nextId' = nextId + 1

(* One row of INSERT ... ON CONFLICT DO NOTHING: skipped if the fingerprint  *)
(* is there.  A skipped row's sequence value is not spent in the model.     *)
InsertRow(d, fp) ==
    IF \E row \in certificate : row.fingerprint = fp
    THEN UNCHANGED <<pending, nextId>>
    ELSE /\ pending' = [pending EXCEPT ![d] =
                            @ \union {[id |-> nextId, fingerprint |-> fp]}]
         /\ nextId' = nextId + 1

(* The bulk insert goes row by row, and waits at a row for a transaction    *)
(* that has inserted the same fingerprint and not ended.                    *)
InsertCertificate(d) ==
    /\ pc[d] = "inserting"
    /\ \E fp \in InsertNext(d) :
        /\ InsertersOf(fp, d) = {}
        /\ InsertRow(d, fp)
        /\ handled' = [handled EXCEPT ![d] = @ \union {fp}]
    /\ UNCHANGED <<history, certificate, link, pc, found, idByFp,
                   requestVars, sweepVars, crashes>>

(* id_by_fp, read by a statement of its own after the insert. *)
ReadIds(d) ==
    /\ pc[d] = "inserting"
    /\ handled[d] = Unique(d)
    /\ pc' = [pc EXCEPT ![d] = "linking"]
    /\ idByFp' = [idByFp EXCEPT ![d] =
            [fp \in Fingerprints |->
                IF \E row \in VisibleTo(d) : row.fingerprint = fp
                THEN (CHOOSE row \in VisibleTo(d) : row.fingerprint = fp).id
                ELSE 0]]
    /\ UNCHANGED <<tables, found, handled, pending, requestVars, sweepVars, crashes>>

(* Mutant: one link per fingerprint. *)
NewLinks_Unique(d) ==
    {[discovery |-> d, certificate |-> idByFp[d][fp], copy |-> 1] : fp \in Unique(d)}

(* The rows of the second bulk_create: one per collected certificate. *)
NewLinks(d) ==
    UNION {{[discovery |-> d, certificate |-> idByFp[d][fp], copy |-> k] :
                k \in 1..found[d][fp]} : fp \in Unique(d)}

(* The links, the status, and COMMIT. *)
Commit(d) ==
    /\ pc[d] = "linking"
    /\ pc' = [pc EXCEPT ![d] = "ended"]
    /\ certificate' = certificate \union pending[d]
    /\ link' = link \union NewLinks(d)
    /\ history' = [history EXCEPT ![d] = "completed"]
    /\ handled' = [handled EXCEPT ![d] = {}]
    /\ pending' = [pending EXCEPT ![d] = {}]
    /\ idByFp' = [idByFp EXCEPT ![d] = Nothing]
    /\ UNCHANGED <<nextId, found, requestVars, sweepVars, crashes>>

(* A thread that leaves its transaction without committing. *)
Abandon(d) ==
    /\ found' = [found EXCEPT ![d] = Nothing]
    /\ handled' = [handled EXCEPT ![d] = {}]
    /\ pending' = [pending EXCEPT ![d] = {}]
    /\ idByFp' = [idByFp EXCEPT ![d] = Nothing]

(* Any exception of discover_certificates: a WinRM, attribute, parse or     *)
(* database error; an open transaction rolls back.                          *)
Raise(d) ==
    /\ pc[d] \in {"collecting", "collected", "locked", "inserting", "linking"}
    /\ pc' = [pc EXCEPT ![d] = "failing"]
    /\ Abandon(d)
    /\ UNCHANGED <<tables, requestVars, sweepVars, crashes>>

(* Mutant: discovery_history.save(), which inserts a row that is gone. *)
MarkFailed_Save(d) ==
    /\ pc[d] = "failing"
    /\ RowFree(d)
    /\ pc' = [pc EXCEPT ![d] = "ended"]
    /\ history' = [history EXCEPT ![d] = "failed"]
    /\ UNCHANGED <<certificate, link, nextId, found, handled, pending, idByFp,
                   requestVars, sweepVars, crashes>>

(* Mutant: the exception ends the thread and nothing is updated. *)
MarkFailed_Never(d) ==
    /\ pc[d] = "failing"
    /\ pc' = [pc EXCEPT ![d] = "ended"]
    /\ UNCHANGED <<tables, found, handled, pending, idByFp,
                   requestVars, sweepVars, crashes>>

(* run_discovery's handler: an UPDATE of the row if it is still there. *)
MarkFailed(d) ==
    /\ pc[d] = "failing"
    /\ RowFree(d)
    /\ pc' = [pc EXCEPT ![d] = "ended"]
    /\ history' = [history EXCEPT ![d] = IF @ = "noRow" THEN @ ELSE "failed"]
    /\ UNCHANGED <<certificate, link, nextId, found, handled, pending, idByFp,
                   requestVars, sweepVars, crashes>>

(* The thread is a daemon: it dies with its worker, and nothing resumes it. *)
(* An error of the first read, outside run_discovery's try, or of the        *)
(* handler's own UPDATE ends it as well, and is counted like a crash.        *)
CrashDiscovery(d) ==
    /\ pc[d] \notin {"unborn", "ended"}
    /\ crashes < MaxCrashes
    /\ crashes' = crashes + 1
    /\ pc' = [pc EXCEPT ![d] = "ended"]
    /\ Abandon(d)
    /\ UNCHANGED <<tables, requestVars, sweepVars>>

-------------------------------------------------------------------------------
(* DELETE of a discovery, one transaction per request. *)

(* Mutant: DELETE without select_for_update(). *)
DeleteLock_NoLock(r) ==
    /\ rpc[r] = "idle"
    /\ history[target[r]] # "noRow"
    /\ rpc' = [rpc EXCEPT ![r] = "locked"]
    /\ UNCHANGED <<tables, discoveryVars, target, doomed, sweepVars, crashes>>

(* select_for_update finds the row. *)
DeleteLock(r) ==
    /\ rpc[r] = "idle"
    /\ RowFree(target[r])
    /\ history[target[r]] # "noRow"
    /\ rpc' = [rpc EXCEPT ![r] = "locked"]
    /\ UNCHANGED <<tables, discoveryVars, target, doomed, sweepVars, crashes>>

(* The row is gone: 404. *)
DeleteNotFound(r) ==
    /\ rpc[r] = "idle"
    /\ RowFree(target[r])
    /\ history[target[r]] = "noRow" /\ pc[target[r]] # "unborn"
    /\ rpc' = [rpc EXCEPT ![r] = "done"]
    /\ UNCHANGED <<tables, discoveryVars, target, doomed, sweepVars, crashes>>

(* The cascade deletes the links it can see. *)
DeleteLinks(r) ==
    /\ rpc[r] = "locked"
    /\ rpc' = [rpc EXCEPT ![r] = "cascading"]
    /\ doomed' = [doomed EXCEPT ![r] = {l \in link : l.discovery = target[r]}]
    /\ UNCHANGED <<tables, discoveryVars, target, sweepVars, crashes>>

(* The history row goes, and the transaction commits: 204. *)
DeleteCommit(r) ==
    /\ rpc[r] = "cascading"
    /\ rpc' = [rpc EXCEPT ![r] = "done"]
    /\ link' = link \ doomed[r]
    /\ history' = [history EXCEPT ![target[r]] = "noRow"]
    /\ doomed' = [doomed EXCEPT ![r] = {}]
    /\ UNCHANGED <<certificate, nextId, discoveryVars, target, sweepVars, crashes>>

(* The request dies with its worker, or its transaction fails. *)
DeleteRollback(r) ==
    /\ rpc[r] \in {"locked", "cascading"}
    /\ crashes < MaxCrashes
    /\ crashes' = crashes + 1
    /\ rpc' = [rpc EXCEPT ![r] = "done"]
    /\ doomed' = [doomed EXCEPT ![r] = {}]
    /\ UNCHANGED <<tables, discoveryVars, target, sweepVars>>

-------------------------------------------------------------------------------
(* The cleanup thread. *)

Tick ==
    /\ sinceRun < Interval
    /\ sinceRun' = sinceRun + 1
    /\ UNCHANGED <<tables, discoveryVars, requestVars, spc, bound, deleted, crashes>>

(* _claim_lease when it is due and the try-lock succeeds; a busy lock or a  *)
(* lease not yet due sends the thread back to sleep and changes nothing.    *)
(* Everything between lock and commit is under the exclusive lock.          *)
ClaimLease(w) ==
    /\ spc[w] = "idle"
    /\ SharedHolders = {} /\ ExclusiveHolders = {}
    /\ sinceRun >= Interval
    /\ sinceRun' = 0
    /\ spc' = [spc EXCEPT ![w] = "sweeping"]
    /\ bound' = [bound EXCEPT ![w] = Max({0} \union {row.id : row \in certificate})]
    /\ UNCHANGED <<tables, discoveryVars, requestVars, deleted, crashes>>

(* The thread is back in _loop, asleep. *)
EndSweep(w) ==
    /\ spc' = [spc EXCEPT ![w] = "idle"]
    /\ bound' = [bound EXCEPT ![w] = 0]
    /\ deleted' = [deleted EXCEPT ![w] = 0]

(* A batch's transaction takes the exclusive lock. *)
LockBatch(w) ==
    /\ spc[w] = "sweeping"
    /\ SharedHolders = {} /\ ExclusiveHolders = {}
    /\ spc' = [spc EXCEPT ![w] = "batch"]
    /\ UNCHANGED <<tables, discoveryVars, requestVars, bound, deleted, sinceRun, crashes>>

(* DELETE ... LIMIT removes a full batch, any of the candidates; the sweep goes on. *)
DeleteFullBatch(w) ==
    /\ spc[w] = "batch"
    /\ \E victims \in SUBSET Orphans(w) :
        /\ Cardinality(victims) = EffectiveBatch
        /\ certificate' = certificate \ victims
        /\ deleted' = [deleted EXCEPT ![w] = @ + Cardinality(victims)]
    /\ spc' = [spc EXCEPT ![w] = "sweeping"]
    /\ UNCHANGED <<history, link, nextId, bound, sinceRun, discoveryVars, requestVars, crashes>>

(* Fewer candidates than a batch: all of them go, and the sweep is over. *)
DeleteLastBatch(w) ==
    /\ spc[w] = "batch"
    /\ Cardinality(Orphans(w)) < EffectiveBatch
    /\ certificate' = certificate \ Orphans(w)
    /\ EndSweep(w)
    /\ UNCHANGED <<history, link, nextId, sinceRun, discoveryVars, requestVars, crashes>>

(* The worker dies, or an exception reaches _loop: the open batch rolls     *)
(* back, the lease stays claimed, and the thread (or its successor) sleeps. *)
SweepInterrupted(w) ==
    /\ spc[w] # "idle"
    /\ crashes < MaxCrashes
    /\ crashes' = crashes + 1
    /\ EndSweep(w)
    /\ UNCHANGED <<tables, discoveryVars, requestVars, sinceRun>>

-------------------------------------------------------------------------------
DiscoveryStep(d) ==
    \/ FetchHistory(d) \/ Collect(d) \/ LockShared(d) \/ LockRow(d)
    \/ SkipPersistence(d) \/ InsertCertificate(d) \/ ReadIds(d) \/ Commit(d)
    \/ MarkFailed(d)

RequestStep(r) == DeleteLinks(r) \/ DeleteCommit(r)

SweepStep(w) == LockBatch(w) \/ DeleteFullBatch(w) \/ DeleteLastBatch(w)

Next ==
    \/ \E d \in Discoveries :
        StartDiscovery(d) \/ DiscoveryStep(d) \/ Raise(d) \/ CrashDiscovery(d)
    \/ \E r \in Requests :
        DeleteLock(r) \/ DeleteNotFound(r) \/ RequestStep(r) \/ DeleteRollback(r)
    \/ \E w \in Sweepers : ClaimLease(w) \/ SweepStep(w) \/ SweepInterrupted(w)
    \/ Tick

Spec == Init /\ [][Next]_vars

(* A thread in the middle of its work goes on; a lock request is queued by  *)
(* PostgreSQL, so it is granted if the lock is free again and again; time   *)
(* passes, and some worker polls while the lease is due.                    *)
Fairness ==
    /\ \A d \in Discoveries : SF_vars(DiscoveryStep(d))
    /\ \A r \in Requests : WF_vars(RequestStep(r))
    /\ \A w \in Sweepers : SF_vars(SweepStep(w))
    /\ WF_vars(Tick)
    /\ WF_vars(\E w \in Sweepers : ClaimLease(w))

FairSpec == Spec /\ Fairness

-------------------------------------------------------------------------------
(* Every variable has its type. *)
TypeOK ==
    /\ history \in [Discoveries -> Status \union {"noRow"}]
    /\ certificate \in SUBSET CertificateRow
    /\ link \in SUBSET LinkRow
    /\ nextId \in Nat \ {0}
    /\ sinceRun \in 0..Interval
    /\ pc \in [Discoveries ->
            {"unborn", "spawned", "collecting", "collected", "locked",
             "inserting", "linking", "failing", "ended"}]
    /\ found \in [Discoveries -> [Fingerprints -> 0..MaxCopies]]
    /\ handled \in [Discoveries -> SUBSET Fingerprints]
    /\ pending \in [Discoveries -> SUBSET CertificateRow]
    /\ idByFp \in [Discoveries -> [Fingerprints -> Nat]]
    /\ rpc \in [Requests -> {"idle", "locked", "cascading", "done"}]
    /\ target \in [Requests -> Discoveries]
    /\ doomed \in [Requests -> SUBSET LinkRow]
    /\ spc \in [Sweepers -> {"idle", "sweeping", "batch"}]
    /\ bound \in [Sweepers -> Nat]
    /\ deleted \in [Sweepers -> Nat]
    /\ crashes \in 0..MaxCrashes

(* No transaction of a discovery, a DELETE or a sweep ever breaks a foreign *)
(* key: a link's discovery and certificate exist.  With the keys in place   *)
(* this says that none of them fails with an IntegrityError at COMMIT.      *)
ForeignKeys ==
    \A l \in link :
        /\ history[l.discovery] # "noRow"
        /\ \E row \in certificate : row.id = l.certificate

Rows == certificate \union UNION {pending[d] : d \in Discoveries}

(* A certificate is stored once: inserts of two threads that meet, before   *)
(* or after either commits, never give a fingerprint two rows or reuse an   *)
(* id (the dedup of bulk_create(ignore_conflicts=True)).                    *)
UniqueRows ==
    /\ \A a, b \in Rows : (a.id = b.id \/ a.fingerprint = b.fingerprint) => a = b
    /\ \A d \in Discoveries : pending[d] \intersect certificate = {}
    /\ \A d, e \in Discoveries : d # e => pending[d] \intersect pending[e] = {}

(* id_by_fp[fp] finds a row for every certificate collected (no KeyError),  *)
(* and that row is still there when its link is inserted, whatever sweeps   *)
(* and other discoveries did since the insert skipped it.                   *)
IdsResolved ==
    \A d \in Discoveries : pc[d] = "linking" =>
        \A fp \in Unique(d) :
            [id |-> idByFp[d][fp], fingerprint |-> fp] \in VisibleTo(d)

LinksTo(d, fp) ==
    {l \in link : /\ l.discovery = d
                  /\ \E row \in certificate :
                        row.id = l.certificate /\ row.fingerprint = fp}

(* A discovery that reads "completed" shows exactly what it collected, copy *)
(* by copy, however many sweeps ran since; any other status shows nothing.  *)
AllOrNothing ==
    \A d \in Discoveries :
        IF history[d] = "completed"
        THEN \A fp \in Fingerprints : Cardinality(LinksTo(d, fp)) = found[d][fp]
        ELSE ~\E l \in link : l.discovery = d

(* One sweep deletes no more than the ids its claim saw, so it ends however *)
(* fast other threads create and orphan certificates.                       *)
SweepBounded == \A w \in Sweepers : deleted[w] <= bound[w]

Threads == Discoveries \union Requests \union Sweepers

(* The threads that hold what thread a is waiting for. *)
BlockersOf(a) ==
    IF a \in Discoveries THEN
        CASE pc[a] = "collected" -> ExclusiveHolders
          [] pc[a] \in {"locked", "failing"} -> RowHolders(a)
          [] pc[a] = "inserting" -> UNION {InsertersOf(fp, a) : fp \in InsertNext(a)}
          [] OTHER -> {}
    ELSE IF a \in Sweepers /\ spc[a] = "sweeping"
         THEN SharedHolders \union ExclusiveHolders
    ELSE IF a \in Requests /\ rpc[a] = "idle" /\ RowHeldByDiscovery(target[a])
         THEN {target[a]}
    ELSE {}

(* No deadlock: in every set of threads some thread waits for nobody in it. *)
(* It is what the ascending order of the bulk insert is for.                *)
NoDeadlock ==
    \A group \in (SUBSET Threads) \ {{}} :
        \E a \in group : BlockersOf(a) \intersect group = {}

(* A discovery ends once and only once: a deleted one never comes back, by  *)
(* persistence or by the handler of a failure, and "completed" and "failed" *)
(* are final.                                                               *)
HistoryLifecycle ==
    [][\A d \in Discoveries : history'[d] # history[d] =>
        \/ pc[d] = "unborn" /\ history'[d] = "inProgress"
        \/ history[d] = "inProgress" /\ history'[d] \in {"completed", "failed"}
        \/ history'[d] = "noRow"]_vars

(* An orphan is removed or linked again, even if a sweep dies halfway. *)
OrphansGoAway ==
    \A fp \in Fingerprints :
        (\E row \in certificate : row.fingerprint = fp /\ ~\E l \in link : l.certificate = row.id)
        ~> ~(\E row \in certificate : row.fingerprint = fp /\ ~\E l \in link : l.certificate = row.id)

(* A discovery that is accepted stops reading "inProgress", also when WinRM, *)
(* parsing or the persistence fails, unless its thread dies: with its worker *)
(* or by an error of its first read or of the handler's UPDATE.              *)
DiscoveryEnds ==
    \A d \in Discoveries :
        history[d] = "inProgress" ~> history[d] # "inProgress" \/ crashes > 0

(* The store as ILM Core sees it: every step of the detailed store is one   *)
(* step of DiscoveryStore, or none.                                         *)
Promise == INSTANCE DiscoveryStore WITH
    status <- [d \in Discoveries |->
                IF pc[d] = "unborn" THEN "unborn"
                ELSE IF history[d] = "noRow" THEN "deleted" ELSE history[d]],
    content <- [d \in Discoveries |->
                [fp \in Fingerprints |-> Cardinality(LinksTo(d, fp))]],
    stored <- {row.fingerprint : row \in certificate}

ImplementsDiscoveryStore == Promise!Spec

-------------------------------------------------------------------------------
(* The inductive invariant behind ForeignKeys, UniqueRows, IdsResolved and  *)
(* HistoryLifecycle, in parts.                                              *)

(* A sweep's batch and a persistence transaction never run together. *)
LockExclusion == SharedHolders = {} \/ ExclusiveHolders = {}

(* A history row is locked by one thread at a time, and stays while it is. *)
RowExclusion ==
    /\ \A d \in Discoveries : RowHeldByDiscovery(d) =>
        RowHolders(d) = {} /\ history[d] # "noRow"
    /\ \A r \in Requests : rpc[r] \in {"locked", "cascading"} =>
        history[target[r]] # "noRow" /\ RowHolders(target[r]) = {r}

(* Nobody adds a link behind a cascade. *)
CascadeComplete ==
    \A r \in Requests : rpc[r] = "cascading" =>
        \A l \in link : l.discovery = target[r] => l \in doomed[r]

(* Uncommitted rows belong to an open transaction, and ids come from the sequence. *)
RowsInSequence ==
    /\ \A d \in Discoveries : pending[d] # {} => pc[d] \in {"inserting", "linking"}
    /\ \A row \in certificate : row.id < nextId
    /\ \A d \in Discoveries : \A row \in pending[d] : row.id < nextId

(* What the insert has processed is visible to the transaction. *)
HandledVisible ==
    \A d \in Discoveries :
        /\ handled[d] # {} => pc[d] \in {"inserting", "linking"}
        /\ pc[d] = "linking" => handled[d] = Unique(d)
        /\ \A fp \in handled[d] : \E row \in VisibleTo(d) : row.fingerprint = fp
        /\ \A row \in pending[d] : row.fingerprint \in handled[d]

(* Only d's thread moves d's status, and it has not ended d while it runs. *)
RunningStatus ==
    \A d \in Discoveries :
        /\ pc[d] = "unborn" => history[d] = "noRow"
        /\ pc[d] # "ended" => history[d] \in {"noRow", "inProgress"}

IInv ==
    /\ TypeOK
    /\ LockExclusion
    /\ RowExclusion
    /\ CascadeComplete
    /\ RowsInSequence
    /\ HandledVisible
    /\ RunningStatus
    /\ UniqueRows
    /\ IdsResolved
    /\ ForeignKeys
===============================================================================
