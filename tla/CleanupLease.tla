----------------------------- MODULE CleanupLease -----------------------------
(***************************************************************************)
(* The schedule of the orphan sweep: one thread per gunicorn worker, all   *)
(* racing for one lease in the database.  _claim_lease is taken statement  *)
(* by statement; what a sweep deletes is CertificateStore's subject, so a  *)
(* sweep is here only the batches that hold the lock.                      *)
(***************************************************************************)
EXTENDS FiniteSetsExt

CONSTANTS
    Workers,        \* gunicorn worker processes, of all replicas
    Enabled,        \* CERTIFICATE_CLEANUP_ENABLED
    Interval,       \* CERTIFICATE_CLEANUP_INTERVAL_SECONDS
    PollCap,        \* the 3600 of _loop
    MaxTime,        \* bound on the clock
    MaxLate,        \* ... once it has passed a thread with something to do
    MaxCrashes,     \* bound on failures and deaths
    Never           \* a null last_run_at

ASSUME LeaseAssumption ==
    /\ IsFiniteSet(Workers)
    /\ Enabled \in BOOLEAN
    /\ Interval \in Int /\ PollCap \in Nat \ {0}
    /\ {MaxTime, MaxLate, MaxCrashes} \subseteq Nat /\ MaxLate <= MaxTime
    /\ Never \notin Nat

VARIABLES
    now,            \* the database's clock
    stateRow,       \* rows of certificate_cleanup_state: key and last_run_at
    nextKey,        \* its id sequence
    discovering,    \* some discovery holds the lock in shared mode
    thread,         \* where the cleanup thread of a worker is
    wake,           \* when its time.sleep is over
    txStart,        \* now() of its open transaction: the time it began
    seen,           \* the state row it has read, as a set of at most one
    claims,         \* history: the leases claimed so far
    skipped,        \* history: polls that found the lock taken since then
    late,           \* history: the clock has passed a thread with something to do
    crashes

vars == <<now, stateRow, nextKey, discovering, thread, wake, txStart, seen,
          claims, skipped, late, crashes>>

Times == 0..MaxTime
StateRows == [key : Nat, lastRun : Times \union {Never}]
Claim == [worker : Workers, at : Times]

PollSeconds == Min({Interval, PollCap})

(* The advisory lock, held from the try-lock to the end of the transaction. *)
Holders == {w \in Workers : thread[w] \in {"locked", "due", "batch"}}

(* order_by("pk").first() *)
FirstRow == {row \in stateRow : \A other \in stateRow : row.key <= other.key}

(* SELECT ... FOR UPDATE waits for the transaction that has read the row. *)
RowLocked == \E w \in Workers : thread[w] = "due" /\ seen[w] # {}

Due(row, time) == row.lastRun # Never => time - row.lastRun >= Interval

-------------------------------------------------------------------------------
Init ==
    /\ now = 0
    /\ stateRow \in {{}, {[key |-> 1, lastRun |-> Never]}}
    /\ nextKey = 2
    /\ discovering = FALSE
    /\ thread = [w \in Workers |-> "off"]
    /\ wake = [w \in Workers |-> 0]
    /\ txStart = [w \in Workers |-> 0]
    /\ seen = [w \in Workers |-> {}]
    /\ claims = {} /\ skipped = 0 /\ late = FALSE /\ crashes = 0

(* start_cleanup_scheduler, called when the worker loads the application;  *)
(* _started makes later calls of the same process do nothing, also when    *)
(* the thread has ended.                                                   *)
StartScheduler(w) ==
    /\ thread[w] = "off"
    /\ Enabled /\ Interval > 0
    /\ thread' = [thread EXCEPT ![w] = "awake"]
    /\ UNCHANGED <<now, stateRow, nextKey, discovering, wake, txStart, seen,
                   claims, skipped, late, crashes>>

(* The end of run_cleanup_once, whatever its outcome: sleep, then poll. *)
Sleep(w) ==
    /\ thread' = [thread EXCEPT ![w] = "asleep"]
    /\ wake' = [wake EXCEPT ![w] = now + PollSeconds]
    /\ txStart' = [txStart EXCEPT ![w] = 0]
    /\ seen' = [seen EXCEPT ![w] = {}]

WakeUp(w) ==
    /\ thread[w] = "asleep" /\ now >= wake[w]
    /\ thread' = [thread EXCEPT ![w] = "awake"]
    /\ wake' = [wake EXCEPT ![w] = 0]
    /\ UNCHANGED <<now, stateRow, nextKey, discovering, txStart, seen,
                   claims, skipped, late, crashes>>

(* transaction.atomic: now() is fixed here. *)
BeginClaim(w) ==
    /\ thread[w] = "awake"
    /\ thread' = [thread EXCEPT ![w] = "begun"]
    /\ txStart' = [txStart EXCEPT ![w] = now]
    /\ UNCHANGED <<now, stateRow, nextKey, discovering, wake, seen,
                   claims, skipped, late, crashes>>

(* Mutant: the try-lock's answer is not looked at. *)
TryLock_Ignored(w) ==
    /\ thread[w] = "begun"
    /\ thread' = [thread EXCEPT ![w] = "locked"]
    /\ UNCHANGED <<now, stateRow, nextKey, discovering, wake, txStart, seen,
                   claims, skipped, late, crashes>>

(* pg_try_advisory_xact_lock *)
TryLock(w) ==
    /\ thread[w] = "begun"
    /\ ~discovering /\ Holders = {}
    /\ thread' = [thread EXCEPT ![w] = "locked"]
    /\ UNCHANGED <<now, stateRow, nextKey, discovering, wake, txStart, seen,
                   claims, skipped, late, crashes>>

LockBusy(w) ==
    /\ thread[w] = "begun"
    /\ discovering \/ Holders # {}
    /\ Sleep(w)
    /\ skipped' = skipped + 1
    /\ UNCHANGED <<now, stateRow, nextKey, discovering, claims, late, crashes>>

(* The state row is read and locked: due, or never run, or no row at all. *)
ReadDue(w) ==
    /\ thread[w] = "locked" /\ ~RowLocked
    /\ \A row \in FirstRow : Due(row, txStart[w])
    /\ thread' = [thread EXCEPT ![w] = "due"]
    /\ seen' = [seen EXCEPT ![w] = FirstRow]
    /\ UNCHANGED <<now, stateRow, nextKey, discovering, wake, txStart,
                   claims, skipped, late, crashes>>

ReadNotDue(w) ==
    /\ thread[w] = "locked" /\ ~RowLocked
    /\ \E row \in FirstRow : ~Due(row, txStart[w])
    /\ Sleep(w)
    /\ UNCHANGED <<now, stateRow, nextKey, discovering,
                   claims, skipped, late, crashes>>

(* Mutant: the time is not saved. *)
CommitClaim_NoSave(w) ==
    /\ thread[w] = "due"
    /\ thread' = [thread EXCEPT ![w] = "sweeping"]
    /\ seen' = [seen EXCEPT ![w] = {}]
    /\ txStart' = [txStart EXCEPT ![w] = 0]
    /\ claims' = claims \union {[worker |-> w, at |-> txStart[w]]}
    /\ skipped' = 0
    /\ UNCHANGED <<now, stateRow, nextKey, discovering, wake, late, crashes>>

(* Mutant: last_run_at is the time the next run is due. *)
CommitClaim_NextDue(w) ==
    /\ thread[w] = "due"
    /\ thread' = [thread EXCEPT ![w] = "sweeping"]
    /\ stateRow' = (stateRow \ seen[w])
                     \union {[key |-> 1, lastRun |-> txStart[w] + Interval]}
    /\ seen' = [seen EXCEPT ![w] = {}]
    /\ txStart' = [txStart EXCEPT ![w] = 0]
    /\ claims' = claims \union {[worker |-> w, at |-> txStart[w]]}
    /\ skipped' = 0
    /\ UNCHANGED <<now, nextKey, discovering, wake, late, crashes>>

(* state.save() updates the row read, or inserts one; then COMMIT. *)
CommitClaim(w) ==
    /\ thread[w] = "due"
    /\ thread' = [thread EXCEPT ![w] = "sweeping"]
    /\ LET key == IF seen[w] = {} THEN nextKey ELSE (CHOOSE row \in seen[w] : TRUE).key
       IN  stateRow' = (stateRow \ seen[w]) \union {[key |-> key, lastRun |-> txStart[w]]}
    /\ nextKey' = IF seen[w] = {} THEN nextKey + 1 ELSE nextKey
    /\ seen' = [seen EXCEPT ![w] = {}]
    /\ txStart' = [txStart EXCEPT ![w] = 0]
    /\ claims' = claims \union {[worker |-> w, at |-> txStart[w]]}
    /\ skipped' = 0
    /\ UNCHANGED <<now, discovering, wake, late, crashes>>

(* pg_advisory_xact_lock of a batch, and its commit. *)
BeginBatch(w) ==
    /\ thread[w] = "sweeping"
    /\ ~discovering /\ Holders = {}
    /\ thread' = [thread EXCEPT ![w] = "batch"]
    /\ UNCHANGED <<now, stateRow, nextKey, discovering, wake, txStart, seen,
                   claims, skipped, late, crashes>>

FullBatch(w) ==
    /\ thread[w] = "batch"
    /\ thread' = [thread EXCEPT ![w] = "sweeping"]
    /\ UNCHANGED <<now, stateRow, nextKey, discovering, wake, txStart, seen,
                   claims, skipped, late, crashes>>

LastBatch(w) ==
    /\ thread[w] = "batch"
    /\ Sleep(w)
    /\ UNCHANGED <<now, stateRow, nextKey, discovering,
                   claims, skipped, late, crashes>>

(* An exception of run_cleanup_once is logged; an open transaction rolls back. *)
SweepFails(w) ==
    /\ thread[w] \in {"begun", "locked", "due", "sweeping", "batch"}
    /\ crashes < MaxCrashes
    /\ crashes' = crashes + 1
    /\ Sleep(w)
    /\ UNCHANGED <<now, stateRow, nextKey, discovering, claims, skipped, late>>

(* close_old_connections() is outside the try, before run_cleanup_once and   *)
(* after it: what it raises ends the thread, and the worker lives on.        *)
ThreadEnds(w) ==
    /\ thread[w] \in {"asleep", "awake"}
    /\ crashes < MaxCrashes
    /\ crashes' = crashes + 1
    /\ thread' = [thread EXCEPT ![w] = "gone"]
    /\ wake' = [wake EXCEPT ![w] = 0]
    /\ UNCHANGED <<now, stateRow, nextKey, discovering, txStart, seen, claims, skipped, late>>

(* The worker dies anywhere; gunicorn starts another in its place. *)
WorkerDies(w) ==
    /\ thread[w] # "off"
    /\ crashes < MaxCrashes
    /\ crashes' = crashes + 1
    /\ thread' = [thread EXCEPT ![w] = "off"]
    /\ wake' = [wake EXCEPT ![w] = 0]
    /\ txStart' = [txStart EXCEPT ![w] = 0]
    /\ seen' = [seen EXCEPT ![w] = {}]
    /\ UNCHANGED <<now, stateRow, nextKey, discovering, claims, skipped, late>>

(* Discoveries come and go; they wait for the exclusive lock. *)
DiscoveryBegins ==
    /\ ~discovering /\ Holders = {}
    /\ discovering' = TRUE
    /\ UNCHANGED <<now, stateRow, nextKey, thread, wake, txStart, seen,
                   claims, skipped, late, crashes>>

DiscoveryEnds ==
    /\ discovering
    /\ discovering' = FALSE
    /\ UNCHANGED <<now, stateRow, nextKey, thread, wake, txStart, seen,
                   claims, skipped, late, crashes>>

(* Every thread has started, one is left, and what is left sleeps for longer. *)
AllAsleep ==
    /\ \A w \in Workers : thread[w] = "gone" \/ (thread[w] = "asleep" /\ now < wake[w])
    /\ \E w \in Workers : thread[w] = "asleep"

Tick ==
    /\ late' = (late \/ ~AllAsleep)
    /\ now < IF late' THEN MaxLate ELSE MaxTime
    /\ now' = now + 1
    /\ UNCHANGED <<stateRow, nextKey, discovering, thread, wake, txStart, seen,
                   claims, skipped, crashes>>

ThreadStep(w) ==
    \/ StartScheduler(w) \/ WakeUp(w) \/ BeginClaim(w) \/ TryLock(w) \/ LockBusy(w)
    \/ ReadDue(w) \/ ReadNotDue(w) \/ CommitClaim(w)
    \/ BeginBatch(w) \/ FullBatch(w) \/ LastBatch(w) \/ SweepFails(w)
    \/ ThreadEnds(w) \/ WorkerDies(w)

Environment == DiscoveryBegins \/ DiscoveryEnds

Next == Tick \/ Environment \/ \E w \in Workers : ThreadStep(w)

Spec == Init /\ [][Next]_vars

-------------------------------------------------------------------------------
(* Every variable has its type. *)
TypeOK ==
    /\ now \in Times
    /\ stateRow \in SUBSET StateRows
    /\ nextKey \in Nat
    /\ discovering \in BOOLEAN
    /\ thread \in [Workers -> {"off", "gone", "asleep", "awake", "begun", "locked", "due",
                               "sweeping", "batch"}]
    /\ wake \in [Workers -> Nat]
    /\ txStart \in [Workers -> Times]
    /\ seen \in [Workers -> SUBSET stateRow]
    /\ claims \in SUBSET Claim
    /\ skipped \in Nat /\ late \in BOOLEAN
    /\ crashes \in 0..MaxCrashes

(* "At most once per interval across all workers" (README.md): any two      *)
(* leases are claimed at least Interval apart, also when a sweep dies after *)
(* its claim, outlasts the interval, or finds no state row to begin with.   *)
LeaseSpacing ==
    \A a, b \in claims :
        a = b \/ a.at - b.at >= Interval \/ b.at - a.at >= Interval

(* The lease is one row: two workers that find none do not both insert one. *)
SingleStateRow == Cardinality(stateRow) <= 1

(* Sweeps keep coming: if threads run when they have something to do, and    *)
(* one of them is left, the next lease is claimed within an interval and one *)
(* poll of the last, plus a poll for each one that found the lock taken and  *)
(* for each failure, death or end of a thread.                               *)
SweepsKeepComing ==
    ~late /\ claims # {} =>
        now < Max({c.at : c \in claims}) + Interval
                + (1 + skipped + crashes) * Min({Interval, PollCap})
===============================================================================
