-------------------------- MODULE CleanupLease_proofs --------------------------
(***************************************************************************)
(* What the lease guarantees for any number of workers, any interval, and  *)
(* any number of failures: at most one sweep per interval.                 *)
(***************************************************************************)
EXTENDS CleanupLease, FiniteSetTheorems, TLAPS

(* One thread at a time is between the try-lock and the end of its           *)
(* transaction, and none while a discovery persists.                         *)
OneHolder ==
    /\ \A v, w \in Holders : v = w
    /\ discovering => Holders = {}

(* A thread runs only where an interval is configured. *)
Scheduled == (\E w \in Workers : thread[w] # "off") => Interval > 0

(* There is one state row at most, and its key comes from the sequence. *)
OneRow == \A a, b \in stateRow : a = b

(* What a thread has read in its transaction is still the row when it saves  *)
(* it, and still due.                                                        *)
SeenIsCurrent ==
    \A w \in Workers :
        /\ thread[w] = "due" => /\ seen[w] = stateRow
                                /\ \A row \in stateRow : Due(row, txStart[w])
        /\ thread[w] # "due" => seen[w] = {}

(* The row has the time of the last lease. *)
ClaimsRecorded ==
    claims # {} => \E row \in stateRow :
        row.lastRun # Never /\ \A c \in claims : c.at <= row.lastRun

IInv ==
    /\ TypeOK
    /\ OneHolder
    /\ Scheduled
    /\ OneRow
    /\ SeenIsCurrent
    /\ ClaimsRecorded
    /\ LeaseSpacing

-------------------------------------------------------------------------------
(* The pause between two polls is a number of seconds. *)
LEMMA PollSecondsType == Interval > 0 => PollSeconds \in Nat \ {0}
<1> SUFFICES ASSUME Interval > 0 PROVE PollSeconds \in Nat \ {0}
  OBVIOUS
<1> USE LeaseAssumption
<1>1. CASE Interval <= PollCap
  BY <1>1 DEF PollSeconds, Min
<1>2. CASE PollCap < Interval
  BY <1>2 DEF PollSeconds, Min
<1> QED
  BY <1>1, <1>2

(* The row with the smallest key is the only one. *)
LEMMA FirstRowIsTheRow == TypeOK /\ OneRow => FirstRow = stateRow
BY DEF TypeOK, OneRow, FirstRow, StateRows

-------------------------------------------------------------------------------
(* The end of a thread's round leaves the invariant as it is. *)
LEMMA SleepKeeps ==
    ASSUME IInv, NEW w \in Workers, thread[w] # "off", Sleep(w),
           UNCHANGED <<now, stateRow, nextKey, discovering, claims, late>>,
           skipped' \in Nat, crashes' \in 0..MaxCrashes
    PROVE  IInv'
<1> USE DEF IInv, Sleep
<1>1. now + PollSeconds \in Nat
  BY PollSecondsType DEF TypeOK, Scheduled, Times
<1>2. TypeOK'
  BY <1>1, LeaseAssumption DEF TypeOK, Times
<1>3. OneHolder' /\ Scheduled' /\ OneRow'
  BY DEF TypeOK, OneHolder, Holders, Scheduled, OneRow
<1>4. SeenIsCurrent' /\ ClaimsRecorded' /\ LeaseSpacing'
  BY DEF TypeOK, SeenIsCurrent, Due, ClaimsRecorded, LeaseSpacing
<1> QED
  BY <1>2, <1>3, <1>4

(* A lease is claimed only when the last one is an interval ago, and its     *)
(* time replaces the last one's.                                             *)
LEMMA CommitClaimKeeps ==
    ASSUME IInv, NEW w \in Workers, CommitClaim(w)
    PROVE  IInv'
<1> DEFINE key == IF seen[w] = {} THEN nextKey ELSE (CHOOSE row \in seen[w] : TRUE).key
           new == [key |-> key, lastRun |-> txStart[w]]
           claim == [worker |-> w, at |-> txStart[w]]
<1> USE DEF IInv
<1>1. /\ thread[w] = "due" /\ seen[w] = stateRow
      /\ \A row \in stateRow : Due(row, txStart[w])
      /\ Interval \in Nat \ {0}
  BY LeaseAssumption DEF CommitClaim, SeenIsCurrent, Scheduled
<1>2. txStart[w] \in Nat /\ txStart[w] \in Times /\ key \in Nat
  BY <1>1, LeaseAssumption DEF TypeOK, Times, StateRows
<1>3. /\ stateRow' = {new}
      /\ claims' = claims \union {claim}
      /\ thread' = [thread EXCEPT ![w] = "sweeping"]
      /\ seen' = [seen EXCEPT ![w] = {}]
  BY <1>1 DEF CommitClaim
<1>4. \A v \in Workers : v # w => thread[v] \notin {"locked", "due", "batch"}
  BY <1>1 DEF OneHolder, Holders
<1>5. \A v \in Workers : seen'[v] = {}
  BY <1>3, <1>4, Zenon DEF TypeOK, SeenIsCurrent
<1>6. TypeOK'
  <2>1. new \in StateRows /\ claim \in Claim
    BY <1>2 DEF StateRows, Claim
  <2>2. nextKey' \in Nat
    BY DEF CommitClaim, TypeOK
  <2>3. seen' \in [Workers -> SUBSET stateRow']
    BY <1>3, <1>5 DEF TypeOK
  <2>4. txStart' \in [Workers -> Times]
    BY LeaseAssumption DEF CommitClaim, TypeOK, Times
  <2> QED
    BY <1>3, <2>1, <2>2, <2>3, <2>4 DEF CommitClaim, TypeOK
<1>7. OneHolder' /\ Scheduled' /\ OneRow'
  BY <1>1, <1>3, <1>4 DEF CommitClaim, OneHolder, Holders, Scheduled, OneRow, TypeOK
<1>8. SeenIsCurrent'
  BY <1>3, <1>4, <1>5 DEF SeenIsCurrent, TypeOK
<1>9. \A c \in claims : c.at \in Nat /\ txStart[w] - c.at >= Interval
  <2> SUFFICES ASSUME NEW c \in claims PROVE c.at \in Nat /\ txStart[w] - c.at >= Interval
    OBVIOUS
  <2>1. PICK row \in stateRow : row.lastRun # Never /\ c.at <= row.lastRun
    BY DEF ClaimsRecorded
  <2>2. c.at \in Nat /\ row.lastRun \in Nat
    BY <2>1 DEF TypeOK, Claim, StateRows, Times
  <2>3. txStart[w] - row.lastRun >= Interval
    BY <1>1, <2>1 DEF Due
  <2> QED
    BY <1>1, <1>2, <2>1, <2>2, <2>3
<1>10. ClaimsRecorded'
  <2>1. new \in stateRow' /\ new.lastRun # Never
    BY <1>2, <1>3, LeaseAssumption
  <2>2. \A c \in claims' : c.at <= new.lastRun
    BY <1>1, <1>2, <1>3, <1>9
  <2> QED
    BY <2>1, <2>2 DEF ClaimsRecorded
<1>11. LeaseSpacing'
  BY <1>3, <1>9 DEF LeaseSpacing
<1> QED
  BY <1>6, <1>7, <1>8, <1>10, <1>11

-------------------------------------------------------------------------------
LEMMA InitIInv == Init => IInv
<1> SUFFICES ASSUME Init PROVE IInv
  OBVIOUS
<1> USE DEF Init
<1>1. TypeOK
  <2>1. 0 \in Times
    BY LeaseAssumption DEF Times
  <2>2. [key |-> 1, lastRun |-> Never] \in StateRows
    BY DEF StateRows
  <2>3. stateRow \in SUBSET StateRows
    BY <2>2
  <2>4. crashes \in 0..MaxCrashes
    BY LeaseAssumption
  <2> QED
    BY <2>1, <2>3, <2>4 DEF TypeOK
<1>2. OneHolder /\ Scheduled /\ OneRow
  BY DEF OneHolder, Holders, Scheduled, OneRow
<1>3. SeenIsCurrent /\ ClaimsRecorded /\ LeaseSpacing
  BY DEF SeenIsCurrent, ClaimsRecorded, LeaseSpacing
<1> QED
  BY <1>1, <1>2, <1>3 DEF IInv

(* A statement that changes neither the row nor a lease. *)
LEMMA StatementKeeps ==
    ASSUME IInv, NEW w \in Workers, NEW place \in {"awake", "begun", "sweeping", "batch"},
           thread[w] # "off" \/ Interval > 0,
           thread' = [thread EXCEPT ![w] = place], place = "batch" => ~discovering /\ Holders = {},
           thread[w] # "due",
           UNCHANGED <<now, stateRow, nextKey, discovering, seen, claims, skipped, late, crashes>>,
           wake' \in [Workers -> Nat], txStart' \in [Workers -> Times],
           \A v \in Workers : v # w => txStart'[v] = txStart[v]
    PROVE  IInv'
<1> USE DEF IInv
<1>1. TypeOK' /\ OneRow' /\ ClaimsRecorded' /\ LeaseSpacing'
  BY DEF TypeOK, OneRow, ClaimsRecorded, LeaseSpacing
<1>2. OneHolder' /\ Scheduled'
  BY DEF TypeOK, OneHolder, Holders, Scheduled
<1>3. SeenIsCurrent'
  BY DEF TypeOK, SeenIsCurrent, Due
<1> QED
  BY <1>1, <1>2, <1>3

(* Every step keeps the invariant. *)
LEMMA NextIInv == IInv /\ [Next]_vars => IInv'
<1> SUFFICES ASSUME IInv, [Next]_vars PROVE IInv'
  OBVIOUS
<1> USE LeaseAssumption
<1>1. ASSUME NEW w \in Workers,
             StartScheduler(w) \/ WakeUp(w) \/ BeginClaim(w) \/ BeginBatch(w) \/ FullBatch(w)
      PROVE  IInv'
  <2>1. CASE StartScheduler(w)
    BY <2>1, StatementKeeps DEF StartScheduler, IInv, TypeOK
  <2>2. CASE WakeUp(w)
    BY <2>2, StatementKeeps DEF WakeUp, IInv, TypeOK
  <2>3. CASE BeginClaim(w)
    BY <2>3, StatementKeeps DEF BeginClaim, IInv, TypeOK
  <2>4. CASE BeginBatch(w)
    BY <2>4, StatementKeeps DEF BeginBatch, IInv, TypeOK
  <2>5. CASE FullBatch(w)
    BY <2>5, StatementKeeps DEF FullBatch, IInv, TypeOK
  <2> QED
    BY <1>1, <2>1, <2>2, <2>3, <2>4, <2>5
<1>2. ASSUME NEW w \in Workers, TryLock(w) PROVE IInv'
  <2> USE <1>2 DEF IInv, TryLock
  <2>1. TypeOK' /\ OneRow' /\ ClaimsRecorded' /\ LeaseSpacing'
    BY DEF TypeOK, OneRow, ClaimsRecorded, LeaseSpacing
  <2>2. OneHolder' /\ Scheduled'
    BY DEF TypeOK, OneHolder, Holders, Scheduled
  <2>3. SeenIsCurrent'
    BY DEF TypeOK, SeenIsCurrent, Due
  <2> QED
    BY <2>1, <2>2, <2>3
<1>3. ASSUME NEW w \in Workers, ReadDue(w) PROVE IInv'
  <2> USE <1>3 DEF IInv, ReadDue
  <2>1. FirstRow = stateRow
    BY FirstRowIsTheRow
  <2>2. TypeOK' /\ OneRow' /\ ClaimsRecorded' /\ LeaseSpacing'
    BY <2>1 DEF TypeOK, OneRow, ClaimsRecorded, LeaseSpacing
  <2>3. OneHolder' /\ Scheduled'
    BY DEF TypeOK, OneHolder, Holders, Scheduled
  <2>4. SeenIsCurrent'
    BY <2>1 DEF TypeOK, SeenIsCurrent, Due
  <2> QED
    BY <2>2, <2>3, <2>4
<1>4. ASSUME NEW w \in Workers, CommitClaim(w) PROVE IInv'
  BY <1>4, CommitClaimKeeps
<1>5. ASSUME NEW w \in Workers, LockBusy(w) \/ ReadNotDue(w) \/ LastBatch(w) \/ SweepFails(w)
      PROVE  IInv'
  <2>1. thread[w] # "off" /\ Sleep(w)
        /\ UNCHANGED <<now, stateRow, nextKey, discovering, claims, late>>
    BY <1>5 DEF LockBusy, ReadNotDue, LastBatch, SweepFails
  <2>2. skipped' \in Nat /\ crashes' \in 0..MaxCrashes
    BY <1>5 DEF IInv, TypeOK, LockBusy, ReadNotDue, LastBatch, SweepFails
  <2> QED
    BY <2>1, <2>2, SleepKeeps
<1>6. ASSUME NEW w \in Workers, ThreadEnds(w) \/ WorkerDies(w) PROVE IInv'
  <2> USE <1>6 DEF IInv, ThreadEnds, WorkerDies
  <2>1. TypeOK' /\ OneRow' /\ ClaimsRecorded' /\ LeaseSpacing'
    BY DEF TypeOK, Times, OneRow, ClaimsRecorded, LeaseSpacing
  <2>2. OneHolder' /\ Scheduled'
    BY DEF TypeOK, OneHolder, Holders, Scheduled
  <2>3. SeenIsCurrent'
    BY DEF TypeOK, SeenIsCurrent, Due
  <2> QED
    BY <2>1, <2>2, <2>3
<1>7. CASE DiscoveryBegins \/ DiscoveryEnds \/ Tick \/ UNCHANGED vars
  <2>1. UNCHANGED <<stateRow, nextKey, thread, wake, txStart, seen, claims, skipped, crashes>>
    BY <1>7 DEF DiscoveryBegins, DiscoveryEnds, Tick, vars
  <2>2. now' \in Times /\ discovering' \in BOOLEAN /\ late' \in BOOLEAN
    <3>1. CASE Tick
      <4>1. late' \in BOOLEAN /\ discovering' \in BOOLEAN
        BY <3>1 DEF IInv, TypeOK, Tick
      <4>2. now < MaxTime
        <5>1. CASE late'
          BY <3>1, <5>1, LeaseAssumption DEF IInv, TypeOK, Times, Tick
        <5>2. CASE ~late'
          BY <3>1, <5>2 DEF Tick
        <5> QED
          BY <5>1, <5>2
      <4>3. now' \in Times
        BY <3>1, <4>2, LeaseAssumption DEF IInv, TypeOK, Times, Tick
      <4> QED
        BY <4>1, <4>3
    <3>2. CASE DiscoveryBegins \/ DiscoveryEnds \/ UNCHANGED vars
      BY <3>2 DEF IInv, TypeOK, DiscoveryBegins, DiscoveryEnds, vars
    <3> QED
      BY <1>7, <3>1, <3>2
  <2>3. discovering' => Holders' = {}
    BY <1>7, <2>1 DEF IInv, OneHolder, Holders, DiscoveryBegins, DiscoveryEnds, Tick, vars
  <2> QED
    BY <2>1, <2>2, <2>3
    DEF IInv, TypeOK, OneHolder, Holders, Scheduled, OneRow, SeenIsCurrent, Due,
        ClaimsRecorded, LeaseSpacing, StateRows
<1> QED
  BY <1>1, <1>2, <1>3, <1>4, <1>5, <1>6, <1>7 DEF Next, Environment, ThreadStep

(* Every behaviour of the schedule satisfies the inductive invariant. *)
THEOREM Invariant == Spec => []IInv
BY InitIInv, NextIInv, PTL DEF Spec

-------------------------------------------------------------------------------
(* Every variable keeps its type. *)
THEOREM TypeCorrect == Spec => []TypeOK
BY Invariant, PTL DEF IInv

(* "At most once per interval across all workers": no two leases are claimed *)
(* less than an interval apart, however many workers poll, die or fail.      *)
THEOREM SpacingHolds == Spec => []LeaseSpacing
BY Invariant, PTL DEF IInv

(* Two workers that find no state row do not both insert one. *)
THEOREM StateRowIsSingle == Spec => []SingleStateRow
<1>1. IInv => SingleStateRow
  <2> SUFFICES ASSUME IInv PROVE SingleStateRow
    OBVIOUS
  <2>1. CASE stateRow = {}
    BY <2>1, FS_EmptySet DEF SingleStateRow
  <2>2. ASSUME NEW row \in stateRow PROVE SingleStateRow
    <3>1. stateRow = {row}
      BY DEF IInv, OneRow
    <3>2. Cardinality({row}) = 1
      BY FS_Singleton
    <3> QED
      BY <3>1, <3>2 DEF SingleStateRow
  <2> QED
    BY <2>1, <2>2
<1> QED
  BY <1>1, Invariant, PTL

-------------------------------------------------------------------------------
(* While no thread is late, time passes only as threads sleep: what a thread *)
(* does happens at one time, and each sleep ends before the next lease is    *)
(* overdue.                                                                  *)
Deadline(time) == time + Interval + (1 + skipped + crashes) * PollSeconds
Asleep(w) == thread[w] = "asleep"

AtOnce ==
    /\ \A w \in Workers : thread[w] \in {"begun", "locked", "due"} => txStart[w] = now
    /\ \A w \in Workers : thread[w] \in {"sweeping", "batch"} => \E c \in claims : c.at = now
    /\ \A c \in claims : c.at <= now
    /\ \A w \in Workers : Asleep(w) => wake[w] <= now + PollSeconds

InTime ==
    claims # {} => \A row \in stateRow :
        /\ \E c \in claims : c.at = row.lastRun
        /\ now < Deadline(row.lastRun)
        /\ \A w \in Workers : Asleep(w) => wake[w] < Deadline(row.lastRun)

Timely == ~late => AtOnce /\ InTime

LEMMA Slack ==
    ASSUME Interval > 0, skipped \in Nat, crashes \in Nat
    PROVE  /\ (1 + skipped + crashes) * PollSeconds \in Nat
           /\ PollSeconds <= (1 + skipped + crashes) * PollSeconds
           /\ (1 + (skipped + 1) + crashes) * PollSeconds
                = (1 + skipped + crashes) * PollSeconds + PollSeconds
           /\ (1 + skipped + (crashes + 1)) * PollSeconds
                = (1 + skipped + crashes) * PollSeconds + PollSeconds
           /\ PollSeconds <= (1 + 0 + crashes) * PollSeconds
<1>1. PollSeconds \in Nat
  BY PollSecondsType
<1>2. \A n, p \in Nat : n * p \in Nat /\ (n + 1) * p = n * p + p
  OBVIOUS
<1> HIDE DEF PollSeconds
<1>3. (skipped + crashes) * PollSeconds \in Nat /\ (0 + crashes) * PollSeconds \in Nat
  BY <1>1, <1>2
<1>4. /\ (1 + skipped + crashes) = (skipped + crashes) + 1
      /\ (1 + (skipped + 1) + crashes) = (1 + skipped + crashes) + 1
      /\ (1 + skipped + (crashes + 1)) = (1 + skipped + crashes) + 1
      /\ (1 + 0 + crashes) = (0 + crashes) + 1
  OBVIOUS
<1>5. (skipped + crashes) \in Nat /\ (1 + skipped + crashes) \in Nat /\ (0 + crashes) \in Nat
  OBVIOUS
<1> QED
  BY <1>1, <1>2, <1>3, <1>4, <1>5

(* The values that the times of the invariant have. *)
LEMMA TimeTypes ==
    ASSUME IInv
    PROVE  /\ now \in Nat /\ skipped \in Nat /\ crashes \in Nat
           /\ \A w \in Workers : wake[w] \in Nat /\ txStart[w] \in Nat
           /\ \A c \in claims : c.at \in Nat
           /\ \A w \in Workers : thread[w] # "off" => Interval \in Nat \ {0}
           /\ \A row \in stateRow : row.lastRun # Never => row.lastRun \in Nat
           /\ \A row, other \in stateRow : row = other
<1>1. TypeOK /\ Scheduled /\ OneRow
  BY DEF IInv
<1>2. Times \subseteq Nat
  BY LeaseAssumption DEF Times
<1>3. crashes \in Nat
  BY <1>1, LeaseAssumption DEF TypeOK
<1>4. \A w \in Workers : thread[w] # "off" => Interval \in Nat \ {0}
  BY <1>1, LeaseAssumption DEF Scheduled
<1>5. \A c \in claims : c.at \in Nat
  BY <1>1, <1>2 DEF TypeOK, Claim
<1>6. \A row \in stateRow : row.lastRun # Never => row.lastRun \in Nat
  BY <1>1, <1>2 DEF TypeOK, StateRows
<1> QED
  BY <1>1, <1>2, <1>3, <1>4, <1>5, <1>6 DEF TypeOK, OneRow

(* A thread that goes to sleep does so in time. *)
LEMMA SleepInTime ==
    ASSUME IInv, Timely, NEW w \in Workers, thread[w] # "off", Sleep(w),
           UNCHANGED <<now, stateRow, claims, late>>,
           \/ skipped' = skipped + 1 /\ crashes' = crashes
           \/ skipped' = skipped /\ crashes' = crashes + 1
           \/ /\ skipped' = skipped /\ crashes' = crashes
              /\ ~late => \A row \in stateRow : claims # {} => now - row.lastRun < Interval
    PROVE  Timely'
<1> SUFFICES ASSUME ~late' PROVE AtOnce' /\ InTime'
  BY DEF Timely
<1>0. ~late /\ AtOnce /\ InTime /\ TypeOK
  BY DEF Timely, IInv
<1>1. Interval \in Nat \ {0} /\ PollSeconds \in Nat \ {0}
  BY TimeTypes, PollSecondsType
<1>2. \A v \in Workers : v # w => /\ thread'[v] = thread[v] /\ wake'[v] = wake[v]
                                  /\ txStart'[v] = txStart[v]
  BY <1>0 DEF TypeOK, Sleep
<1>3. thread'[w] = "asleep" /\ wake'[w] = now + PollSeconds
  BY <1>0 DEF TypeOK, Sleep
<1> HIDE DEF PollSeconds
<1>4. PollSeconds' = PollSeconds
  BY DEF PollSeconds
<1>5. AtOnce'
  <2>1. ASSUME NEW v \in Workers
        PROVE  /\ thread'[v] \in {"begun", "locked", "due"} => txStart'[v] = now'
               /\ thread'[v] \in {"sweeping", "batch"} => \E c \in claims' : c.at = now'
               /\ thread'[v] = "asleep" => wake'[v] <= now' + PollSeconds
    BY <1>0, <1>1, <1>2, <1>3, TimeTypes DEF AtOnce, Asleep
  <2>2. \A c \in claims' : c.at <= now'
    BY <1>0 DEF AtOnce
  <2> QED
    BY <2>1, <2>2, <1>4 DEF AtOnce, Asleep
<1>6. ASSUME NEW row \in stateRow, claims # {}
      PROVE  /\ \E c \in claims : c.at = row.lastRun
             /\ now < Deadline(row.lastRun)'
             /\ \A v \in Workers : thread'[v] = "asleep" => wake'[v] < Deadline(row.lastRun)'
  <2>1. /\ \E c \in claims : c.at = row.lastRun
        /\ now < Deadline(row.lastRun)
        /\ \A v \in Workers : Asleep(v) => wake[v] < Deadline(row.lastRun)
    BY <1>0, <1>6 DEF InTime
  <2>2. /\ row.lastRun \in Nat /\ now \in Nat /\ skipped \in Nat /\ crashes \in Nat
        /\ \A v \in Workers : wake[v] \in Nat
    BY <2>1, TimeTypes
  <2> DEFINE slack == (1 + skipped + crashes) * PollSeconds
  <2>3. slack \in Nat /\ PollSeconds <= slack
    BY <1>1, <2>2, Slack
  <2>4. Deadline(row.lastRun) = row.lastRun + Interval + slack
    BY DEF Deadline
  <2>5. CASE Deadline(row.lastRun)' = row.lastRun + Interval + (slack + PollSeconds)
    <3> HIDE DEF slack
    <3> QED
      BY <1>1, <1>2, <1>3, <2>1, <2>2, <2>3, <2>4, <2>5 DEF Asleep
  <2>6. CASE /\ Deadline(row.lastRun)' = row.lastRun + Interval + slack
             /\ now - row.lastRun < Interval
    <3> HIDE DEF slack
    <3> QED
      BY <1>1, <1>2, <1>3, <2>1, <2>2, <2>3, <2>4, <2>6 DEF Asleep
  <2>7. CASE skipped' = skipped + 1 /\ crashes' = crashes
    BY <1>1, <1>4, <2>2, <2>5, <2>7, Slack DEF Deadline
  <2>8. CASE skipped' = skipped /\ crashes' = crashes + 1
    BY <1>1, <1>4, <2>2, <2>5, <2>8, Slack DEF Deadline
  <2>9. CASE skipped' = skipped /\ crashes' = crashes /\ now - row.lastRun < Interval
    BY <1>4, <2>6, <2>9 DEF Deadline
  <2> QED
    BY <1>0, <1>6, <2>7, <2>8, <2>9
<1>7. InTime'
  BY <1>6 DEF InTime, Asleep, Deadline
<1> QED
  BY <1>5, <1>7

(* A statement takes no time. *)
LEMMA StatementInTime ==
    ASSUME IInv, Timely, NEW w \in Workers, NEW place, place # "asleep",
           thread' = [thread EXCEPT ![w] = place],
           \A v \in Workers : v # w => wake'[v] = wake[v] /\ txStart'[v] = txStart[v],
           place \in {"begun", "locked", "due"} =>
               \/ txStart'[w] = now
               \/ thread[w] \in {"begun", "locked", "due"} /\ txStart'[w] = txStart[w],
           place \in {"sweeping", "batch"} => thread[w] \in {"sweeping", "batch"},
           UNCHANGED <<now, stateRow, claims, skipped, late>>,
           crashes' = crashes \/ (crashes' = crashes + 1 /\ thread[w] # "off")
    PROVE  Timely'
<1> SUFFICES ASSUME ~late' PROVE AtOnce' /\ InTime'
  BY DEF Timely
<1>0. ~late /\ AtOnce /\ InTime /\ TypeOK
  BY DEF Timely, IInv
<1>1. /\ \A v \in Workers : v # w => thread'[v] = thread[v]
      /\ thread'[w] = place
  BY <1>0 DEF TypeOK
<1>2. PollSeconds' = PollSeconds
  BY DEF PollSeconds
<1> HIDE DEF PollSeconds
<1>3. AtOnce'
  BY <1>0, <1>1, <1>2 DEF AtOnce, Asleep
<1>4. ASSUME NEW row \in stateRow, claims # {}
      PROVE  /\ \E c \in claims : c.at = row.lastRun
             /\ now < Deadline(row.lastRun)'
             /\ \A v \in Workers : thread'[v] = "asleep" => wake'[v] < Deadline(row.lastRun)'
  <2>1. /\ \E c \in claims : c.at = row.lastRun
        /\ now < Deadline(row.lastRun)
        /\ \A v \in Workers : Asleep(v) => wake[v] < Deadline(row.lastRun)
    BY <1>0, <1>4 DEF InTime
  <2>2. CASE crashes' = crashes
    BY <1>1, <1>2, <2>1, <2>2 DEF Deadline, Asleep
  <2>3. CASE crashes' = crashes + 1 /\ thread[w] # "off"
    <3> DEFINE slack == (1 + skipped + crashes) * PollSeconds
    <3>1. /\ row.lastRun \in Nat /\ now \in Nat /\ skipped \in Nat /\ crashes \in Nat
          /\ \A v \in Workers : wake[v] \in Nat
      BY <2>1, TimeTypes
    <3>2. Interval \in Nat \ {0} /\ PollSeconds \in Nat \ {0}
      BY <2>3, TimeTypes, PollSecondsType
    <3>3. slack \in Nat /\ Deadline(row.lastRun) = row.lastRun + Interval + slack
      BY <3>1, <3>2, Slack DEF Deadline
    <3>4. Deadline(row.lastRun)' = row.lastRun + Interval + (slack + PollSeconds)
      BY <1>2, <2>3, <3>1, <3>2, Slack DEF Deadline
    <3> HIDE DEF slack
    <3> QED
      BY <1>1, <2>1, <3>1, <3>2, <3>3, <3>4 DEF Asleep
  <2> QED
    BY <2>2, <2>3
<1>5. InTime'
  BY <1>4 DEF InTime, Asleep, Deadline
<1> QED
  BY <1>3, <1>5

(* A lease is claimed at the time it is: all the deadline is still to come.  *)
LEMMA ClaimInTime == ASSUME IInv, Timely, NEW w \in Workers, CommitClaim(w) PROVE Timely'
<1> SUFFICES ASSUME ~late' PROVE AtOnce' /\ InTime'
  BY DEF Timely
<1>0. ~late /\ AtOnce /\ TypeOK /\ thread[w] = "due" /\ UNCHANGED <<now, wake, crashes>>
  BY DEF Timely, IInv, CommitClaim
<1>1. txStart[w] = now
  BY <1>0 DEF AtOnce
<1>2. /\ \A row \in stateRow' : row.lastRun = now
      /\ \E c \in claims' : c.at = now
      /\ \A c \in claims' : c \in claims \/ c.at = now
      /\ claims \subseteq claims'
  <2>1. seen[w] = stateRow
    BY <1>0 DEF IInv, SeenIsCurrent
  <2>2. PICK key : stateRow' = (stateRow \ seen[w]) \union {[key |-> key, lastRun |-> txStart[w]]}
    BY DEF CommitClaim
  <2>3. claims' = claims \union {[worker |-> w, at |-> txStart[w]]}
    BY DEF CommitClaim
  <2>4. \A row \in stateRow' : row = [key |-> key, lastRun |-> txStart[w]]
    BY <2>1, <2>2
  <2>5. \A row \in stateRow' : row.lastRun = now
    BY <1>1, <2>4
  <2>6. [worker |-> w, at |-> txStart[w]].at = now
    BY <1>1
  <2> QED
    BY <2>3, <2>5, <2>6
<1>3. /\ \A v \in Workers : v # w => thread'[v] = thread[v] /\ txStart'[v] = txStart[v]
      /\ thread'[w] = "sweeping"
  BY <1>0 DEF TypeOK, CommitClaim
<1>4. PollSeconds' = PollSeconds
  BY DEF PollSeconds
<1>5. /\ Interval \in Nat \ {0} /\ PollSeconds \in Nat \ {0} /\ crashes \in Nat /\ now \in Nat
      /\ \A v \in Workers : wake[v] \in Nat
  BY <1>0, TimeTypes, PollSecondsType
<1> HIDE DEF PollSeconds
<1>6. AtOnce'
  <2>1. \A v \in Workers : thread'[v] \in {"begun", "locked", "due"} => txStart'[v] = now'
    BY <1>0, <1>3 DEF AtOnce
  <2>2. \A v \in Workers : thread'[v] \in {"sweeping", "batch"} => \E c \in claims' : c.at = now'
    BY <1>0, <1>2
  <2>3. \A c \in claims' : c.at <= now'
    BY <1>0, <1>2, <1>5 DEF AtOnce
  <2>4. \A v \in Workers : Asleep(v)' => wake'[v] <= now' + PollSeconds
    BY <1>0, <1>3 DEF AtOnce, Asleep
  <2> QED
    BY <1>4, <2>1, <2>2, <2>3, <2>4 DEF AtOnce
<1>7. skipped' = 0 /\ Deadline(now)' = now + Interval + (1 + 0 + crashes) * PollSeconds
  BY <1>0, <1>4 DEF Deadline, CommitClaim
<1> DEFINE slack == (1 + 0 + crashes) * PollSeconds
<1>8. slack \in Nat /\ PollSeconds <= slack
  <2>1. \A n, p \in Nat : n * p \in Nat /\ (1 + 0 + n) * p = n * p + p
    OBVIOUS
  <2>2. crashes * PollSeconds \in Nat /\ slack = crashes * PollSeconds + PollSeconds
    BY <1>5, <2>1
  <2> QED
    BY <1>5, <2>2
<1> HIDE DEF slack
<1>9. /\ now' < Deadline(now)'
      /\ \A v \in Workers : thread'[v] = "asleep" => wake'[v] < Deadline(now)'
  <2>1. Deadline(now)' = now + Interval + slack
    BY <1>7 DEF slack
  <2> QED
    BY <1>0, <1>3, <1>5, <1>8, <2>1 DEF AtOnce, Asleep
<1>10. InTime'
  <2> SUFFICES ASSUME NEW row \in stateRow'
               PROVE  /\ \E c \in claims' : c.at = row.lastRun
                      /\ now' < Deadline(row.lastRun)'
                      /\ \A v \in Workers : Asleep(v)' => wake'[v] < Deadline(row.lastRun)'
    BY DEF InTime, Deadline, Asleep
  <2>1. row.lastRun = now /\ now' = now
    BY <1>0, <1>2
  <2>2. Deadline(row.lastRun)' = Deadline(now)'
    BY <2>1 DEF Deadline
  <2> QED
    BY <1>2, <1>9, <2>1, <2>2 DEF Asleep
<1> QED
  BY <1>6, <1>10

(* The clock only moves while all threads sleep, none of them past its end.  *)
LEMMA TickInTime == ASSUME IInv, Timely, Tick PROVE Timely'
<1> SUFFICES ASSUME ~late' PROVE AtOnce' /\ InTime'
  BY DEF Timely
<1>0. /\ ~late /\ AtOnce /\ InTime /\ now' = now + 1
      /\ \A w \in Workers : thread[w] \in {"gone", "asleep"} /\ (Asleep(w) => now < wake[w])
      /\ \E w \in Workers : Asleep(w)
      /\ UNCHANGED <<stateRow, thread, wake, txStart, claims, skipped, crashes>>
  BY DEF Timely, IInv, Tick, AllAsleep, Asleep
<1>1. PollSeconds' = PollSeconds
  BY DEF PollSeconds
<1>2. AtOnce'
  <2>1. \A c \in claims' : c.at <= now'
    BY <1>0, TimeTypes DEF AtOnce
  <2>2. ASSUME NEW w \in Workers, Asleep(w) PROVE wake'[w] <= now' + PollSeconds
    <3>1. PollSeconds \in Nat
      BY <1>0, PollSecondsType, TimeTypes
    <3> HIDE DEF PollSeconds
    <3> QED
      BY <1>0, <2>2, <3>1, TimeTypes DEF AtOnce
  <2> QED
    BY <1>0, <1>1, <2>1, <2>2 DEF AtOnce, Asleep
<1> HIDE DEF PollSeconds
<1>3. InTime'
  <2> SUFFICES ASSUME NEW row \in stateRow, claims # {}
               PROVE  /\ \E c \in claims : c.at = row.lastRun
                      /\ now + 1 < Deadline(row.lastRun)
                      /\ \A w \in Workers : Asleep(w) => wake[w] < Deadline(row.lastRun)
    BY <1>0, <1>1 DEF InTime, Deadline, Asleep
  <2>1. /\ \E c \in claims : c.at = row.lastRun
        /\ \A w \in Workers : Asleep(w) => wake[w] < Deadline(row.lastRun)
    BY <1>0 DEF InTime
  <2>2. PICK w \in Workers : Asleep(w)
    BY <1>0
  <2>3. now + 1 <= wake[w] /\ wake[w] \in Nat /\ now \in Nat /\ Interval \in Nat \ {0}
    BY <1>0, <2>2, TimeTypes DEF Asleep
  <2>4. Deadline(row.lastRun) \in Nat
    <3>1. row.lastRun \in Nat /\ skipped \in Nat /\ crashes \in Nat
      BY <2>1, TimeTypes
    <3>2. (1 + skipped + crashes) * PollSeconds \in Nat
      BY <2>3, <3>1, Slack
    <3> QED
      BY <2>3, <3>1, <3>2 DEF Deadline
  <2> QED
    BY <2>1, <2>2, <2>3, <2>4
<1> QED
  BY <1>2, <1>3

LEMMA InitTimely == Init => Timely
BY DEF Init, Timely, AtOnce, InTime, Asleep

LEMMA NextTimely == IInv /\ Timely /\ [Next]_vars => Timely'
<1> SUFFICES ASSUME IInv, Timely, [Next]_vars PROVE Timely'
  OBVIOUS
<1>0. TypeOK
  BY DEF IInv
<1>1. ASSUME NEW w \in Workers,
             \/ StartScheduler(w) \/ WakeUp(w) \/ BeginClaim(w) \/ TryLock(w) \/ ReadDue(w)
             \/ BeginBatch(w) \/ FullBatch(w) \/ ThreadEnds(w) \/ WorkerDies(w)
      PROVE  Timely'
  <2>1. CASE StartScheduler(w)
    BY <1>0, <2>1, StatementInTime DEF StartScheduler
  <2>2. CASE WakeUp(w)
    BY <1>0, <2>2, StatementInTime DEF WakeUp, TypeOK
  <2>3. CASE BeginClaim(w)
    <3>1. /\ thread' = [thread EXCEPT ![w] = "begun"] /\ txStart'[w] = now
          /\ \A v \in Workers : v # w => wake'[v] = wake[v] /\ txStart'[v] = txStart[v]
      BY <1>0, <2>3 DEF BeginClaim, TypeOK
    <3> QED
      BY <2>3, <3>1, StatementInTime DEF BeginClaim
  <2>4. CASE TryLock(w)
    BY <1>0, <2>4, StatementInTime DEF TryLock
  <2>5. CASE ReadDue(w)
    BY <1>0, <2>5, StatementInTime DEF ReadDue
  <2>6. CASE BeginBatch(w)
    BY <1>0, <2>6, StatementInTime DEF BeginBatch
  <2>7. CASE FullBatch(w)
    BY <1>0, <2>7, StatementInTime DEF FullBatch
  <2>8. CASE WorkerDies(w)
    BY <1>0, <2>8, StatementInTime DEF WorkerDies, TypeOK
  <2>9. CASE ThreadEnds(w)
    BY <1>0, <2>9, StatementInTime DEF ThreadEnds, TypeOK
  <2> QED
    BY <1>1, <2>1, <2>2, <2>3, <2>4, <2>5, <2>6, <2>7, <2>8, <2>9
<1>2. ASSUME NEW w \in Workers, CommitClaim(w) PROVE Timely'
  BY <1>2, ClaimInTime
<1>3. ASSUME NEW w \in Workers, LockBusy(w) PROVE Timely'
  BY <1>3, SleepInTime DEF LockBusy
<1>4. ASSUME NEW w \in Workers, SweepFails(w) PROVE Timely'
  BY <1>4, SleepInTime DEF SweepFails
<1>5. ASSUME NEW w \in Workers, ReadNotDue(w) PROVE Timely'
  <2>1. \E row \in stateRow : ~Due(row, txStart[w])
    BY <1>0, <1>5, FirstRowIsTheRow DEF ReadNotDue, IInv
  <2>2. ~late => \A row \in stateRow : claims # {} => now - row.lastRun < Interval
    <3> SUFFICES ASSUME ~late, NEW row \in stateRow, claims # {} PROVE now - row.lastRun < Interval
      OBVIOUS
    <3>1. txStart[w] = now
      BY <1>5 DEF ReadNotDue, Timely, AtOnce
    <3>2. ~Due(row, now)
      BY <2>1, <3>1, TimeTypes
    <3>3. row.lastRun \in Nat /\ now \in Nat /\ Interval \in Int
      BY <3>2, TimeTypes, LeaseAssumption DEF Due
    <3> QED
      BY <3>2, <3>3 DEF Due
  <2> QED
    BY <1>5, <2>2, SleepInTime DEF ReadNotDue
<1>6. ASSUME NEW w \in Workers, LastBatch(w) PROVE Timely'
  <2>1. ~late => \A row \in stateRow : claims # {} => now - row.lastRun < Interval
    <3> SUFFICES ASSUME ~late, NEW row \in stateRow, claims # {} PROVE now - row.lastRun < Interval
      OBVIOUS
    <3>1. AtOnce /\ InTime
      BY DEF Timely
    <3>2. PICK c \in claims : c.at = now
      BY <1>6, <3>1 DEF LastBatch, AtOnce
    <3>3. PICK d \in claims : d.at = row.lastRun
      BY <3>1 DEF InTime
    <3>4. c.at <= row.lastRun /\ d.at <= now
      BY <3>1, TimeTypes DEF IInv, ClaimsRecorded, AtOnce
    <3>5. Interval \in Nat \ {0} /\ now \in Nat /\ row.lastRun \in Nat
      BY <1>6, <3>3, TimeTypes DEF LastBatch
    <3> QED
      BY <3>2, <3>3, <3>4, <3>5
  <2> QED
    BY <1>6, <2>1, SleepInTime DEF LastBatch
<1>7. CASE Tick
  BY <1>7, TickInTime
<1>8. CASE DiscoveryBegins \/ DiscoveryEnds \/ UNCHANGED vars
  <2>1. UNCHANGED <<now, stateRow, thread, wake, txStart, claims, skipped, late, crashes>>
    BY <1>8 DEF DiscoveryBegins, DiscoveryEnds, vars
  <2> QED
    BY <2>1 DEF Timely, AtOnce, InTime, Deadline, Asleep, PollSeconds
<1> QED
  BY <1>1, <1>2, <1>3, <1>4, <1>5, <1>6, <1>7, <1>8 DEF Next, Environment, ThreadStep

(* The latest lease is the one the row records. *)
LEMMA TimelySweeps == IInv /\ Timely => SweepsKeepComing
<1> SUFFICES ASSUME IInv, Timely, ~late, claims # {}
             PROVE  now < Max({c.at : c \in claims}) + Interval
                            + (1 + skipped + crashes) * Min({Interval, PollCap})
  BY DEF SweepsKeepComing
<1>1. PICK row \in stateRow : row.lastRun # Never /\ \A c \in claims : c.at <= row.lastRun
  BY DEF IInv, ClaimsRecorded
<1>2. row.lastRun \in {c.at : c \in claims} /\ now < Deadline(row.lastRun)
  BY <1>1 DEF Timely, InTime
<1>3. \A c \in claims : c.at \in Nat
  BY TimeTypes
<1>4. Max({c.at : c \in claims}) = row.lastRun
  <2> DEFINE times == {c.at : c \in claims}
  <2>1. \A t \in times : t \in Nat /\ t <= row.lastRun
    BY <1>1, <1>3
  <2>2. row.lastRun \in times
    BY <1>2
  <2> HIDE DEF times
  <2>3. Max(times) \in times /\ \A t \in times : t <= Max(times)
    BY <2>1, <2>2 DEF Max
  <2>4. Max(times) = row.lastRun
    BY <2>1, <2>2, <2>3
  <2> QED
    BY <2>4 DEF times
<1> QED
  BY <1>2, <1>4 DEF Deadline, PollSeconds

(* While threads run when they have something to do and one is left, the     *)
(* next lease is claimed within an interval and a poll of the last, and a    *)
(* poll more for each that found the lock taken, failed, ended or died,      *)
(* whatever the interval and however many workers there are.                 *)
THEOREM SweepsComeInTime == Spec => []SweepsKeepComing
BY Invariant, InitTimely, NextTimely, TimelySweeps, PTL DEF Spec
===============================================================================
