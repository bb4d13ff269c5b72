# PyADCS Connector: TLA+ models, checks and proofs

The connector lets ILM Core use Microsoft AD CS: it keeps *authority instances*
(hosts it reaches over WinRM), issues, renews, revokes and identifies certificates by
running PowerShell scripts on such a host, and *discovers* the certificates that the
CAs have issued into a shared PostgreSQL store. This directory holds TLA+ models of
the parts where order, failure and concurrency decide whether it is correct, the TLC
configurations that check them, and machine-checked proofs about all of them.

Paths below are relative to `src/pyadcs_connector/PyADCSConnector/`.

## 1. Inventory

| component | code | state it keeps | operations | interacts with |
|---|---|---|---|---|
| Discovery worker | `services/discovery_history.py` | one daemon thread per discovery; rows of `discovery_history`, `certificate`, `discovery_certificate` | create, collect over WinRM, persist in one transaction, mark as failed | cleanup (advisory lock), DELETE (row lock), other discoveries (unique keys) |
| Discovery API | `views/discovery_history.py` | none of its own | start, poll (status, total, page), delete with cascade | discovery worker, cleanup |
| Certificate cleanup | `services/certificate_cleanup.py` | one thread per gunicorn worker; `certificate_cleanup_state` | claim the lease, delete orphans in batches, sleep | discoveries, other workers |
| Certificate management | `services/certificate_management.py` | none; the CAs' databases | issue, renew, revoke, identify | WinRM, the CAs, their administrators |
| WinRM remoting, scripts | `remoting/` | a shell on the host per session | connect, run, disconnect; the scripts | everything that talks to AD CS |
| Authority instances | `services/authority_instance.py`, `views/authority_instance.py` | `authority_instance` rows | create, update, list, get, delete, with a connection test | WinRM; all others read the row |
| Dump parser | `utils/dump_parser.py` | none | text of `Format-List` to records | discovery, management, callbacks |
| Attribute utilities, definitions, callbacks | `utils/attribute_definition_utils.py`, `services/attributes/`, `views/attributes.py`, `views/callbacks.py` | none | look up, merge, describe attributes | all services |
| Request encoding | `utils/cms_utils.py`, `crmf.py`, `cmc.py`, `adcs_asn1.py` | none | CRMF into a signed CMC | issue |
| Migrations | `migrations/__init__.py`, `0001`, `0002`, `entry.sh` | the schema, `django_migrations` | create tables, move certificates to the shared table, record that | the store; other replicas that start; replicas of the version before |
| Platform | settings, urls, health, info, logging, error middleware | settings | route, configure, start | all |

What is hard here, and tested least:

* **Concurrency in the store.** Discovery threads, DELETE requests and sweeps of several
  processes meet in three tables at READ COMMITTED. What keeps them apart is a shared and
  an exclusive advisory lock, two kinds of row locks, unique keys and an insert order. The
  tests meet a few interleavings with real PostgreSQL; nothing explores the rest.
* **Several statements, one answer.** A poll reads status, total and page one after the other.
* **Schedules.** Every worker polls one lease; time is the time a transaction began.
* **Failure and crash.** WinRM fails anywhere, the persistence transaction rolls back, a
  worker dies with its threads.
* **Loops over a server that changes.** Pages of a CA database that is being written to.
* **Scripts that outlive their caller**, partial results and exit codes in PowerShell.
* **Requests that overlap** on rows without a unique key, with a connection test in the middle
  of a transaction and a `save()` of all columns at its end.
* **Replicas that start together** and migrate one database, some of them killed, while old ones serve.
* **Values that travel**: printed by PowerShell, parsed into fields, offered in a form, chosen,
  outdated by another choice, sent back, and turned into a filter or a request.

What makes each component correct: the store never holds a dangling link or a
certificate twice, a discovery is complete or empty, never comes back from deletion and
ends; orphans go away, and only orphans do; at most one sweep per interval, and sweeps
keep coming; an answer to a poll is of one piece and pages partition the certificates; a
collection skips nothing; what an answer to a management call says is so at the CA; a stored
authority is one whose connection was tested, a name is taken once it was answered for, and a
deletion lasts; an upgrade happens once and loses nothing; what the user chose is what is
discovered, issued and identified.
`PROJECT.json` lists the hazards line by line with the properties that cover them.

## 2. Modules and the code they model

```
DiscoveryStore  <--implements--  CertificateStore  <--extends--  DiscoveryPoll
                                proofs of both: CertificateStore_proofs

AdcsCollection        what "Collect" does, against CAs that change;
                                                              proofs: AdcsCollection_proofs
CleanupLease          what "ClaimLease" and "Tick" abstract;  proofs: CleanupLease_proofs
DatabaseMigration     how the store's tables came to be;      proofs: DatabaseMigration_proofs

Lists  <--extends--  Attributes  <--extends--  NamedInstances   the rows clients create by name
                         ^                    proofs: NamedInstances_proofs
                         '---  DumpParser  <-----  AttributeForms   from a form to its effect
                                 RequestEncoding  <--'
                                              proofs: AttributeForms_proofs
CertificateManagement (independent: no table of the connector is written)
                                              proofs: CertificateManagement_proofs

Counting_proofs: what the proofs about pages and lists need of finite sets
```

`DiscoveryStore` is the promise to ILM Core with every operation a single step: a
discovery starts, then completes with all of its certificates or fails with none, is
deleted for good, and the sweep takes only what nobody shows.

`CertificateStore` is the code, statement by statement. `history`, `certificate`, `link`
and `nextId` are what is committed; `pending[d]` and `doomed[r]` are what an open
transaction has inserted or deleted. A statement reads what is committed and what its own
transaction wrote (`VisibleTo`). Locks end with their transaction, so they are functions
of the threads' positions: `SharedHolders` and `ExclusiveHolders` for the advisory lock
in its two modes, `RowHeldByDiscovery` and `RowHolders` for `select_for_update`,
`InsertersOf` for PostgreSQL's wait on an uncommitted row with the same unique key.

| code | actions |
|---|---|
| `start_discovery`, `run_discovery` | `StartDiscovery`, `FetchHistory` |
| `discover_certificates`, WinRM part | `Collect` (any result), in detail `AdcsCollection` |
| ... `with transaction.atomic()` | `LockShared`, `LockRow`, `SkipPersistence`, `InsertCertificate` (one row of the bulk insert at a time, ascending), `ReadIds`, `Commit` |
| an exception, its handler | `Raise` (rolls back), `MarkFailed` (filtered update) |
| DELETE | `DeleteLock`, `DeleteNotFound`, `DeleteLinks`, `DeleteCommit`, `DeleteRollback` |
| `_claim_lease` (as one step here) | `Tick`, `ClaimLease` |
| `_delete_orphan_batch`, `run_cleanup_once`, `_loop` | `LockBatch`, `DeleteFullBatch`, `DeleteLastBatch`, `EndSweep`, `SweepInterrupted` |
| a worker dies, or a thread by an error outside `run_discovery`'s try or in its handler | `CrashDiscovery`; for a sweep `SweepInterrupted` |

The foreign keys of the schema reject nothing in the model. `ForeignKeys` then says that
no transaction of the code is ever in their way.

`DiscoveryPoll` adds the readers: `AnswerStart` (the POST that starts, which answers from
the object it created and asks for the default page), `ReadStatus`, `CountLinks`,
`ReadPage`, interleaved with everything of `CertificateStore`.

`CleanupLease` takes the lease apart: `BeginClaim` (the transaction's `now()`), `TryLock`
or `LockBusy`, `ReadDue` or `ReadNotDue`, `CommitClaim`, with the `sleep` of `_loop`, and
discoveries that hold the lock in shared mode. `SweepFails` is the exception that `_loop` catches,
`ThreadEnds` one of `close_old_connections()`, which it does not: the thread is `gone`, its worker is not.

`AdcsCollection` is the collection's loops over CAs, templates and pages: `ListCas`, then
`Dump` page by page (`AfterPage` is where the loops go next), while the CAs issue, approve
pending requests (an older row becomes a certificate) and delete rows. `Get-AdcsDatabaseRow`
is external: a page is the matching rows whose `Number` in RowId order is on it. A CA's `database`
is a set of rows, and `collected` the pages as they came, so that what is on two of them can be said.

`CertificateManagement` has two processes per call: the connector's thread (`Receive`,
`Reject`, `Connect`, `Collect`, `Disconnect`, `TransportFails`) and its script on the host
(`Submit`, `Sleep`, `Retrieve`, `Until`, `Fetch`, or `Revoke`, or `Identify`), which goes
on when the transport fails. Errors of COM calls end a statement and not the script
(`SubmitFails`, `RetrieveFails`, `FetchFails`); an unset variable is the empty set.

`Attributes` has no state: it is `utils/attribute_definition_utils.py` (look up, merge) and one
operator per attribute definition (over `Lists`, the elements of a list at some positions), under the names of the functions in `services/attributes/`,
with what decides something (name, type, required, list, multi, content, callback).

`NamedInstances` is one request per `r`, each in the transaction of its view (ATOMIC_REQUESTS,
READ COMMITTED): `Receive`, then for an authority `Create` (`exists()`) or `GetRow`, `Update` (the
columns taken out of the merged attributes), `VerifyConnection`, `Save`, and `SaveInsert` where
`save()` finds no row to update; `Delete`; for a discovery `CreateDiscovery`, `SaveDiscovery`;
`Dies` for a worker that does. The object a request holds is `instance[r]`; its status
is `answer[r]`. A client sends its own identity as the value of every attribute, so a column says
whose it is, and may leave out the attributes of a gap. `before[s]`, the requests answered when
`s` came in, defines which requests overlap.

`DumpParser` is `utils/dump_parser.py` as folds over lines of a key and a value, and what
`Format-List` prints: one line per property and an empty line after each
object; only certificates go on over several lines, since the loops skip those of any other value. `RequestEncoding` is `utils/cms_utils.py` on records.

`AttributeForms` composes the three. Core is the environment as the definitions tell it to
behave: it shows a form (`get_discovery_attributes`, `get_raprofile_attributes`), lets a user
`Fill` in any offered value in any order, runs the callbacks whose mapped values changed
(`RunCallback`, with what each view answers in `Routed`), checks what is required and sends
(`Submit`), with values that are not shown any more or without. The service then acts on what
was sent: `run_discovery` (`SelectedCas`, then `Found` with `dump_certificates` and
`parse_certificates`, and `get_certificate_meta`), `prepare_and_issue` (`get_ca_from_attributes`, `certificate_request`: a CRMF is converted by `create_cms`, a
PKCS#10 passed on) or
`identify`. `DeleteAuthority` may come anywhere in between. How Core handles a callback is
external, and the model takes it to keep or drop outdated values as it likes.

`DatabaseMigration` is the start of replicas: `Plan` (what is recorded is read once), `Check`
and `Make` for the schema and for `django_migrations` (each looks, then creates), `Initial`, then
one action per operation of 0002 (`CreateTables` ... `CommitMigration`; `work` is what its open
transaction has), `Record`, `Finish`; `Fails` for any statement the database fails (a lost connection, a
timeout), `Restart` for a container killed in migrate; `OldDelete` for
a replica of the version before. gunicorn starts whatever migrate's exit code was: `exit`.

Mutated forms of definitions (`<Name>_<What>`) stand next to the ones they replace; they
are used by nothing but `PROJECT.json`'s mutants, each of which breaks one property.

## 3. What the runs show

| run | asks | bounds |
|---|---|---|
| `store_race` | Does the store stay consistent, is a discovery all or nothing, and does the store implement `DiscoveryStore`? `TypeOK`, the inductive `IInv`, `ForeignKeys`, `UniqueRows`, `IdsResolved`, `SweepBounded`, `NoDeadlock`, `AllOrNothing`, `HistoryLifecycle`, `ImplementsDiscoveryStore` | 2 discoveries, 2 fingerprints, each up to twice in a collection, 2 DELETEs, 2 sweeping workers, 1 crash, batches of 1 |
| `store_liveness` | Do discoveries end and orphans go? `DiscoveryEnds`, `OrphansGoAway` | 2 discoveries, 1 DELETE, 1 worker, 1 crash, batch size 0, which the code takes as 1 |
| `poll_pages` | Is an answer of one piece? `CompletedIsWhole`, `PagesPartition` | 1 discovery of up to 4 links, pages of 1, 2 polls, pages 0 to 2 |
| `poll_in_progress` | violated: `InProgressIsEmpty` | 1 discovery, 1 poll |
| `lease` | At most one sweep per interval, and do sweeps keep coming? `TypeOK`, `LeaseSpacing`, `SingleStateRow`, `SweepsKeepComing` | 2 workers, interval 3, polls capped at 2, with and without a state row, 2 failures, deaths or ends of a thread, a clock of 12, or of 7 once it has passed a thread that had something to do |
| `collection` | Is anything skipped or taken twice, and does it end? `TypeOK`, `NoneLost`, `NoneTwice`, `CollectionEnds` | 2 CAs, 2 templates, 3 rows, pages of 2, 1 pending, 1 change |
| `collection_labels` | violated: `LabelsTrue` | 2 CAs |
| `management` | Is what an answer says so at the CA? `TypeOK`, `OwnCertificate`, `NoneMissed`, `RevokedIsRevoked`, `IdentifyIsRight`, `ShellsAreClosed`, `CallsAreAnswered` | 2 calls of any kind, 2 RA profiles, 2 CAs |
| `instances` | What do names, columns and deletions guarantee to requests that overlap, and to those that do not? `TypeOK`, `NamesAreTaken`, `RowsAreVerified`, `NoUpdateUndone`, `DeletedStaysAway` | 3 requests of any kind, 2 names, an authority to begin with or none, attributes left out |
| `forms` | Does what the user chose have its effect? `OffersAreReal`, `DiscoversWhatWasChosen`, `ProfileIsFollowed` | 2 authorities in forests of their own, 3 CAs, 2 templates of both schemas, rows with and without a template, 4 configuration strings of which 2 are none, 2 CRMF requests and a PKCS#10 |
| `migration` | Does the upgrade happen, once, without loss? `TypeOK`, `OneSucceeds`, `NothingLost` | 3 replicas, 2 kills or failures, up to 3 legacy rows of 2 discoveries and 2 contents, dangling ones among them |
| `management_timeout` | violated: `WaitsForTimeout` | 1 call |

Why these bounds: every wait and every race in the store is between two threads, and a
cycle of waits needs two contended objects: two discoveries with two fingerprints in any
overlap give the insert order something to do, two DELETEs can be of the same or different
discoveries, two workers can sweep at once. Batches of 1 make every sweep take several.
Pages of 1 (polls) and of 2 (collection) have pages that are full, partial, empty and last
within the rows there are. The lease's clock runs past the first interval, where the
spacing of two claims is decided, and for promptness past three. One crash is
enough for the store because nothing recovers jointly from two; of the lease's two workers both may fail or
end, and `SweepsKeepComing` counts that. Names and
deletions concern two requests, and a third decides what either finds; with three an update
brings a row back between a DELETE and a create of the same name. A replica is in one of the
migration's few places, and two are only in each other's way; a third is the one that must get
through, also when both of the others fail or are killed. Three legacy rows have two of one
content, one that dangles and one that does not. Two authorities with different forests are enough for a
value of one to be left in a form for the other.

Symmetry is used in the safety runs, over workers, requests, discoveries, polls, replicas
and legacy rows; never over fingerprints, which are ordered, nor with liveness, and not in `forms`, where
everything has its own place.

**Fairness.** `store_liveness`: a discovery thread's and a sweep's next step is strongly
fair, because all they wait for are locks, PostgreSQL queues the requests, and a lock that
is free again and again is granted; the steps of a DELETE that has its lock are weakly
fair; time passes and some worker polls while the lease is due. WinRM calls return, with a
result or an error. `collection` and `management`: the steps of the thread and of the
script are weakly fair, failures are not. No fairness for crashes, DELETEs, administrators
or new discoveries. After a crash `DiscoveryEnds` claims nothing: nothing in the code
recovers a discovery whose worker died, and it reads `inProgress` until it is deleted. An error of the thread's
first read, which is outside `run_discovery`'s try, or of the handler's UPDATE has the same effect and counts as a crash.

Deadlock in TLC's sense is checked in the runs of the store, the polls and the lease. The
others stop when their collection, calls, requests or migrations are over, or when a form is left
whose authority is gone. Deadlock among threads is `NoDeadlock`: no set of threads each waits for
another of the set.

### Disagreements

* `poll_in_progress`: `get_discovery_history_data` compares a string with a member of a plain
  `Enum` (`services/discovery_history.py:188`), so the branch that empties the answer of a
  running discovery never runs. The answer to a start, built after the thread was started,
  can say `inProgress` with a total and certificates.
* `collection_labels`: every certificate's metadata names the first CA of the list
  (`services/discovery_history.py:213`), though discovery covers all of them by default.
* `management_timeout`: the submit script compares with `$timeout`, which it never sets
  (`remoting/winrm/scripts.py:106` and `:122`); every number is `-ge $null`, so it polls
  once, whatever `ADCS_ISSUE_POLLING_TIMEOUT` says.

What the models have because the code does it, and no document of the repository denies:

* Names are unique only against committed rows; two requests that overlap both get one
  (`services/authority_instance.py:13`, `services/discovery_history.py:32`). `NamesAreTaken` says
  what is left: one that came in after the other was answered does not.
* An update that read an authority before it was deleted brings it back, because `save()` inserts
  where it finds nothing to update (`services/authority_instance.py:45`): `DeletedStaysAway`
  allows exactly this.
* `authority_use_https` is not required, but without it `save()` fails after the connection was
  tested; `raprofile_ca_name` is not required, but a search without a CA is a TypeError
  (`services/attributes/raprofile_attributes.py:157`, `services/certificate_management.py:140`):
  both end as a 500, `Storable` and `get_ca_from_attributes`.
* A configuration string is looked up by the CA's name alone: with another computer in it,
  certificates of the CA of that name are discovered.
* A revocation of another CA's certificate than the RA profile's is answered 200 and revokes nothing.
  `RevokedIsRevoked` has the certificates of that CA, and that nothing else was revoked by it either.
* Error answers leave their WinRM shell open (`services/certificate_management.py:109`, and the same in
  `services/discovery_history.py:134`, whose shell is in no module): `ShellsAreClosed` exempts them.
* `entry.sh` starts gunicorn after a failed migrate, and a replica that the database failed does not try again. A replica that is killed between the COMMIT of
  0002 and its record leaves a database on which every later migrate fails, with the tables as
  they should be: `OneSucceeds` separates the two. A discovery
  that is deleted under the backfill may fail the migration, which then leaves everything as it was, or
  leave a certificate without a link, which the next sweep takes: `NothingLost` says this and no more.

## 4. What is proved

`CertificateStore_proofs` proves, for any finite set of discoveries and fingerprints, any
requests, workers, intervals, batch sizes and number of crashes, from `ConstantsAssumption` alone:

| theorem | statement |
|---|---|
| `Invariant` | `Spec => []IInv` |
| `TypeCorrect` | `Spec => []TypeOK` |
| `ForeignKeysHold` | `Spec => []ForeignKeys` |
| `RowsAreUnique` | `Spec => []UniqueRows` |
| `IdsAreResolved` | `Spec => []IdsResolved` |
| `LifecycleHolds` | `Spec => HistoryLifecycle` |

None of the four properties is inductive: whether a link dangles depends on who can still
delete what it points to. `IInv` says what the code relies on:

* `LockExclusion`: a batch and a persistence transaction never run together (the advisory
  lock). Hence no sweep between the insert that skipped an existing certificate and the link to it.
* `RowExclusion`: a history row is locked by one thread, and exists while it is. Hence no
  link to a discovery that is gone.
* `CascadeComplete`: between a DELETE's cascade and its commit nobody adds a link behind it.
* `RowsInSequence`: uncommitted rows belong to an open transaction and ids come from the sequence.
* `HandledVisible`: what the bulk insert has processed can be read by its transaction. Hence
  `id_by_fp` has every fingerprint.
* `RunningStatus`: only its own thread ends a discovery, and only once.
* `UniqueRows`, `IdsResolved` and `ForeignKeys` themselves.

Each part has a lemma `<Part>Next` with one step per action that can disturb it;
`InitIInv` and `NextIInv` combine them; the theorems follow by temporal logic. `store_race`
checks the same `IInv` on its instance.

Three more properties follow with what each needs added to `IInv`:

| theorem | statement | added to `IInv` |
|---|---|---|
| `AllOrNothingHolds` | `Spec => []AllOrNothing` | `ShowsCollected`, `OwnDoomed` (`RInv`) |
| `Implements` | `Spec => ImplementsDiscoveryStore` | the same |
| `SweepBoundHolds` | `Spec => []SweepBounded` | `LaterIds`, `Asleep`, `Left` (`BInv`) |
| `DeadlockFree` | `Spec => []NoDeadlock` | `Ascending` (`DInv`) |

* A completed discovery's links to one fingerprint are its `Copies`, all to one row. A sweep
  takes only rows without links, a COMMIT of another discovery cannot add a second row of an id
  (`UniqueRows`), and a cascade takes only its own links. With that the content that
  `DiscoveryStore` sees is `ContentOf`, read off the row and the collection; each step of the
  store is then one of `Steps` (`NextSteps`), and those are steps of `DiscoveryStore` or none
  (`StepsImplement`).
* `SweepBounded` holds since what a sweep has deleted and what is left `Below` its bound only
  shrink: ids yet to be committed are beyond the bound (`LaterIds`), because the claim has the
  exclusive lock and so no transaction has rows in flight.
* Of threads that wait in a circle all would be in their bulk insert. The one at the highest
  fingerprint waits for none of the others, since what another has inserted is below where that
  other is (`Ascending`): this is where `sorted(unique.items())` is used. `Rank` replaces the
  fingerprints by how many there are up to them, so that the highest exists.

In the same module, for any number of polls beside all that the store's theorems range over,
and any page size:

| theorem | statement |
|---|---|
| `PollInvariant` | `PollSpec => []PInv` |
| `CompletedAnswersAreWhole` | `PollSpec => []CompletedIsWhole` |
| `PagesArePartition` | `PollSpec => []PagesPartition` |

`PInv` adds to `RInv` that a discovery whose status was read as completed has ended
(`EndedWhenSeen`), so that nothing but a DELETE can touch its links (`EndedStays`), and that
total and page are what a statement would read now unless the DELETE has committed
(`AnswersStand`). That the total is what was collected, copy by copy, is a sum over the fingerprints
(`LinksCounted`, by `CountTogether`). That the pages cover the links is `PageExists`: every
link has a position up to their number, and each position is on one page. Page 0 is asked for as page 1.

`CleanupLease_proofs`, for any number of workers, any interval, poll cap and number of
failures, from `LeaseAssumption`:

| theorem | statement |
|---|---|
| `Invariant` | `Spec => []IInv` |
| `TypeCorrect` | `Spec => []TypeOK` |
| `SpacingHolds` | `Spec => []LeaseSpacing` |
| `StateRowIsSingle` | `Spec => []SingleStateRow` |
| `SweepsComeInTime` | `Spec => []SweepsKeepComing` |

The spacing of claims follows from two facts: the row's `lastRun` is the latest claim
(`ClaimsRecorded`), and a worker that has found the lease due still sees the row that is
there when it commits (`SeenIsCurrent`), which is so because one worker at a time holds the lock
(`OneHolder`). That `now()` may be long past when a claim commits does not matter: the claim is
compared and recorded with the same time.

That sweeps keep coming is about promptness, so it holds while no thread is late, and then time
passes only while all threads sleep. `AtOnce`: what a thread does between two sleeps happens at one
time, so a sleeper wakes within a poll. `InTime`: now and every wake-up are before the
`Deadline`, an interval and a poll after the last claim and a poll more for each lock found taken
and each failure or end of a thread, while one thread is left. A thread that wakes past the interval claims, which moves the deadline, or finds the
lock taken or fails, which extends it by the poll it sleeps.

`DatabaseMigration_proofs`, for any number of replicas (at least one), legacy rows, discoveries,
kills and failures of the database, from `MigrationAssumption`:

| theorem | statement |
|---|---|
| `Invariant` | `Spec => []IInv` |
| `TypeCorrect` | `Spec => []TypeOK` |
| `UpgradeKeepsLinks` | `Spec => []NothingLost` |
| `SomeoneSucceeds` | `Spec => []OneSucceeds` |

`Control` ties the replicas' places to what is committed and recorded: one replica in the
transaction, and only with the tables of 0001 alone. `Data` has for each operation of 0002 what its
transaction's tables are by then, as a function of the legacy rows and the discoveries that still
exist (`Pointed`, `Moved`), or may be after a discovery was deleted under it (`Covers`, `AllLive`);
the migration fails at NOT NULL or at the foreign key only then. `SomeoneArrives` is why the
upgrade happens: while it has not, some replica is on its way that is not `Doomed`, that is, has
nothing left to make that is already there; a step that dooms it is the step by which another
gets ahead. `SomeoneRecords` does the same for the record. A failure ends a replica anywhere, so these two
are about replicas that did not fail; `Data` holds whoever fails, and gives `NothingLost` also while
the old tables stand.

`NamedInstances_proofs`, for any requests, names and gaps, from `InstancesAssumption`:

| theorem | statement |
|---|---|
| `Invariant` | `Spec => []IInv` |
| `TypeCorrect` | `Spec => []TypeOK` |
| `VerifiedRows` | `Spec => []RowsAreVerified` |
| `NamesHold` | `Spec => []NamesAreTaken` |
| `DeletionsLast` | `Spec => []DeletedStaysAway` |
| `UpdatesStand` | `Spec => []NoUpdateUndone` |

`IInv` says of the object a request holds what the tables will say of it once it is saved (`Holds`):
whose row it is, that its columns are those of its attributes and, past the connection test, in
`verified`. `FreeName` carries `exists()` to the INSERT: the row that has the name by then
was not answered before the request came in, or has been brought back. `Deletions` carries a
DELETE past the update that read the row: if the DELETE was answered before the update
came in, then an overlapping update had brought the row back. A commit (`WriteKeeps`) turns these
into the properties; every other step leaves the tables alone (`QuietKeeps`), and what it leaves
to the other requests is `OthersKeep`.

`UpdatesStand` adds `HoldsOwn`: a column that an update is about to save is from that update's
own request, or empty where the request leaves the attribute out. This is what `merge_attributes`
and `get_attribute_value` compute (`MergedContent`, `ValueRead`), both told by `Elements`, a
sequence's elements at some of its positions. A column therefore belongs to the update that was
saved last, and that one does not precede any that has saved before it.

`CertificateManagement_proofs`, for any calls, CAs, templates, RA profiles, poll interval and timeout, from
`ManagementAssumption`:

| theorem | statement |
|---|---|
| `Invariant` | `Spec => []IInv` |
| `TypeCorrect` | `Spec => []TypeOK` |
| `CertificatesAreOwn` | `Spec => []OwnCertificate` |
| `IssuedIsNotMissed` | `Spec => []NoneMissed` |
| `RevocationsHold` | `Spec => []RevokedIsRevoked` |
| `IdentifyHolds` | `Spec => []IdentifyIsRight` |
| `ShellsClose` | `Spec => []ShellsAreClosed` |

An answer is given two steps after the script has ended, and the CAs go on meanwhile: what the script
has found must stay so. `Grows` is what any step may do to the CAs' requests (they stay, under
their CA and template, and a certificate can at most be revoked), and `Frame` says that
under it a call keeps all that is known of it while others run. Per call, `Answered` ties the answer
to the script's end, `Requested` says that the script's only request is under the RA profile and
its output is that request, `Effect` what `Revoke` and `Identify` left, and `Woken` carries
what was issued at wake-up through the poll to the end of the loop. `Justified` is the converse of
`RevocationsHold`: what is revoked, a call was asked to revoke, and a call's input and its script's end stay (`DoneStays`). `Disjoint`, the only part about two calls,
holds since a new request has an id of its own.

`AdcsCollection_proofs`, for any number of CAs, templates, rows and changes and any page size, from
`CollectionAssumption`:

| theorem | statement |
|---|---|
| `CollectionInvariant` | `Spec => []CInv` |
| `CollectionTypeOK` | `Spec => []TypeOK` |
| `NothingIsLost` | `Spec => []NoneLost` |
| `NothingIsCollectedTwice` | `Spec => []NoneTwice` |

Pages are counted by position, so what is on the pages to come depends on how rows move in the
listing. Without deletions a row's number only grows, so that a row that has `Passed` the current page was
collected (`PassedCollected`); without approvals it only falls, so that what is collected of the
listing is behind it (`CollectedBehind`), and pages have nothing in common
(`PagesDisjoint`). `Reached` says from which CAs and templates there can be rows at all. That the
loop may stop at a page that is not full is `PageIsFull`: if any row is beyond a page,
the page has `PageSize` rows, since the numbers of a listing are 1 to its length (`Ranks`).

`AttributeForms_proofs`, for any authorities, forests, templates, databases and configuration strings,
from `FormsAssumption`, `UniqueAssumption` (a template's name is unique in its forest, a serial number in its
CA's database, and a request has at most one subjectAltName), `CasAssumption` (`""` is no CA) and
`RowsAssumption`. The last is what the filter of `dump_certificates_script` takes for granted of AD CS
(`remoting/winrm/scripts.py:85`): a certificate under a template of schema 1 is kept under the template's
name, any other under its OID. A row kept under the other of the two would not be found for its
template. It also says that a row has at least one line of certificate.


| theorem | statement |
|---|---|
| `ParsesPrinted` | of any objects, the record parser reads back what `Format-List` prints |
| `FormInvariant` | `Spec => []FormInv` |
| `OffersAreOfTheServer` | `Spec => []OffersAreReal` |
| `SendInvariant` | `Spec => []SendInv` |
| `ProfilesAreFollowed` | `Spec => []ProfileIsFollowed` |
| `ParsesRows` | of any rows, `parse_certificates` reads back what `Get-AdcsDatabaseRow` prints, a property's line after every certificate |
| `DiscoveriesFindWhatWasChosen` | `Spec => []DiscoversWhatWasChosen` |

A parser is a fold, `FoldLeft`, whose definition recurses over sets of positions. `TableExists` shows
that this recursion has a value, and `LeadsInTable` that it is where reading the lines one by one leads;
`LeadsObject` and `LeadsPrinted` follow the lines of one object and of all. The record is complete
with its last key, so the keys need only be distinct and the last one last (`AreKeys`). Blank
lines that `strip()` takes away say nothing (`LeadsStripped`). Of both parsers the same is said with a
reader `by`, so that `ParsesRows` only adds how the lines of one row are read (`RowRead`): the label, the
first line of the certificate, the lines that continue it (`MoreRead`), and the key after it, which closes
it. The blank lines in between and the empty continuation at a row's end are read outside a certificate and
change nothing.

`FormInv` says of a form at any moment: what is shown are definitions of the form, each once
(`ShownOK`); the group of the CA is always among them, and nothing it brings is shown while its callback is
to be run again (`PendingOK`); what is offered for CAs and templates is what the chosen authority's server has
now, unless the callback that renews it is to be run (`OffersOK`). The two hard steps are a choice
(`FillStep`: the choice outdates lists or has nothing to do with them, by `MappedOf`) and a callback
(`RunStep`: what it brings is described, is of the chosen authority, and takes no name that is shown, by
`SplicedNames` and the `Brings` lemmas). Here a callback that mapped another attribute, or a definition answered under
the other form's name, would show.

`SendInv` carries this through `Submit`: the attributes the services cannot do without are shown, among them the one
the group has brought for the chosen method (`NeededShown`), what takes one value has at most one
(`ValuesSingle`), and what was sent are the values, those of all that is shown among them (`SentOK`). So the services
read back what was chosen (`ReadBack`), a CA among the values is looked at only if the method is `search`
(`CaSent`), and the chosen template is one of the server's, known by its name (`TemplateSent`).
`RequestMade` and `ExtensionsOf` follow the client's CRMF request into the CMC request, and `AnswerIs` the CA's rows through
`Format-List` and the parser, by `ParsesPrinted`, to what `identify` answers.

For a discovery, `CasSent` says which CAs are asked (those chosen, under the method shown; none chosen means all that
`get_cas` returns, `AskedOf`) and `TemplatesSent` that the queries are the chosen templates, one by one, or a single query
for any; a template is known by its name in the list of the chosen authority, though its callback may have been run
for another before. `FoundOfAny` and `FoundOfTemplate` say what one query finds, by `ParsesRows` and `RowsAssumption`;
`FoundIsWanted` puts the queries together.

`Counting_proofs` has the facts of finite sets that the theorems about pages and lists rest on. The library's
induction theorems take a predicate; `CountingUp` and `SubsetInduction` take the set of the numbers or subsets it
holds of instead, which a proof can define, and follow from the existence of a minimal counterexample.

The state spaces of `lease`, `migration`, `instances`, `management`, `collection` and `forms` were also checked
for these invariants before they were proved.

Only model-checked: liveness under fairness, which is out of the prover's reach (`DiscoveryEnds`,
`OrphansGoAway`, `CollectionEnds`, `CallsAreAnswered`). Every safety invariant and action property of the
passing runs, and the refinement, is a theorem. The three violated properties have their counterexamples in the runs.

## 5. Not modelled, and why

* JSON, logging, labels, UUIDs and descriptions of attributes, serializers, health and info: no
  state and no order in them that a model would explore. The ASN.1 classes
  (`utils/crmf.py`, `cmc.py`, `adcs_asn1.py`) are declarations of encodings.
* Functions nothing calls: `get_ca_script`, `get_template_oid_script`, `select_objects`,
  `set_attribute_value`, `get_attribute_content`.
* Listing or reading authority instances, single reads of committed rows.
* The issue date filter of a discovery and the DER of a request are left out of the modules that
  would have them: one removes rows from all queries alike, the other only can fail, as `Reject` does.
* `order_by('uuid')` is some fixed order of the rows (`DiscoveryPoll`'s `Before`); uuids are
  random, and rows of one discovery appear in one commit, so no later row comes between.
* A certificate at the very end of the output, which `parse_certificates` would drop: in what
  `Get-AdcsDatabaseRow` prints a line of `CertificateTemplateOid` follows it (`tests.py:34`).
* A request in a format that is neither: refused before anything is done, as `Reject` does.
* How the CA database compares serial numbers, of which `'{0:x}'` drops a leading zero.
* A compensation for calls whose transport fails after their script has worked, and the recovery
  of a discovery whose worker died: the code has neither, the models have the behaviour, and
  no property forbids it.
* PostgreSQL's serialization of `SELECT ... FOR UPDATE` after a wait, unique-key waits and
  transaction-scoped locks, Django's migration executor, PowerShell, AD CS and Core's handling of
  forms are external; they are modelled from how the code uses them and marked so in the map.

## 6. Plan

Done: the modules of section 2 and the proofs of section 4. They follow the code: a change in one of the mapped
functions starts with its action, the run of its module shows whether the properties still hold, and the lemma of
the action (`<Part>Next`, `<Action>Step`) is the part of the proof to redo. Left open are
the hazards without a property (`PROJECT.json`), which need a decision about the code first: what is to become of a
discovery whose worker died, of a certificate that was issued while the transport failed, and of the leading
zero of a serial number.

## 7. Running

```
tlc -config MCStoreRace.cfg MCCertificateStore.tla
tlapm CertificateStore_proofs.tla
```

Every `.cfg` names its question in its first lines; `PROJECT.json` pairs it with its module.
The longest runs are `store_race` (a minute and a half), `store_liveness` and
`management` (a minute each).
