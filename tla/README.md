# Verification of the D365FO posting middleware

The repository is a NestJS middleware: finance users upload Excel files, the
middleware validates the rows into *data batches*, and posts the batches as
journals into Dynamics 365 Finance (D365FO, "Finance" below). Posting is the
part where a mistake costs money: it runs for minutes in a queue worker, makes
calls that cannot be undone by a transaction, and is paused, resumed,
resubmitted, deleted, retried and recovered after crashes while it runs. These
modules are about that part first, and then about what surrounds it: the batch
before it is posted, the customers created on the way, the lines of a cash
journal, how they come out of the workbook, and the reconciliation afterwards.

## 1. Inventory

| part (under `src/src/modules/`) | state | operations | what is hard about it |
|---|---|---|---|
| `queue/services/queue-job-store`, `queue.service` | `queue_jobs` and `queue_job_groups` in MongoDB, BullMQ jobs in Redis | `addDurableJob` (prepare / replace), `requeueDurableJob`, `restoreDurableJob`, `removeJobsForBatch`, `releaseOrphanedActiveJobs`, the worker's marks | two stores updated one after the other by requests, workers, control and boot code |
| `queue/services/batch-posting-control` | `postingPaused` of the batch | pause, resume, discard for delete, `recordWorkerStopped`, `isPaused` | cooperative: read between journals, written at any time |
| `queue/services/queue-recovery` | none | release orphans, restore recoverable jobs | races with the workers that start in the same process |
| `queue/processors/post-ledger-journal`, `post-free-text-invoice` | journals in Finance | header, record, lines, complete; roll back on failure | the rollback may fail half-way; journals of earlier runs |
| `queue/processors/post-vendor-journal` | journals in Finance | the same without rollback; resumes from the first open journal | journals deleted, numbers reused between attempts |
| `queue/processors/post-customer-payment-journal` | journals in Finance, `dfoAttemptedIds` | cash journals, verified by an integration marker, on the ledger route also found again by it | as above, and resubmission |
| `d365fo/services/customer-payment-journal` (cash lines) | lines and settlement marks in Finance | list, ledger lines one by one, bulk requests of whole entries, self-cite recovery, rematch, retry without marks | requests refused after they were written, lists that lag, locks of failed attempts |
| `queue/services/dfo-rollback` | none | delete lines, then headers, with retries | partial success |
| post-to-DFO handlers of `cash`, `closing`, `vendor`, `accounts-receivable` | batch status | validate, prepare, enqueue, answer duplicates | check and act are far apart |
| `data-batch`, the reprocess queue | batches, source, enhanced and error records, missing-master-data documents | intake with a fingerprint, update, delete, reprocess | duplicate uploads; revalidation against submission; undo of a failed revalidation |
| `master-data` (inline customer creation) | the document's `creationStatus`, customer and VAT number in Finance, local copy | claim, create, recheck, roll back, mark, update locally | concurrent requests, lost answers, revalidations that rewrite the document |
| `cash/processors/base-cash-entry`, `cash/handlers/post-cash-batch-to-dfo` | the processor's `company` and `unbalancedUniqueIds` fields | format and validate a cash workbook, number its journals, rewrite withholding lines, group | one object for all requests; rows are paired, split, merged and rewritten |
| `entry-processor` and the processors of the other kinds | none | format, enrich, validate rows | data rather than control |
| `reconciliation` | none between requests | six matching phases, used bank rows, unmatched sheet | later phases must not undo earlier ones |
| `queue/admin-queues.controller` | as the queue | retry, remove, clean, pause a queue | bypasses the batch status |
| `d365fo` | OAuth token | OData calls | retries, token expiry |
| `resilience` | circuit state, three cache layers | `executeWithRetry`, breaker, cache get and set | a retried POST; stale layers |
| `auth`, `user` | sessions, users, roles | login, refresh, revoke, review of access | concurrent refresh |
| `scheduler`, `settings`, `db` | counters, settings | cleanup jobs, CRUD | the last-batch-number counter is read, used, written |
| `excel`, `observability`, `health`, the rest of `master-data` | reference data, logs | synchronisation, I/O | little of it concurrent |

Interactions. An upload formats and validates the rows of a file and creates the
batch and its records. A customer that the rows name and nobody knows gets a
document, from which a user has it created in Finance; a reprocess then validates
the records again. A post-to-DFO handler reads the records of the active run,
groups them into journals, sets the batch to Posting, stores the durable job and
its groups, and adds the Redis job whose id is derived from the batch. BullMQ
gives it to the one worker of that queue. The worker reads the pause flag before
every journal, writes Finance, and after each call the store. Its end is told
four times: to the batch, to the durable job, to the groups and (by BullMQ) to
Redis. Pause, resume, delete and the boot code read some of these and write
others. Correctness is that the four never disagree about Finance in a way that
loses, duplicates or misplaces a journal, that the batch ends, that what is
posted is what the file said, and that each journal is whole.

`PROJECT.json` lists every part with its status, and under `hazards` each
place where one of these can go wrong.

## 2. Modules

```
DurableQueue <- LedgerPosting <- MCLedgerPosting            (batch posting with rollback)
                LedgerPosting, MCLedgerPosting <- LedgerPosting_proofs
                LedgerPosting instantiates PostingLifecycle  (its abstract specification)
DurableQueue <- ResumablePosting <- VendorPosting, CashPosting
                VendorPosting <- VendorPosting_proofs
                CashPosting <- CashPosting_proofs
BatchRevalidation <- BatchRevalidation_proofs                (the batch before posting)
CustomerCreation  <- CustomerCreation_proofs
CashBulk          <- MCCashBulk, CashBulk_proofs             (the lines of one cash journal)
CashOutEntries    <- MCCashOutEntries, CashOutEntries_proofs (from the workbook to journals)
Reconciliation    <- MCReconciliation, Reconciliation_proofs
```

They meet at interfaces instead of being composed into one state space:
`CashOutEntries` ends with the journals `CashPosting` starts from;
`BatchRevalidation` ends a submission where `DurableQueue` begins, and stands for
the posting by its outcome; `CustomerCreation` contains what a revalidation does
to a document, `BatchRevalidation` the rest of it; `CashBulk` is the inside of
what `CashPosting` takes as one step, `postLinesForHeader`.

Definitions whose comment begins with "Mutant" are variants of the definition
below them, with an error a programmer could make; no specification uses them.

### DurableQueue

One batch, its durable job, its groups, its Redis job. An action is the code
between two awaits that touch shared state, with these variables:

| variable | code |
|---|---|
| `batch` | `data_batches`: `exists`, `status`, `paused` (`postingPaused`), `dfoIds` |
| `job` | `queue_jobs`: `status`, `completed` (`completedGroups`) |
| `groups` | `queue_job_groups`: `status`, `header` (`createdHeaderId`; 0 is none) |
| `redis` | BullMQ job: state, `attemptsMade`, stalled counter |
| `fo` | journals Finance has created, by number, in order of creation |
| `worker` | program counter and locals of a processor run: `attempt`, `snap` (`listGroups`), `at` (index), `key` (header id), `created`, `undo`, `failed` (of the rollback) |
| `subs` | how far each post-to-DFO request is |
| `ctl`, `boot` | how far the pause / resume / delete request and the boot code are |
| `spent` | how much of each bound has been used |

`Submit` is validate, prepare, look up, then remove-and-replace or prepare, and
add; `Control` is pause, resume (with requeue) and delete; `PickUp`,
`PromoteDelayed`, `Stalled`, `Return`, `Throw` are BullMQ; `Processor` is what all
four processors share; `Crash` and `Boot` lose the locals and run the recovery.
MongoDB's silent update of a missing document is in `SetBatchStatus` and the
like, the unique index of the groups in `ReplaceInsertGroups`.

Two constants distinguish the handlers: `SubmitChecksPause` (whether the handler
refuses a paused batch) and `AlreadyMarksPosted` (whether the answer "already
completed" makes it set the batch to Posted).

### LedgerPosting, MCLedgerPosting

The ledger and free-text-invoice processors: reuse or create the header, record
it, lines, complete; on any failure `rollbackAll` over the headers of this run
from the last one back (`RollbackLines`, `RollbackHeader`, `RetainHeader`), keep
the ids of what could not be deleted, `resetAfterRollback`. `StoreFault` fails a
MongoDB call and goes where the code's try goes. A lost answer makes the client
post again (`CreateHeaderUnanswered`, `PostLinesRepeated`).

`MCLedgerPosting` adds a history variable, `late`: how many journals have been
started since the batch was last paused or deleted.

### PostingLifecycle

What a posting promises: all of the batch or nothing. `LedgerPosting` maps its
batch status, the groups whose journal is complete, and those with a journal
Finance refused to delete; `AllOrNothing` says the mapping is a behaviour of it.

### ResumablePosting, VendorPosting, CashPosting

The processors that never roll back. `outside` counts what Finance does on its
own: it deletes a journal at any time, and gives a free number to another
journal (group 0). `VendorPosting` reuses a recorded number when a journal of
that number exists (payment journals) or always (invoice journals, whose
strategy has no `headerExists`). `CashPosting` is the routed path of cash-out: it
verifies header, description and number of lines of a journal before it writes
into it, makes a vanished journal again at most twice, and collects
`dfoAttemptedIds`. Each group of a cash batch has its route, and a batch may mix
them; `LedgerGroups` are those on the ledger route (empty for vendor batches), and
the routes differ in two ways:

| | ledger route | vendor and customer routes |
|---|---|---|
| look-up of the integration marker (`MarkerHeaders`) | all headers whose description contains it (`ledger-journal-posting.strategy.ts:216-241`) | none: the active strategy does not define it and the cash strategy answers `[]` (`cash-journal-posting.strategy.ts:257-264`) |
| lines that are there (`Blind`) | posted again | listed, and skipped |

So on the ledger route the journal of an earlier run or submission is found, even
if its number was never recorded; on the others the processor has only
`createdHeaderId`, and makes a second journal when a crash or a resubmission has
lost it. `Prefixes` is the relation between groups whose marker is a prefix of
another's, which exists from eleven journals on (1 and 10).

### CashBulk

One routed cash journal, from inside. `fo` says how many copies of each line
Finance holds (`copies`) and how many its lists show (`shown`, which may lag),
which lines carry a settlement mark, which invoices this journal and others have
locked. `proc` is the call of `postLinesForHeader` under way. Its `pc` follows the
code: `list` what is there, `ledger` lines one by one, then for each `patch` of
whole entries `post`; when that is refused, `wait` for the list, `recover`,
`rematch` with fresh knowledge of the locks, and at the end `unmark` and post
`plain`, without marks. A request is accepted or refused as a whole, can be
refused after it has been written, can leave locks behind, and can be sent twice
when its answer is lost (`Request`). A call that fails or crashes is repeated by
the processor (`Start`). The direction of the route decides which lines travel
in bulk and whether the integrity list shows them. Marks for invoices that are
settled already are stripped from a request, except those of the lines of a
withholding pair (`HeldLines`), which share their invoice. `HeldApart` says that
they belong to one entry and no other entry pays the invoice.

### BatchRevalidation

One file and its batch: `Upload` (find by fingerprint, create, insert source
records and rows, document what is missing), `Request` and the reprocess queue,
`Reprocess` (claim, read, format and validate, insert the new run, write the
missing-data documents, switch the run, delete the old one, and the undo of all
that, also when the switch was applied and only its answer lost,
`SwitchUnanswered`), `Submit` (status check, cursor over the active run, Posting, the end of
the posting), `Delete`, and the customer that appears through synchronisation.
The records of a collection are none, part or all of what they should be, so a
reader that comes too early or too late is seen. `EarlyUse` says whether users
act on a batch whose upload has not been answered.

### CustomerCreation

Requests to create one customer from documents that name it. `cr` follows a
request from `requireMissingRecord` over the claim, the look-ups, the VAT number
and the customer in Finance, the recheck after an error, the deletion of its own
VAT number, to the document and the local copy. `rv` is a revalidation that has
listed the documents and writes them back. Failing calls go where the handler's
try and catch blocks send them (`CreationFault`); answers of Finance are lost
after the effect.

### CashOutEntries

`CashOutEntries` is mostly functions on sequences of rows, translated method by
method: missing ids, the four shapes of an entry (vendor payment with and without
withholding, custody settlement, direct), withholding companions and preserved
rows, the numbering of journals and vouchers, the rewriting of 2233xx lines, the
grouping into journals. The actions are those of a request: it enters the shared
processor (`Begin`), waits for Finance or MongoDB (`AskSource`, `ValidateSource`,
`Format`, `Validate`), and posts. `company` and `unbalanced` are the processor's
fields, one for all requests, so two requests overwrite each other's; `shared`
records to whom that happened.

### Reconciliation

One action per row and phase: references that are preserved and direct matches,
grouped settlements, fuzzy matches, forced matches, the rebuilding of
`usedBanks`, the cash journals. What texts, amounts and scores say is a choice,
so every comparison of rows is covered; the model keeps which bank rows are
free, which the options let be shared, and which match a phase may change.

### Abstractions

- A journal of the posting modules is its group, whether it is live, and how
  much of its lines is there: none, partial, each once (full), each and some twice
  (extra), or some twice and some missing, with fewer lines than the journal
  should have (repeated) or as many (miscounted).
- `resetAfterRollback`'s three updates are one step; so is the read and write of
  `dfoIds`. Rows, amounts, messages, logs and metrics are left out.
- A MongoDB call fails before it has an effect, except the switch to a new
  validation run, whose answer may also be lost. One process; a worker's lock
  expires only after the worker is gone, so there is never a second run.
- Control requests come one at a time. Finished Redis jobs do not expire.
- Numbers are given to other journals only between two runs: the window between
  verification and lines is a hazard without a property.
- The groups that old jobs carry in their payload are left out. The posting of
  cash-in journals (payload version 1) takes the `headerExists` branch, which
  `VendorPosting` shows.
- `CashBulk`: by the time a call is repeated, seconds later, Finance lists what it
  holds; and with `LateCounts` FALSE it lists earlier requests before the next
  count. Ledger lines are written through the list itself.
- `BatchRevalidation`: what a row says is one bit (its customer is known or not);
  enhanced and error records are inserted and deleted together; a file uploaded
  again after its batch was deleted is left out.
- `CustomerCreation`: all documents name one customer with one VAT number.
- `CashOutEntries`: one currency, one operation number, no documents and no offset
  accounts of their own, rows in LINENUMBER order; vendor groups are known,
  custody targets found, dimensions valid. Sums balance exactly, where the code
  allows 0.01 (`base-cash-entry.processor.ts:1131`): amounts are whole numbers. The
  rewriting of 2233xx rows reads the lines of the entry as they were stored, where
  the code changes them in place while it goes through them
  (`post-cash-batch-to-dfo.handler.ts:782-885`).
- `Reconciliation`: the reading and writing of workbooks, scores and texts.

## 3. Runs

Eleven runs pass, one shows a disagreement.

| run | bounds | properties |
|---|---|---|
| `ledger_resubmit` | 2 journals, 2 attempts, 2 submissions, 4 headers | `TypeOK`; `CanceledIsRolledBack`: Canceled means rolled back, what Finance kept is listed; `AllOrNothing`: implements `PostingLifecycle` |
| `ledger_double_submit` | 2 requests at once, 1 attempt, 1 pause, 1 delete, 4 headers, `AlreadyMarksPosted` | `NoUnknownJournal`: replacing the groups under a running worker loses no journal |
| `ledger_crash` | 1 crash, 1 fault, 2 attempts, 3 headers | `OrphansAreEmptyAndCounted`: at most one empty orphan per fault or crash; `JournalsNotMixed` |
| `ledger_ends` | 1 pause, 1 delete, 2 attempts, fairness | `StopsAfterTheCurrentJournal`; `PostedMeansPosted`: every journal, once, and listed, also across a stop; `NoUnknownJournal`; `ProgressMatchesGroups`; `PostingEnds` |
| `vendor_resume` | 1 fault, 1 lost answer, 1 journal deleted by Finance, 1 pause, 1 delete | `PostedIsComplete`; `LinesOnce`; `JournalsAreKnown` |
| `cash_resume` | 1 journal on a vendor or customer route and 1 on the ledger route, 2 submissions, 1 crash, 2 journals deleted or given away by Finance | `PostedJournalsListed`; `LinesOnce`: one submission makes no second journal with lines and, where lines are listed, no line twice; `CountedIsComplete`: there, a posted journal has every line; `ForeignUntouched`; `OneJournal`: on the ledger route a restart or a resubmission finds the journals of the first posting |
| `cash_bulk` | 6 lines of 3 entries, 2 entries a request, 3 invoices, both directions, any invoice locked elsewhere, 4 calls, 2 troubles | `LinesOnce`; `GroupsWhole`: every entry in Finance is whole; `ReturnedIsComplete` and `ReturnedHasSettled`: what a call that returns has achieved; `SelfCiteIsCommitted`: what the recovery concludes from a refusal is true |
| `batch_lifecycle` | 2 uploads, 2 reprocesses, 1 submission, 3 runs, 1 trouble, 1 delete, fairness | `ActiveRunComplete`: no failed revalidation costs the batch its rows, unless the answer to the switch is lost; `StaleRunsCounted`; `RevalidationEnds` |
| `customer_creation` | 2 requests, 2 documents, 3 troubles, fairness | `ClaimedOnce`; `CreatedIsInFinance`; `CustomerKnown`; `VatNotLeftBehind`; `CreatingEnds` |
| `cash_out_entries` | every balanced entry of up to 5 rows of 17 kinds under 3 safe types; 8 by 8 files by two requests at once; files of 3 entries with all buckets, routes and months, 4 lines a journal | `EntryMoneyKept`: what is posted per account is what the rows said; `WithholdingOnce`; `AcceptedBalances`; `SettlesInItsCompany`; `JournalsHomogeneous` |
| `reconciliation` | 3 ledger rows, 3 bank rows, all options and kinds, symmetry of the bank rows | `BankGivenOnce`; `UnmatchedSheetIsExact`; `ConfirmedIsFinal` |
| `resume_lost` (violation) | 1 pause, 1 attempt | `ResumeRequeuesTheJob` |

### Why the bounds are enough

Two journals are enough for "an earlier journal is complete while a later one
fails", for mixing groups and for the snapshot of one run against another; two
attempts for "not final" and "final". One crash or fault can strike at every
step. `MaxHeaders` is one or two above what an undisturbed posting needs. Six
lines in three entries give two requests of which the second is smaller, entries
of which a line does not travel in bulk, and an invoice shared by two entries;
four calls are a first try and three retries. Two cash journals, one on each kind
of route, make every mixture of what is found, recorded and skipped. Three validation runs are the
upload's, one that is undone or replaced, and one after it. Five rows make a
vendor payment with two vendors, two withholding rows and a payment; the
companions and splits of the code compare at most two rows at a time. Three
ledger rows and three bank rows make a grouped settlement with a competitor.

A quiescent state has no successor once the bounds are used, so deadlock is not
checked; that nothing gets stuck is what `PostingEnds`, `RevalidationEnds` and
`CreatingEnds` say.

### What the properties leave out

Each exception stands in the property, as a condition on what has happened:

- `LinesOnce`, `CountedIsComplete` and `OneJournal` are stated for runs without a
  lost answer of Finance: a client that posts again cannot know. `LinesOnce` of
  the posting is about a batch submitted once, because a resubmission replaces
  the groups and with them the recorded numbers; and on the ledger route, where
  lines are written blindly, it only says that no two journals have lines.
  `OneJournal` is about the ledger route, the only one that looks its marker up.
  `LinesOnce` of `CashBulk` leaves out a count that could not be read before a
  request (the code takes it for 0) and an entry of which Finance deleted every
  line that travels in bulk (`Wiped`): a retry takes it for never written. With a
  single-line entry one deletion is enough.
- `NoUnknownJournal` holds as long as MongoDB answers and nothing crashes; it
  leaves out a batch that is deleted or whose groups a deletion is purging, and a
  stop combined with a second submission: a worker stopped on a pause holds
  journals of groups that are being replaced.
- `PostedMeansPosted`, `CanceledIsRolledBack` and `ProgressMatchesGroups` are stated
  under `Ordered`: everything answers, and either requests come one at a time
  and nobody pauses or deletes, or there is a single request. Without that they
  are false, as TLC shows: with two requests one after the other and one pause the first
  two fail (the second request replaces the groups that were completed before
  the pause); with two requests at once the third fails, and with three requests
  all of them do (one that was overtaken replaces the groups of a run).
  `CanceledIsRolledBack` also leaves out a deletion: it purges the groups that a
  canceled batch may still have.
- `OrphansAreEmptyAndCounted` is about the groups of one request (`Intact`).
- `PostedIsComplete` of `ResumablePosting` counts a journal that was complete when
  Finance deleted it.
- `PostedJournalsListed` is about every route while the batch has been submitted
  once. After a resubmission the numbers of the earlier journals are gone with
  the old groups, and only the ledger route finds the journals again. There it
  leaves out a lost answer, which may have made two journals with the marker, and
  a crash: a worker restarted in the middle of a replace can finish a batch from
  groups that have just been recreated, and the last writer of `dfoIds` wins.
- `ActiveRunComplete` leaves out a switch to a new run whose answer is lost, and
  `StaleRunsCounted` counts it.
- `ReturnedHasSettled` excepts the requests that met an invoice locked by another
  journal: the code then posts the whole request without marks. The properties of
  returned calls leave out ghost locks, and are about journals with `HeldApart`: a
  second entry that pays the invoice of a withholding pair marks a lock of its
  own journal, is refused as self-cited although nothing of it is written, and no
  retry gets past that (`customer-payment-journal.service.ts:3385`).
- `ClaimedOnce` and `CreatingEnds` except documents that a revalidation has
  written: it writes back what it had listed.
- `AcceptedBalances` and `SettlesInItsCompany` except requests that shared the
  processor with another; `EntryMoneyKept` excepts the rows named in
  `NotCarriedOver`. What happens then is listed at the end of this section.
- `AcceptedBalances` also excepts a Custody Settlement of nothing but withholding
  rows (`BecomesNoLine`): its 223304 rows are skipped with a warning
  (`base-cash-entry.processor.ts:2048`), so it becomes no line, and the error of an
  unbalanced invoice is set on lines (`:394`); and files in which only some rows
  have an id.
- `JournalsHomogeneous` speaks of month and bucket only where the rows of each entry
  are of one kind: the numbering takes both from the first line of an entry
  (`entry-processor-utils.service.ts:712-747`).
- `BankGivenOnce` excepts preserved references; `UnmatchedSheetIsExact` excepts
  bank rows without a reference, and runs in which rows may be shared.

`CashTypeOK` and `BatchTypeOK` state the types of their modules and no run checks
them: the invariants of the proofs carry the types those need.

### Fairness

`ledger_ends`: an accepted request goes on, an accepted control request goes on,
BullMQ hands out, promotes and checks stalled jobs, the worker and the boot code
go on. `batch_lifecycle`: BullMQ hands out and checks stalled jobs of the
reprocess queue, its worker goes on. `customer_creation`: a request that has begun
goes on. Node runs every ready continuation, and BullMQ's timers do the rest.
Nobody is assumed to submit, pause, resume, reprocess or create anything, and no
particular call has to succeed.

### Constants that stand for a variant of the code

Some code paths differ by a constant whose other value breaks a property. The
runs above use the value for which the property holds; the other one shows what
the code does there. Each row can be tried by changing the .cfg as it says:

| constant | change | what happens |
|---|---|---|
| `AlreadyMarksPosted` | `PostedMeansPosted` in `ledger_double_submit`, without a delete | A request validated before, and looking up after, a worker stopped on a pause finds a completed Redis job and sets the batch to Posted. |
| `LedgerGroups` | `MarkerIsKey` in `cash_resume` with `LedgerGroups` {}, one submission and one crash | Between the creation of the header and `setCreatedHeader` the process stops; on a vendor or customer route nothing finds the header again and the run makes a second one. |
| `LedgerGroups` | `PostedIsComplete` in `cash_resume` with `N` 1, `LedgerGroups` {1}, `MaxAttempts` 3, no crash | Two runs fail after some lines, the second writes the first lines again; the third counts as many lines as the journal should have, takes it for complete and sets the batch to Posted, with one line missing and one there twice. |
| `MaxTrouble` | `FailureKeepsActiveRun` in `batch_lifecycle` | The switch to the new run is applied, its answer is lost, the catch deletes that run. |
| `MaxTrouble` | `RevalidatedIsNotPosted` in `batch_lifecycle`, also with `MaxTrouble` 0 | A submission has checked the status, a revalidation claims the batch, the submission sets Posting. |
| `MaxCleanups` | `ForeignUntouched` in `vendor_resume` with `MaxCleanups` 2 (a deletion and a reuse), for both values of `HasHeaderExists` | A vendor journal number that Finance gave to another journal is written into: that the journal exists does not tell whose it is. |
| `MaxCleanups` | 2 in `vendor_resume`: `PostedIsComplete` fails | The journal that got a deleted journal's number is taken for the batch's own. |
| `Prefixes` | {<<1, 2>>} in `cash_resume` (through a definition) with `LedgerGroups` {1, 2}: `OneJournal` fails | With more than ten journals, the marker of journal 1 matches journals 10 and up; a resubmission makes journal 1 again. |
| `EarlyUse` | TRUE in `batch_lifecycle`: `ActiveRunComplete` fails | The batch of a second upload, or one found in the list, is revalidated while its records are being inserted, and a part of them becomes the active run; a submission in that time posts a part. |
| `LateCounts` | TRUE in `cash_bulk`: `LinesOnce` fails | Lines of an earlier request that are listed late hide how the journal grew, and the rematch writes lines twice. |

### Where the code does not do what it says

`resume_lost` ends in a violation and is a finding of `PROJECT.json`: resume just
before the worker records its stop, or before BullMQ records its return,
requeues nothing; the job stays paused although the batch is not
(`batch-posting-control.service.ts:189`).

Four more places contradict a comment, a test or a guard of the repository. Each
is stated as a property, excepted where a run checks the rest, and found violated
by the changes of the table above:

- `MarkerIsKey`. "A marker is the durable idempotency key for one upload journal
  group" (`dfo-posting-strategy.interface.ts:38`), by which the processor means to
  "recover from a crash between Finance header creation and Mongo persistence"
  (`post-customer-payment-journal-dfo.processor.ts:153`). On the vendor and
  customer routes nobody looks it up: `findHeadersByIntegrationMarker` of the two
  payment journal services (`vendor-payment-journal.service.ts:531`,
  `customer-payment-journal.service.ts:3911`) is never called, and the test
  "reuses the one Finance header found by the upload marker"
  (`post-customer-payment-journal-dfo.processor.routing.spec.ts:186`) takes a
  vendor route with a mocked look-up.
- `PostedIsComplete` on the ledger route of cash journals. The worker posts a batch
  "only after exact header, line, amount, and settlement read-back succeeds"
  (`post-cash-batch-to-dfo.handler.ts:1289`), but counts lines
  (`post-customer-payment-journal-dfo.processor.ts:187`).
- `FailureKeepsActiveRun`. "Keeps the active validation run when replacement
  processing fails" (`data-batch.service.spec.ts:258`), except when it is the
  switch itself that fails after it was applied (`data-batch.service.ts:1035`).
- `RevalidatedIsNotPosted`. A submission refuses a batch that is Revalidating
  (`post-closing-batch-to-dfo.handler.ts:118`), at a time when it has not yet set
  it to Posting (`:413`).

### Further behaviours met while modelling

The hazards in `PROJECT.json` have the lines of most of these.

- Posting: a crash between the rollback and the reset of the groups makes the
  next run post a batch without some journals; a batch that fails after a pause
  and a resume is Canceled with the journals of the first run in Finance; a
  resubmission between Canceled and BullMQ's failed stays Posting; the cash
  strategy keeps the route of the group being posted in a field of a singleton
  (`cash-journal-posting.strategy.ts:35`).
- Posting, on the routes: the look-up of a marker reads at most ten thousand
  headers of the company (`ledger-journal-posting.strategy.ts:228`); a vendor batch
  that was given up and is submitted again gets new groups without numbers, so
  journals that already have lines are made again, and the old ones are left to
  Finance (`post-vendor-journal-dfo.processor.ts:175`).
- Batches: a delete during a reprocess leaves rows without
  a batch (`:467`); the audit of a queued reprocess is written after the job may
  have run.
- Cash lines: candidates of a retry are taken by position from another list than
  the failures were counted in (`customer-payment-journal.service.ts:1945`); a
  count that cannot be read is 0 (`:1711`); after a retry without marks the
  invoices count as settled, so later marks on them are stripped (`:1252`); two
  comments describe earlier behaviour (`:2312-2335`, `:1717-1719`).
- Cash-out entries: two requests in the processor at once use each other's
  company and unbalanced ids (`base-cash-entry.processor.ts:214`, `:394`); a
  withholding row among preserved rows is doubled or dropped; a vendor credit in
  a Vendor Payment is dropped; a companion falls back to the vendor of another
  invoice; rewritten 2233xx rows of direct entries get a mark nobody validated
  (`post-cash-batch-to-dfo.handler.ts:868`); the processor treats 223304 as
  withholding, the handler every 2233xx account; new ids may be ids the file has.
- Reconciliation: with `allowManyToOne`, matched bank rows are listed as unmatched
  (`reconciliation.service.ts:356`); a preserved reference takes a bank row
  another row has been given (`:195`).
- Elsewhere: the third cache layer is written and read under different keys
  (`mutli-layer-cache.service.ts:106` and `:121`); the administrators' retry,
  remove and clean act on Redis and the durable job without the batch status
  (`admin-queues.controller.ts:90-245`, `queue.service.ts:469-700`).

## 4. Proofs

Thirty-five theorems hold for every value of the constants: every number of
journals, attempts, requests, rows, lines and documents, every bound, with the
faults and crashes of the model. Each rests on the named assumption of its
module; some also assume the value of a constant, or the conditions named with
them. The exceptions that the properties state themselves are in section 3.

| theorem | says | assumes |
|---|---|---|
| `LedgerPosting_proofs!TypeCorrect` | `Spec => []TypeOK` | `DurableQueueAssumption` |
| `LedgerPosting_proofs!JournalsNeverMixed`, `OrphansCounted`, `NothingUnknown` | `[]JournalsNotMixed`, `[]OrphansAreEmptyAndCounted`, `[]NoUnknownJournal` | the same |
| `LedgerPosting_proofs!StopsInTime` | `HSpec => []StopsAfterTheCurrentJournal` | the same |
| `LedgerPosting_proofs!PostedIsPosted`, `CanceledRolledBack`, `ProgressMatches` | `[]PostedMeansPosted`, `[]CanceledIsRolledBack`, `[]ProgressMatchesGroups` | the same |
| `LedgerPosting_proofs!PostsAllOrNothing` | `AllOrNothing`: the posting implements `PostingLifecycle` | the same, and `[](Ordered /\ Untouched)` |
| `VendorPosting_proofs!VendorComplete` | `VendorSpec => [](NumbersKept /\ Straight => PostedIsComplete)` | `DurableQueueAssumption` |
| `VendorPosting_proofs!VendorLinesOnce` | `[]LinesOnce` | the same |
| `VendorPosting_proofs!VendorKnown` | `[](spent.submits <= 1 /\ (spent.deletes = 0 \/ spent.crashes = 0) => JournalsAreKnown)` | `DurableQueueAssumption` |
| `CashPosting_proofs!ForeignNeverWritten` | `CashSpec => []ForeignUntouched`, for every mixture of routes | `DurableQueueAssumption` |
| `CashPosting_proofs!NeverTwoJournals` | `[]OneJournal`: on the ledger route | the same, `Prefixes = {}` |
| `CashPosting_proofs!CashLinesOnce` | `[]LinesOnce`, for every mixture of routes; no look-up of the marker is needed | `DurableQueueAssumption` |
| `CashPosting_proofs!CashListedOnce` | `[](spent.submits <= 1 => PostedJournalsListed)` | `DurableQueueAssumption` |
| `CashPosting_proofs!CashListedAgain` | `[]PostedJournalsListed`: after a resubmission, on the ledger route | the same, `Prefixes = {}`, `OneAtATime`: one submitter |
| `CashBulk_proofs!JournalBalances` | `[]GroupsWhole` | `CashBulkAssumption` |
| `CashBulk_proofs!SelfCiteCommitted`, `ReturnComplete`, `ReturnSettled` | `[]SelfCiteIsCommitted`, `[]ReturnedIsComplete`, `[]ReturnedHasSettled` | the same, `HeldApart` |
| `CashBulk_proofs!BulkLinesOnce` | `[]LinesOnce` | `CashBulkAssumption`, `LateCounts = FALSE` |
| `CashOutEntries_proofs!PostsInItsCompany`, `PostsWholeEntries`, `AcceptsWhatBalances`, `CarriesTheMoneyOver` | `[]SettlesInItsCompany`, `[]JournalsHomogeneous`, `[]AcceptedBalances`, `[]EntryMoneyKept` | `CashOutAssumption` |
| `BatchRevalidation_proofs!RecordsKept`, `StaleRunsBounded` | `[]ActiveRunComplete`, `[]StaleRunsCounted` | `BatchAssumption`, `EarlyUse = FALSE` |
| `CustomerCreation_proofs!OneClaim`, `CreatedIsTrue`, `CustomerNotForgotten`, `NoVatNumberLeft` | `[]ClaimedOnce`, `[]CreatedIsInFinance`, `[]CustomerKnown`, `[]VatNotLeftBehind` | `CreationAssumption` |
| `Reconciliation_proofs!BankRowsGivenOnce`, `SureMatchesStay`, `UnmatchedSheetExact` | `[]BankGivenOnce`, `ConfirmedIsFinal`, `[]UnmatchedSheetIsExact` | `ReconciliationAssumption` |

The conditions on constants are values of variants (section 3): no marker is the
prefix of another in a batch of up to ten journals; `HeldApart` says that the
invoice of a withholding pair is paid by one entry; `EarlyUse` FALSE says that nobody acts on a batch whose upload has
not been answered; `LateCounts` FALSE that Finance lists a request before the next
count. For the other value of each a run's counterexample shows what happens.

The inductive invariants, and why each is needed:

- `TypeInv == TypeOK /\ WorkerPosition`. Beyond types, `TypeOK` says every journal
  number held anywhere is one Finance has given out, and that set grows. It is
  not inductive: `SetCreatedHeader` needs `worker.key` to be a journal,
  `MarkGroupActive` needs `worker.at` to be a group, and the rollback needs
  `worker.undo` within `created`. `WorkerPosition` says so. The order of the module
  is: what an update does to one variable, then one lemma per action, then the
  step lemma, then the temporal step.
- `JournalsNeverMixed` adds `OwnJournals` (the snapshot, the created list and the
  header in hand belong to the group they are used for) and `InOrder` (the created
  list holds one header for each of the groups visited, in ascending order, all
  below the current one). A replace under a running worker makes this less than
  obvious: the group may have been deleted and inserted again between the creation
  of its journal and the record of its number.
- `KnownInv`, for the journals nobody knows of, follows a header through the run
  that made it: where the request and the groups are while it is under way
  (`RequestInv`), what the worker holds of the headers of the groups it has passed
  (`HeaderInv`), what a rollback still has to undo (`RollbackInv`). The count of
  orphans (`OrphanInv`) is then one more per mishap. `FoundInv` adds, for many
  requests and no pause, that between two runs every live journal is in `dfoIds`.
- `LateInv`: once a journal has been started after a stop, the worker is past the
  places from which it would start another without asking for the pause again.
- `CleanInv`, for what Posted, Canceled and the progress mean, is all under
  `Ordered`. `OrderInv` says who can be doing what: a request that replaces groups
  finds no processor, a paused job is not on the queue, the batch is Posting
  while anything runs. `DataInv` says what journals and groups tell about each
  other at every place of a run (snapshot, loop, completed groups, marks) and
  between two runs (`RestInv`); `CountInv` what the counter counts.
- `PostsAllOrNothing` needs `CleanInv` in every state, and then maps step by step:
  the completion of lines, the undo of one journal, Posted and Canceled are steps
  of `PostingLifecycle`, all the others stutter. `Untouched` (no pause, no
  deletion) is a condition because a paused batch is a third outcome, which the
  promise does not have.
- `VendorInv`, for the processor that resumes from recorded numbers, rests on
  `OwnHeaders`: a recorded number is of the journal of its group, unless Finance has
  given it away. `PassedInv` says that what a group, a snapshot or the place in the
  loop takes for posted is in Finance, `PostedInv` carries that to Posted, to
  BullMQ's "completed" and to the request that believes it. `RequestInv` says that
  while the only request prepares its job nothing else has begun; with it `HeldInv`
  has one journal with lines per group, which is the one its group records and the
  processor holds, and `PurgeInv` says what can have taken groups away.
- The conditions of the three vendor theorems are needed. `NumbersKept`: a number of
  the batch that Finance gave to another journal is taken for this batch's
  (section 3). `Straight`: not two requests, a pause or a deletion, and a handler
  that sets Posted on an answer "already completed", all together. The run
  `vendor_resume` checks the properties where the conditions hold.
- `ForeignInv`: where the worker writes lines, the number it holds is of a journal
  of its group (`OwnKey`), which the comparison of the description establishes; and
  Finance gives numbers away between runs only. `OneInv`, about the groups of the
  ledger route, adds what the look-up by marker has shown: there is no journal of
  the group when one is made (`NoneYet`), and afterwards only the one in hand
  (`OnlyKey`).
- `CashInv`, for what a posted cash batch lists: what the worker has completed so
  far is in the list it will write, in the order of the groups, and so is every
  group the snapshot has as completed (`Listed`). Its parts are stated for a set of
  groups, because they hold for different ones. For the groups of a batch requested
  once, on any route, the journal with lines is the one the group records
  (`HeldInv`), since nobody replaces the groups. Once there has been a second
  request that holds for the ledger route alone, whose marker finds the journal
  again (`OneInv`, `OwnKey`); there `OrderInv` says with `OneAtATime` that a request
  that replaces the groups finds no worker. The other routes look no journal up, so a
  second request leaves the first one's journals with their lines unlisted: the
  property says nothing of them then, nor of two journals that a lost answer has
  made. That `CashListedAgain` assumes one request at a time is needed: with two at
  once and a fault (`Submitters` {s1, s2}, `MaxFaults` 1 in `cash_resume`) TLC finds
  a posted batch with a journal of the ledger route it does not list.
- `SettleInv`, for the company and the invoices of cash-out lines: every line names
  the company and invoices of a row of its request (`LinesGood`, established by one
  lemma per builder), the rows have been checked against Finance in the company of
  the request (`RowsChecked`, `OwnCompany`), and posting only rewrites accounts
  (`JournalsOfLines`).
- `KindInv`, for journals of one route, month and bucket: after the numbering, the
  lines of a file are sorted by batch (`Ranked`), and consecutive entries share a
  batch only if their first lines agree and the length allows it (`Chain`). The
  handler's grouping by name and number then finds whole entries.
- `BalanceInv`, for what is accepted: while a request is alone in the processor
  (`Alone`), the ids it holds as unbalanced are those of the entries that do not
  balance (`Due`); every entry that becomes a line still has one (`Shown`), and a
  line of an unbalanced entry without an error is gone once the file is stored
  (`Marked`). It needs that a new voucher id is the id of no other entry, and that
  a sum over rows does not depend on their order.
- `MoneyInv`, for the money of an entry: the lines of every entry that is carried
  over put on each account what its rows put there (`Keeps`), unless one of them
  has an error. It is established builder by builder (`CarriesOver`): the
  allocation gives each withholding row to one vendor row and no vendor row more
  than it has (`Accounted`, `HeldIs`), so a vendor's companions and what is left of
  its debit add up to it (`OwnNet`), and the check that debits are the payment and
  the withholding makes the shared offset come out even (`MergeNet`,
  `WithholdingOnlyNet`). Numbering, errors and the rewriting of journals then keep
  the part of an id in the sum (`NumberedPart`, `MarkingKeeps`, `PostedPart`).
- What a recursive function over a finite set or a sequence computes is shown
  there from its defining equations: a set without the empty one in a
  counterexample has a least one (`SetInduction`), a run of a fold has a first
  wrong step (`NumberingRuns`, `AllocationRuns`).
- `BatchInv`: before the upload is answered nothing but the upload moves
  (`Unused`), and one upload writes the records (`UploadInv`); the run a
  revalidation writes is newer than every run that is or was active, and its
  undo deletes no other (`WorkerInv`); so no submission reads it (`SubmitInv`). The
  undo deletes the active run only after a switch that took effect without an
  answer; until there has been one, the active run is whole (`KeptInv`).
  `StaleInv` counts the runs that are neither active nor in the hands of the
  revalidation: each has cost a failure or a crash.
- `CreationInv`: a request past the creation has seen the customer in Finance
  (`PastHasCustomer`); the document of a request at work is "creating" and its own
  (`DocumentsClaimed`); a VAT number without a customer belongs to a request that
  will use it or delete it (`VatHeld`); a customer no document stores belongs to
  one that will look for it (`CustomerHeld`).
- `GroupInv`: the lines a call has planned to post, and those it takes for posted,
  are whole entries (`CallWhole`), and so is what the lists show (`ShownEven`), which
  the plan is made from.
- `ReturnInv` (of `CashBulk`, without ghost marks): every lock of this journal has
  a line with its mark, and every line that is there is settled or excused
  (`MarkedBooks`), what a call takes for posted is in Finance (`KnownPosted`), and
  a refusal means what the recovery concludes (`AskedFor`). It rests on
  `PlannedInv`: a request and what is still to do are made of the lines of the
  current patch.
- `OnceInv`: what a call is about to ask for is not in Finance, and at the places
  where it decides by the growth of the journal, the number it counted is the
  number there is (`OnceCall`). That a request was written although it was refused
  must show in the count, which is why an unread or late count breaks the property.
- `GivenInv`: every bank row with a reference that a row has is in `usedBanks`
  (`UsedCovers`), rows that share one are confirmed and not matched again
  (`SharedConfirmed`), only preserved rows have a bank row without a reference
  (`GivenIsNamed`), and phase 1 comes to rows without a match (`NotReached`).
  `UsedIsExact` is the converse from the rebuilding on; it makes the unmatched
  sheet exact.

Only model-checked:

- Liveness (`PostingEnds`, `RevalidationEnds`, `CreatingEnds`), which the prover does
  not reach.
- `WithholdingOnce` of `CashOutEntries`, which compares how often lines occur: the
  sums of `EntryMoneyKept` cannot tell two withholding rows of one account and
  amount from one row of twice the amount.

## 5. Plan

In order of importance:

1. Queue administration on top of `DurableQueue`: retry, remove, clean, pause of a
   queue, and what they do to a batch whose worker runs.
2. The resilience layer: the breaker and `executeWithRetry` with what a retried POST
   means, and the three cache layers.
3. The cash-in side of `base-cash-entry.processor`, and the other entry processors
   with the ledger batch-number counter two uploads share.
4. Sessions (refresh, revoke), the scheduler's cleanup jobs.

A theorem worth proving next: `WithholdingOnce`, builder by builder, as
`EntryMoneyKept` was, from the same lemmas on the allocation.

## Not modelled

- The strategies and the D365FO client translate entries into HTTP calls; their
  outcomes are the choices the posting modules range over. The token cache has no
  effect on them.
- The processors of closing, vendor and receivable entries, and the row validators:
  data, one row at a time, with no state but the counter of the plan.
- Master-data synchronisation: upserts by key; its effect on a batch is the action
  `SyncCustomer`.
- Excel import and export, workbook layout of the reconciliation, observability,
  health, configuration, scripts: input, output and formatting.
- Authentication, users, scheduler, settings: planned as above; nothing of the
  posting depends on them.
