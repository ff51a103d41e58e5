# Formal models of the order and stock core

This directory holds TLA+ models of the server in `src/backend`: an ordering portal whose hard part is
stock. Customers collect a selection list and confirm it into a booking; the booking holds units until its PO
is raised (the units leave inventory), somebody cancels it, or seven days pass (the units go back on sale);
what could not be supplied waits as an indent and is allocated when stock arrives. Many actors write the same
few MongoDB documents: customers, the sales desk, cron jobs, imports, counts. The models say what those
documents must agree about, TLC checks it on small instances with every interleaving, and TLAPS proves all of
it but the one liveness property for all sizes.

## 1. Inventory of the system

| Component | State it keeps | Operations | What makes it correct |
|---|---|---|---|
| Stock counters (`utils/stockLedger.js`) | per product `availableForSale`, `bookedQuantity`, `totalAvailableQuantity` | reserve, release, consume, adjust a consumed or a reserved quantity | available + booked = total; never below zero; every helper call pays from the counter that really holds the units |
| Settlement (`utils/stockSettlement.js`) | `stockState`, `status` of order rows; the open indent of a booking | `settleBooking` consume / release, `closeBookingIndent` | a line is settled once, a booking as a whole, rows and counters together |
| Orders (`modules/orders`) | order rows: one document per line of a booking | `createOrder`, `updateOrderPO`, `cancelBooking`, `applyBookingStatus` | stock held is exactly what live reserved lines say; PO locks the booking; cancelled is the end |
| PO deadline job (`poExpiryJob.js`) | the list it read; nothing persistent | one run at a time: consume bookings with a PO, cancel overdue ones | works from a stale list and may die half-way, yet never cancels a booking with a PO; every hold ends |
| Reservations (`modules/reservations`) | reservation documents: selection-list lines, later indents | create, top up, edit, cancel, restore, confirm, direct upload, expiry job | one line's quantity is either confirmed or still owed; confirmation sells no unit twice; each reminder goes out once |
| Sales desk (`modules/sales`) | order rows, PO fields | raise PO, edit lines, price, MSIL supply decisions | edits move as many units as they move quantities; a locked or cancelled booking is not edited |
| Indent allocation (`indentAvailability.service.js`, `indentAssignment.service.js`) | open indents, allocations on rows | automatic pass, manual assignment, reassignment, cancellation of an allocation | an indent unit is promised once; stock follows the line it was put on |
| Ledger (`ledger.service.js`) | append-only movements in batches | `postBatch`, `reverseMovement` | one batch per idempotency key; a movement is reversed at most once |
| Projection and mirror (`balance.service.js`, `utils/dualWrite.js`) | balances derived from the ledger; product counters mirrored from them | deferred posting after commit, fold, rebuild, `syncLegacyStock` | balances equal the ledger when all is quiet; the mirror must not undo a booking |
| Physical counts (`count.service.js`) | count sessions, their lines and SKU locks | create, start, enter, submit, review, post, cancel | no SKU in two open counts; what is approved is what is posted, once, and the count knows it |
| Imports (`import.service.js`) | job, staged rows, a processing lock | confirm, cancel, resume, run in chunks | a row moves stock once; a finished job tells the truth |
| Upcoming stock (`upcomingStock.service.js`) | shipment lines, arrivals, `syncedThrough` | record, edit, close, count arrivals, simulated allocation | an increase counts once and none is missed |
| Stock health and alerts (`health.service.js`, `alert.service.js`) | a health row per SKU, alerts with a dedupe key | recalculate, evaluate, raise, auto-resolve, handle | each condition has one standing alert, and only while it lasts |
| Timeline (`bookingStatus.service.js`) | status events with a dedupe key and the outcome of their mail | move a booking, record, notify, resend | announced once, mailed once, and the event says whether it was |
| Report runs (`utils/reportRun.js`) | one run record per period | claim, take over, retry, record | a report is mailed once per period |
| Sessions (`auth.controller.js`, `utils/tokens.js`) | refresh sessions of an account, a cookie per browser | sign in and out, refresh with rotation, revoke | nobody is signed out for having two tabs open |

How they interact: requests and jobs call the helpers inside `runInTransaction`; a transaction's stock
movements are queued and posted to the ledger after commit (`dualWrite`), folded into balances, and mirrored
back onto the product by stock-in paths only. Everything that frees or adds stock then calls
`processAvailableIndents`, which runs outside any transaction. Events announce a recalculated health row to
the alert engine. There is no message queue; the concurrency is between requests, cron jobs, several servers,
and the awaits inside each of them.

Behaviours that are hard: a handler reads a booking, checks it, and only then opens the transaction; the job
classifies a whole list and reaches each booking later; allocation works from rows read before mails were
sent; the ledger lags the counters and may miss movements; claims are undone by unconditional writes; a
document is read and saved later whatever it has become. The full list, each at its line, is `hazards` in
`PROJECT.json`.

## 2. Modules

| Module | Models | State |
|---|---|---|
| `StockLedger` | the counter helpers | `Reserve`, `Release`, `Consume`, `IssueMore`, `TakeBack` as functions on a product's three counters; `CanTake` is the guard in the update filter |
| `Totals` | sums over finite sets, as the projection, the selection list and the arrivals need them | `Total` |
| `StockPool` | abstract specification | units of an item are on the shelf, held or issued; a step moves them in one direction |
| `BookingStock` | bookings from selection list to settlement | `stock` products, `resv` reservation documents, `row` order rows (a line is a pair of booking and reservation), `used` booking numbers, `overdue` bookings past the deadline, `inflight` requests past their check, `job` what the job's run has decided |
| `IndentAllocation` | arriving stock onto open indents | `stock`, `indent` documents, `row` order rows, `drawn` fresh booking numbers, `elsewhere` and `arrived` units, `pass` what each pass or assignment has read, decided and holds |
| `BookingEdit` | the desk edits a booking's lines | counters, `orderRow`, `owed` indents, units of rival bookings |
| `SelectionList` | a customer's reservations of one SKU, and the expiry job | reservation documents, what each request read, what each run of the job listed |
| `LedgerBook` | abstract specification | one batch per key; a reversal is the contra-entry of one original |
| `LedgerPosting` | the ledger service, write by write | batches, claims and marks on movements, where each call is |
| `StockProjection` | counters, ledger and balance of one product | `queued`, posted and folded movements, what a rebuild and an adjustment have read |
| `StockCount` | physical counts | sessions, sheets, locks, the ledger linkage, where each request is |
| `ImportJob` | an import that moves stock | job, rows, batches by chunk, balances, where each worker is |
| `UpcomingStock` | shipments awaited | clock, stamps, shipment lines, arrivals, `synced`, passes |
| `AlertEngine` | health and alerts of one SKU | the inputs, the row, the alerts, what each sweep and person has read |
| `BookingTimeline` | what the customer is told of a booking | rows, events, requests |
| `ReportRun` | one period of a weekly report | the run record, attempts, mails |
| `Sessions` | the sessions of one account | sessions, cookies, refreshes under way |
| `MCBookingStock`, `MCIndentAllocation`, `MCDesk`, `MCStores`, `MCBackOffice` | constants for TLC | `MCDesk` joins `StockProjection`, `SelectionList` and `BookingEdit`; `MCStores` joins `LedgerPosting`, `StockCount` and `AlertEngine`; `MCBackOffice` joins the other five |
| `…Proofs` | the theorems | section 4 |

The components joined in one `MC` module share no state, in the models as in the code: a behaviour picks one
part and the others stay where they began. That puts several questions into one run and changes none of them.

`BookingStock` action by action:

| Action | Code |
|---|---|
| `CreateReservation`, `TopUpReservation` | `createReservation`: a new selection-list line, or the increment of the one there |
| `ConfirmBooking` | `confirmBooking` → `runConfirmBooking`: every reserved line of the customer, in order, takes what it can; rows, counters and reservations change in one transaction |
| `CreateDirectBooking` | the uploaded sheet: reservations made and confirmed in the same transaction |
| `CreateOrder` | `createOrder`: no reservations, and the missing remainder is not kept |
| `BeginRaisePo`, `PoCommits` | `raisePo` and `updateOrderPO`: the checks on rows read first, then the transaction with what it re-reads (cancellation) and what it does not (the lock) |
| `IndentStamped` | `updateOrderPO`'s separate write of the PO onto the indent |
| `BeginCancel`, `CancelCommits`, `LeftoverIndentCloses` | `cancelBooking`, with its branch for a booking already cancelled |
| `BeginStatus`, `StatusCommits` | `applyBookingStatus` |
| `RequestFails` | the process dies or the transaction gives up: the remaining writes of a request do not happen |
| `JobScans`, `JobConsumes`, `JobExpires`, `JobAborts` | `runPoSettlement`/`settleOnce`: the list, the two branches with their fresh reads, an aborted run |
| `DeadlinePasses` | seven days pass (`daysSince` ≥ `PO_DEADLINE_DAYS`) |

`IndentAllocation` (`w` is a pass or a manual assignment; every write is a step of its own, because none of
this runs in a transaction):

| Action | Code |
|---|---|
| `Lists`, `PassDecides` | `processAvailableIndents`: the list of open indents, then balances, booking rows and the walk oldest first |
| `ReadsIndent`, `AssignmentDecides` | `assignToIndent`: its read of the indent, then its checks and its read of the rows |
| `JobStarts`, `Onwards` | the loop over bookings to go back to and fresh bookings |
| `Claims` | `claimIndentQuantity`, and the claim of `bookForCustomer`, which looks at the status only |
| `TakesStock`, `RestoresIndent` | reserve or issue as the rows were read; refused: the unconditional undo of the claim |
| `JobWrites`, `WriteFails`, `Unwinds` | the `bulkWrite`/`insertMany` that ends a job, its failure after any prefix, and the rollbacks one write at a time |
| `PassDies` | the process stops; nothing is undone |
| `PoConsumes`, `BookingCancelled` | `settleBooking` as one transaction (its requests are modelled in `BookingStock`) |
| `DeskCancelsIndent` | `cancelIndent` of the MSIL desk |
| `AllocationCancelled`, `AllocationMoved` | `cancelInwardAllocation`; the release step of `reassignAllocation` |
| `OtherBooks`, `OtherReleases`, `Arrives` | bookings without indents, material inward |

The desk (`MCDesk`):

| Module: actions | Code |
|---|---|
| `StockProjection`: `Books`, `Releases`, `Consumes`; `PostsQueued`, `SkipsPosting`; `Folds`, `LosesFold` | a booking's transaction with the movement it queues; `post` after the commit, late, out of order or never (timeout, breaker, swallowed error); `applyMovements`, or a death before it |
| `RebuildReads`, `RebuildWrites` | `rebuildBalances`: the aggregate, then the comparison and the write |
| `AdjustDecides`, `AdjustPosts`, `MirrorReads`, `MirrorWrites`, `AdjustDies` | `adjustStock` and `syncLegacyStock`, an await at a time |
| `SelectionList`: `ReadsTo…`, `TopsUp`, `Creates`, `Saves…`, `Confirms` | the reservation controller: a document is read, and incremented (`$inc`) or saved whatever it is by then; `runConfirmBooking` in one transaction |
| `IndentTaken`, `UnitArrives` | `claimIndentQuantity`; stock in |
| `RunLists`, `RunClaims`, `RunMails`, `RunDies`, `Grows` | `runReservationExpiryChecks`: one list, a conditional claim per line and stage, the mails after them; days pass |
| `BookingEdit`: `Amends`, `RemovesLine`, `AddsRow`, `SetsHeldQuantity`, `SetsIssuedQuantity`, `RecodesLine` | `runUpdateItems` with `setIndentShortfall`: before and after the PO, one change a step, a refused step aborts the request |
| `RaisesPoOnRows`, `JobSettlesRows`, `CancelsRows`, `IndentServed…`, `DeskClosesIndent`, `Rival…` | what else happens to the booking, its indents and the shelf meanwhile |

The stores (`MCStores`):

| Module: actions | Code |
|---|---|
| `LedgerPosting`: `BeginsPosting`, `LooksUp`, `WritesBatch`, `WriteErrors`, `CommitUnknown`, `Answers` | `postBatch`: replay check, transaction, duplicate key, an error before or after the commit applied |
| `BeginsReversal`, `Claims`, `Stamps`, `Fails`, `Dies` | `reverseMovement`: guards, the conditional claim, the posting, the stamp, the release of the claim, a death anywhere |
| `StockCount`: `CreatesCount`, `InsertsLines`, `DeletesLines`, `ClosesOverlap` | `createCount`: the session, `insertMany` under the unique lock, and the clean-up after an overlap |
| `ReadsTo…`, `SavesCount`, `Enters` | `startCount`, `recordCounts`, `submitCount`, `reviewCount`, `cancelCount`: read, check, save later |
| `ReadsToPost`, `FindsVariances`, `PostsVariances`, `FoldsBatch`, `StampsLines`, `WritesRecord`, `SavesPosted`, `ReleasesLocks` | `postCount`, a write at a time |
| `AlertEngine`: `Turns`, `ReadsInputs`, `WritesHealth`, `ReadsHealth`, `Lists`, `Resolves`, `Raises`, `SweepFails` | a change of an input; `recomputeHealthForSkus`, then `evaluateSkus` |
| `ReadsAlert`, `SavesAlert` | `transitionAlert`: read and save later |

The back office (`MCBackOffice`):

| Module: actions | Code |
|---|---|
| `ImportJob`: `ReadsToConfirm`, `ConfirmsJob`, `ReadsToCancelJob`, `CancelsJob`, `PurgesRows`, `ReadsToResume` | `confirmJob`, `cancelJob`, `resumeJob` |
| `ClaimsJob`, `LockAges`, `PicksChunk`, `ReadsBalances`, `PostsChunk`, `RetriesChunk`, `RetriesCommitted`, `PostFails`, `FoldsChunk`, `MarksRows`, `CountsRows`, `FinishesJob`, `ThrowsProcessing`, `FailsJob`, `DiesImporting` | `runJob` with its lock and its chunks, each write a step |
| `UpcomingStock`: `RecordsShipment`, `EditsShipment`, `ClosesShipments` | `commitImport`, `updateShipment`, `closeShipment`, `deleteSkuEntries` |
| `BeginsPass`, `TakesSince`, `Scans`, `Applies`, `FinishesPass`, `DropsPass` | `syncUpcoming` and `applyArrivals`; `AllocateFifo` is `allocateFifo` |
| `BuildsMovement`, `CommitsMovement`, `Ticks` | a movement is stamped when built and seen when committed |
| `BookingTimeline`: `AsksMove`, `VisitsRow`, `CancelsBooking`, `CountsEvents`, `InsertsEvent`, `EventIsLost`, `SendsMail`, `StampsEvent`, `MailIsUnsaid`, `ResendsMail` | `applyBookingStatus`, `recordEvent`, `notifyCustomer`, `resendStatusMail` |
| `ReportRun`: `ReadsRun`, `CreatesRun`, `TakesRunOver`, `PreparationFails`, `MailAccepted`, `MailRefused`, `RecordsRun`, `RecordingFails`, `AttemptDies`, `ClaimAges` | `claimReportRun`, `sendReportWithRetries` and the jobs around them |
| `Sessions`: `SignsIn`, `SignsOut`, `ChangesPassword`, `RevokesAll`, `AsksRefresh`, `LooksUp`, `Adopts`, `Rotates`, `GraceEnds`, `AnswerArrives`, `AnswerLost` | `login`, `logout`, `changePassword`, `resetUserPassword`, `refresh` |

Abstractions, and why they are exact enough:

- The deployment is a replica set, so `runInTransaction` really runs a transaction. Two transactions that
  touch the same row or product conflict and one is retried, so each is one step on the state as it is
  then. The fallback for a standalone database, without transactions, is not modelled.
- A transaction calls a counter helper once per line; `BookingStock` calls it once per SKU with the sum. The
  helpers are additive as long as booked covers what is released or consumed, which is `BookedIsHeld`.
- In `BookingStock` and `IndentAllocation` a sum over lines is written as the cardinality of a set of units
  (`Units`, `Quantity`), so that the finite-set theorems give its laws; where quantities may be negative or are
  handed on (`Totals`) it is the community modules' sum, and section 4 says how its laws are proved.
- Deducting line after line is the predicate `Allots`: a line goes short only when it and the lines before
  it emptied the shelf. This determines the deduction uniquely.
- A booking number drawn by a transaction that aborts is simply not in `used`; a generated PO number is one
  that passes the uniqueness check.
- The job reads a booking's age when it lists it and ages only grow, so testing `overdue` at `JobExpires`
  allows every behaviour of the code.
- `IndentAllocation`: what is left of a SKU is read from balances that trail the counters, so a pass may see
  any figure; an indent may be skipped (a date still to come, the MSIL check, a PO number on it); the inward
  allocations of a line are kept as their sum; a row is `released` exactly when its status is Cancelled; a
  product that disappears is not modelled. An arrival adds to the counters: that the code mirrors them from
  balances belongs to `StockProjection`.
- `SelectionList`: the slots of new documents are taken in order, because nothing tells them apart; `Age` is
  the part of a window's age that the stages tell apart.
- `StockProjection`: a balance is a bag of movements, so a movement folded twice shows.
- `UpcomingStock`: a transaction commits within the look-back, which MongoDB's lifetime of 60 seconds
  against `LOOKBACK_MS` of 15 minutes justifies; a pass is dropped only between writes, because before them it
  leaves nothing behind; nothing new begins at the clock's last value (a bound).
- `AlertEngine`: product, balances and configuration of a SKU are read at one moment; a live alert that is
  seen again is not written; `raiseAlert`'s touch, create and touch again are one conditional create, which
  is what the unique index makes of them; every rule is enabled; delivery and its cooldown are left out.
- `BookingTimeline`: `updateMany` is no transaction, so it visits the rows one by one in any order.
- `ReportRun`: one period; what the report says is data.
- `ImportJob`: a failure to write a row's product master is not told apart from the other failures of a row.
- `Sessions`: signing in is one step, and a browser does it only while its tabs are quiet; a refresh of an
  inactive account (it revokes all, as a reset does) and the seven-day expiry of a token are not modelled.
- Left out everywhere: prices, mails other than those a property is about, audit rows, delivery dates, box
  numbers. The call of `processAvailableIndents` at the end of a cancellation or a job run is a series of
  separate writes after the commit: it is a pass of `IndentAllocation`.

Operators marked "Mutant" are seeded bugs next to the definition they would replace. They are never used by
a specification; each shows that a property notices that bug.

## 3. Runs

| Run | Instance | Question | Distinct states |
|---|---|---|---|
| `quantities` | 1 booking, 2 lines of 1–2 units, 3 units of 1 SKU, 2 requests at once, 1 PO, 1 stage | do counters, lines and indents agree through partial confirmation, PO, cancellation before and after it, expiry, stage moves? does the core implement `StockPool`? | 45,263 |
| `rivals` | 2 bookings, 2 SKUs, 2 lines of 1 unit, fair | does every hold end? | 97,910 |
| `allocation_races` | 2 passes, 2 indents of 2 and 1 units (one of a booking that got 1 unit), 1 unit on the shelf, 1 to arrive, 1 held elsewhere | is every unit and every promise accounted for while passes, settlements and undo interleave? | 723,552 |
| `allocation_batches` | 1 pass, 3 indents of 2, 2 and 1 units, 2 SKUs, the first 2 of one booking | do units follow lines in jobs of several items, new lines, part fills, writes that fail half-way, lines deleted under a pass? | 665,088 |
| `copies_list_edits` | 1 line and 2 adjustments; a selection list under 2 requests or runs; a booking of 2 SKUs with edits | is the balance the ledger? is what was asked booked once or still asked for? do stock and indents follow edited lines? | 1,175,504 |
| `records` | 3 callers and 4 keys, two of which reverse one movement and one the reversal; 2 overlapping counts, 2 requests at once, 8 in all, 1 death; 2 sweeps, 3 turns, 1 alert handled | does the service implement `LedgerBook`? is what a count posts approved, posted once and known? has each condition one alert? | 652,695 |
| `flows` | 3 rows in 2 chunks, 2 workers; 2 arrivals, 2 shipments, 2 passes, clock to 3; 2 rows, 2 stages, 2 requests, 3 moves; 3 attempts, one forced; 2 browsers, 2 tabs of one, 3 tokens | are rows and arrivals counted once and none missed, a stage announced once, a report mailed once, tabs kept signed in? | 647,597 |
| `po_overwrite` | 2 PO numbers, 2 requests, no override | violated: a second raise overwrites the first | – |
| `cancelled_ends` | 1 booking, 1 stage | violated: a stage move revives cancelled lines | – |
| `stock_follows_line` | as `allocation_races`, no faults | violated: units reserved for a line already consumed | – |
| `live_remainder` | as `allocation_races`, no faults | violated: an undo writes over a later claim | – |
| `four_eyes` | 2 users, 1 count | violated: who counted approves | – |

What each property rules out is stated beside it in the modules. Deadlock is checked in the runs of
`BookingStock` and `IndentAllocation`, where something is always possible. It is not in `MCDesk`, `MCStores`
and `MCBackOffice`: their calls are bounded and a behaviour may have used them all up. The code never waits
on another request.

Bounds. `MaxQty` bounds a line's quantity, `MaxInflight` the requests between check and commit, and the sets
bound the rest. Two units per line with three on the shelf is the smallest instance with a full, a partial
and an empty fill; two requests at once are what is needed for one to invalidate the other's check; two
bookings are what the job's stale list and competition for a shelf need. In `IndentAllocation`, `MaxQty`,
`RowId`, `MaxArrived`, `MaxElsewhere` and `Faults` (each failure at most once) are the bounds; `MaxGaps` and
the constraint `Followed` stop a behaviour at its second kind of gap, or once a gap has invented units, which
it could then repeat for ever. An indent of two units is the smallest that can be claimed in part; two
workers are what it takes to overtake a claim or a reading. In the joined runs each component has two actors
of the kind that races, and one more call than a race takes; alerts are followed up to their first slip
(`Followed`), of what comes after which their property says nothing. Actors that are interchangeable are
symmetric. The theorems remove the bounds.

Exceptions. Most of these properties hold but for events the code has no answer to. Each module records them
in a history variable and the property names the ones that break it, so that everything else is still shown.
In `IndentAllocation`, `gaps` records a booking settled under a pass that had read its rows (`crossed`), a
line deleted under one (`deleted`), an undo that wrote over a later write (`overwritten`), a fresh booking
that claimed an indent whose quantity had changed (`outdated`), a write half applied and then undone in full
(`torn`), a pass that died holding something (`died`); `closed` notes that an indent was cancelled.
`NoOversell` holds whatever happens. `HeldIsBacked` fails only after `torn`; `UnitsFollowLines` only after
`crossed`, `deleted`, `torn` or `died`; `OwedOnce` only after `overwritten`, `outdated`, `deleted`, `torn` or
`died`. The other histories are `drift` and `stale` (`StockProjection`), `overtaken` and `rewound`
(`SelectionList`), `mishap` (`BookingEdit`), `doubtful` and `orphaned` (`LedgerPosting`), `odd`
(`StockCount`), `importOdd` (`ImportJob`), `slip` (`AlertEngine`), `astray` (`BookingTimeline`), `amiss`
(`ReportRun`) and `parted` (`Sessions`). Each exception is needed: without it TLC refutes the property.
Some exceptions are the very event a hazard describes, and there the property says what holds short of it: a
death between the posting of a count and its fold (`PostedIsExplained`), an entry written late on a sheet
(`PostedAsApproved`), two attempts that take one report over (`MailedOnce`), a copy made from a balance that
was behind (`CopyKeepsCounters`). And `CancelledKeepsNoIndent` is claimed for the booking core alone, not for
a pass that adds lines to a booking cancelled meanwhile.

Fairness (`rivals` only). The hourly cron keeps starting the job (weak fairness of `JobScans`), time
passes (weak fairness of `DeadlinePasses`), and a run, which may abort at any moment, is not aborted for ever
before it gets to a given booking (strong fairness of `JobConsumes` and `JobExpires` per booking). No
fairness is assumed of people: nobody has to raise a PO, cancel or commit.

The five violations are disagreements between a comment and the code, described under `findings` in
`PROJECT.json`.

- *PO overwritten.* `raisePo` and `updateOrderPO` check the lock on rows read before their transaction. The
  transaction re-reads the booking but only for cancellation, so two requests that both passed the check
  both stamp their number. Stock is unaffected: the second `settleBooking` finds nothing reserved, which is
  what `SettledOnce` and `IssuedIsConsumed` show.
- *Cancelled is not the end.* `applyBookingStatus` refuses to move a booking to Cancelled but not from it,
  and its update rewrites every line that differs. Stock is again unaffected: the revived line stays
  `released`.
- *Stock that does not follow its line.* A pass decides from booking rows it has read whether units are
  reserved or issued, and adds them to the row by its id. If the PO is raised in between, the units are
  reserved for a line that is already consumed, and stay in `bookedQuantity` with no line to release them.
- *A remainder that is not live.* The claim of an indent is conditional, its undo is not: a pass that found
  no stock puts back the quantity it read, although another pass has claimed and taken the rest since.
- *Who counted approves.* `reviewCount` compares the approver with the user who started or submitted the
  count; `recordCounts` lets any user of the warehouse enter counts on it, and that user may approve them.

The models show further disagreements that no run of its own is spent on; each is an exception of a property
above, but for the PO number, of which no property speaks:

- An edit of a cancelled booking releases its units a second time, and a line added after the PO under an
  override is issued but recorded as reserved, so the job deducts it again (`models/Order.js:44-47` says that
  a re-run can never release or deduct twice): `mishap` in `BookingEdit`.
- Two overlapping additions to a selection list each find no line, and make two.
- A PO number given by hand "must be unique across other bookings" (`sales.controller.js:844`), but only
  `raisePo` looks, and before its transaction: an order may be created with a number in use (`CreateOrder`),
  and two raises that both passed the check stamp the same one (`PoCommits`).
- A worker that dies between marking and counting rows leaves a job that ends as Completed with failed rows;
  a failed job cannot be resumed although `import.service.js:1952` says it can.
- `updateMany` is not atomic, so a double click can be announced twice although
  `models/BookingStatusEvent.js:40` relies on it.
- The retry of a failed report is check-then-act (`utils/reportRun.js:26-37`): two attempts may take it over.
- A refresh overtaken by two rotations is signed out.
- `recomputeHealthForSkus` names a variable of its `try` in its `catch` (`health.service.js:380`), so a
  failure raises a ReferenceError where the comment above says that it never throws.
- Two people's saves, or a person's and the engine's, can make a Closed or Resolved alert stand again,
  although `models/InventoryAlert.js:55-59` calls Closed terminal.

## 4. Proofs

Every theorem is for all values of the constants that satisfy the named assumptions of its module (finite
sets where a count is made, quantities that are natural numbers); TLC evaluates these assumptions in the runs.
The proofs have one shape: an inductive invariant, usually type correctness with a few facts on where each
actor stands; one lemma per action that says what the action does to the state (`…Effect`, or a classification
of steps); one lemma per action and conjunct it can disturb; and a last step for the temporal logic.

| Module | Theorems | The argument |
|---|---|---|
| `BookingStockProofs` | `TypeCorrect`, `CountersAlwaysBalance`, `BookedAlwaysHeld`, `IssuedAlwaysConsumed`, `NeverOversold`, `AlwaysSettledAsAWhole`, `CancelledNeverKeepsIndent`, `AlwaysSettledOnce`, `ExpiryAlwaysDue`, `CoreImplementsPool` | see below |
| `IndentAllocationProofs` | `TypesKept`, `NothingOversold`, `AlwaysOwedOnce`, `HeldAlwaysBacked`, `UnitsAlwaysFollowLines` | see below |
| `TotalsProofs` | (lemmas) | the laws of sums: see below |
| `StockProjectionProofs` | `BalanceFollowsLedger`, `CopyKeepsTheCounters`, `CopiesTyped` | a movement is counted once when it is folded and not before; between a rebuild's reading and its writing, what it read is what is counted; the copy: see below |
| `DeskProofs` | `AlwaysPromisedOnce`, `AlwaysRemindedOnce`, `EditsAlwaysKeepStock`, `OwedAlwaysShortfall`, `DeskTyped` | the list: documents not yet created hold nothing; what was asked for is promised, booked or ended; a reminder claimed is marked, a mail sent was claimed by one run, and a line expires at the end of its window; the edits: see below |
| `StoresProofs` | of the ledger `LedgerInvariance`, `LedgerTypeCorrect`, `ReversedAtMostOnce`, `AlwaysMarkedAsReversed`, `WrittenByOne`, `ClaimsAreOwned`, `PostingImplementsBook` | the claim of a movement is held by one caller or by one that died; a contra-entry is covered by a claim or a mark; one caller per key wrote its batch |
| | of the counts `CountInvHolds`, `CountsAreDisjoint`, `PostingsAreExplained`, `PostingsAreApproved` | an open count's line holds the lock of its SKU, or its request is still inserting or cleaning up; the batch, its fold and its records can be read off where the postings of the count stand; what a posting found is what was approved |
| | of the alerts `AlertsAlwaysFollowHealth`; of all three `StoresAreTyped` | up to the first slip: a row not yet recalculated has a sweep that will read it, an evaluation's reading is the row, and the difference between the live alerts and the wanted ones is what some sweep still has to write |
| `UpcomingStockProofs` | `NothingEverMissed`, `ArrivalsAlwaysAddUp`, `ServedInOrder` | see below |
| `BackOfficeProofs` | `AlwaysMailedOnce`, `AlwaysAnnouncedOnce`, `ImportMovesOnce`, `JobsTellTruth`, `BrowsersStaySignedIn`, `BackOfficeTyped` | the report: one attempt is past its claim, and whether the mail left can be read off where it stands; the timeline: entries to a stage are its events and at most one still to be recorded, which will find the next number free, and one request mails about an event; the import: a batch holds what its rows asked for and a row is counted when its batch is folded, while chunks are whole and the rows in a worker's hands account for the rest; the sessions: see below |

`BookingStock` in more detail. None of the counter invariants is inductive alone: `Release` keeps
`available + booked = total` only when booked covers what is released, which is true because booked is the
sum over reserved lines (`BookedIsHeld`); and that sum is kept by a settlement only if every reserved line can
be settled, that is, if no cancelled line is still reserved (`HeldIsLive`); and a confirmation adds exactly
its new lines only if the booking number it draws has no rows yet (`FreshBookings`). `IInv` is the conjunction
of these with the type invariant, `IssuedIsConsumed` and `NoOversell`. The proof first classifies steps
(`StepKinds`): as far as the books are concerned a step confirms, consumes, releases, moves lines along their
stages, or leaves lines and counters alone. Each kind has one lemma about sums (`ConfirmUnits`,
`ConsumeUnits`, `ReleaseUnits`, `RestageSums`) resting on four facts about `Quantity`: it is a natural number,
adds over disjoint sets of lines, depends only on the quantities, and is zero on no lines. Each kind of step
also maps to one step of the pool.

`IndentAllocation` in more detail. `IInv` (a worker past its claim knows its indent; what it takes afresh it
takes whole or not at all; a row's inward allocations are part of its quantity) makes the shelf a natural
number at every step, which is `NoOversell`. The other three properties compare sums, and a second invariant,
`AimInv`, says what makes each step move the same units on both sides. A pass is orderly (`PassOrder`: it has
units in hand only inside a job, for indents it means to take units of, and never for one twice). What it aims
at is still what it saw (`RowAim`: the row is the line of that indent with its stock where it was, unless a
line was deleted or a booking settled under the pass; a line seen consumed is never reserved again). And an
indent is cancelled only where that is noted (`OnlyClosed`). A sum is the size of a set of units: `Size…`
says how it changes when one number changes, when numbers are split and when they move along an injection.
Each action has one lemma on what it does to these sums (`…Effect`), and each effect one on the promise to an
indent (`PromiseKept`) and one on the counters (`CoverKept`, `FollowKept`): a pass's step moves units between
indent and claim, shelf and hand, hand and rows; a settlement between rows and shelf. The hardest is the write
that ends a job: the rows of `WritesRows` are an injection of the indents in hand into rows
(`ReceivedWritten`, `QuantityWritten`), and by `RowAim` no more lands on reserved rows than the hand had
booked, and all of it where no line was deleted and no booking settled. `Release` and `Consume` are exact
because booked covers what they take, which is the invariant itself (`Covered`).

The attempt to prove `AimInv` showed that the model was too wide in one place: a line deleted under a pass
left its number free, a later write could use it for another indent, and the pass then added its units to
that. MongoDB never hands out an id twice, so a new row now takes a number no pass still looks for
(`FreeTail`).

`UpcomingStock` in more detail. `NothingMissed` says that the mark a pass leaves is at most a look-back ahead
of a movement that is still due, so it depends on what every pass at work has read. `UpInv` says that
(`Reading`): the earliest line a pass knows is no younger than any open line; where it scans from is not past
anything due; what it goes on to count contains everything due, except what lies within a look-back of the
scan and of everything it will count; and what is due after that lies within a look-back of the scan's
beginning, the mark it writes. One fact keeps all of this true under the steps of others (`Follows`): a
movement seen late was stamped no earlier than now less the look-back (`Clocked`), and a line opened late is
as young as now. So the proof has one lemma for the passes that do not move (`OthersRead`) and one lemma per
action for the pass that does. What a pass counts against which line does not matter to it, only that the line
keeps its age (`LineSteps`) and that what is counted stays counted (`Tally`).

`ArrivalsAddUp` compares what each line received with the sum, over all movements counted, of what each gave
it. `SoundArrivals` says that, for every line, and that a line which may still take units has dropped none and
received no more than was ordered. A pass counts its movements one after the other, and
each movement serves the lines in their order, each taking what those before it left; the code does both with
loops over sorted lists. The lists are related to their sets by `OrderIs` (a sorted list names every element
once), and what is left after the first n lines by `LeftTotal`. Both are inductions along the order (`UpTo`: if
not every position had the property, there would be a least one without it). `FifoShares` is a fact about
every state of that kind (`SharesInOrder`): after each indent the pool is what the needs so far leave of it
(`FifoIs`), so a later indent is promised something only when an earlier one is served in full.

Sums. `Totals` takes its sum from the community modules, where it is a fold, and a fold is recursion over a
finite set. The library's induction theorems take the property as an operator and cannot be used here.
`TotalsProofs` therefore argues from least counterexamples: `LeastOf` finds the least of a set of numbers from
the well-foundedness of `<`; `SmallestSet` the smallest subset of a finite set that lacks a property, the
property being given as a set; `SetRecursion` that a recursion over subsets has a function that obeys it; and
`TotalRecursion` that the sum is such a function. From it follow that a sum may be begun anywhere (`TotalAny`),
changes by what one value changes by (`TotalChange`), adds over disjoint sets (`TotalBoth`) and does not change
under renaming (`TotalNamed`). `DeskProofs`, `StockProjectionProofs` and `UpcomingStockProofs` rest on them.

`StockProjection` in more detail. `CopyKeepsCounters` says that what is booked is what the live lines hold and,
at rest, that the total is the opening stock and the adjustments less what was sold, unless a copy was made from a balance that was behind, or
something happened between its reading and its writing (`stale`). `CopyInv` adds that a line is where its two
movements put it (`LinesAreMoved`), that an adjustment's movement is posted before it is copied
(`AdjustmentsPost`), and that a reading which was not behind says what the counters should be until something
else happens (`CopiesAreRight`). `BalanceIsRight` is the step that needs the sums: a balance in which all that
happened is counted once adds up to the opening stock, the lines and the adjustments.

Types. Each type invariant of section 3 is a theorem too, and few are inductive alone. That the units of a
list's line on the shelf never go below zero needs the confirmation to take no more than there is
(`NeverMoreThanFree`, from the deduction line after line, `FirstComeFirstServed`). That `entered` stays within
the requests needs that a request which has moved no row yet has been asked for (`EntriesAsked`: the entries to a
stage and the requests still undecided are together no more than were asked). That a report is tried no
oftener than allowed needs that an attempt at work has tries left (`TriesLeft`). That a balance counts a
movement no more than twice, however rebuilds and folds cross, needs `CountedAtMost`: one that has not been
folded is counted once at most. And that a person's save is of an alert that exists is a type (`AlertTypeOK`:
alerts are never removed).

`BookingEdit` in more detail. The two properties compare the counters and the indent of a SKU with sums over
the rows of the booking, and an edit changes one row and the counters by what it thinks that row holds.
`EditInv` (`EditShape` and, for every SKU, `SkuKept`) makes the sums disappear: unless an edit of the
cancelled booking befell the SKU it has one row at most, because a request must not name a SKU twice and a
served indent only adds a line where there is none, and what is booked, what is on the shelf and what is owed
are read off that row (`Covers`, `HeldBy`, `TakenBy`) until something else befalls it. A row whose units
were given back was cancelled (`EditShape`), so an edit that gives them back again befalls its SKU, and
nothing has to hold of that SKU's counters from then on. There are three kinds of step: those that leave the
rows alone (`SameRowsStep`), those that settle the whole booking (`SettledRows`), and those that write one row
(`LineStep`, `RowStep`), of which recoding is the one that writes to two SKUs at once. That a new row gets a
free number needs the lines to have a last one (`LineNumbers`).

`Sessions` in more detail. `StaysSignedIn` speaks of the answers a browser is sent and of the cookie it ends
with; neither can be followed alone, because an answer may arrive long after the rotation that made it.
`SessionInv` follows a token from the cookie through a request to the answer (`Has`). No two browsers have a
token or a session in common and no browser uses two sessions (`OneBrowser`, `OneUser`, `OneSession`), one
that holds the token of the single-token scheme has nothing else (`OldAlone`), and a token on its way to a
browser is nowhere else (`PendingAlone`). Of a browser nothing parted from its session, `WellServed` says that
its cookie and what its requests carry are known, that no answer clears the cookie, and that the cookie is
current unless a newer token is on its way. Rotating is the step that needs all of this: a request that finds
its token current is the only one that can be, so no answer is pending, the cookie still holds that token, and
the grace covers it until the answer arrives. Sessions are a set, ordered by when they were last used as the
code's `$sort` orders them; the proof needs only that the session just made is the last (`NewIsLast`), so the
cap never drops it (`LastStays`).

Some assumptions are worth naming. `EditAssumption` says that the lines of a booking are numbered 1..n.
`AllocationAssumption` says that there are finitely many indents, rows and workers, that indents are numbered
from 1, and that the rows have room for the lines there are at the start. `ImportAssumption` says that a sheet
has finitely many rows, which the proof of `JobsTellTruth` needs to count them. `TimelineAssumption` says that
a booking has finitely many rows and that the lifecycle has a first stage, where a new booking is.
`ListAssumption` says that the documents of a list are finitely many and numbered from 1, and
`UpcomingAssumption` that the clock, which begins at 1, may reach 1.

Only model-checked:

- `EveryHoldEnds`: liveness under fairness, and what ENABLED means, are outside the prover. What it rests on
  is proved: `AlwaysSettledOnce` and `ExpiryAlwaysDue` say what the job's steps may do, the run `rivals` that
  they happen.
- the violations, which are counterexamples.

Every other property of a passing run is a theorem.

## 5. Not modelled, and the plan

Not modelled: catalogue data, prices and dashboards (derived values without a protocol), users, roles and
configuration (tables; a permission is a constant of a model), delivery of mail and notifications, the front
end (every rule it shows is enforced by the server code modelled here). Of the modelled components
`PROJECT.json` says per component what is left out: mainly the resolution of over-sold lines after a count,
the staging and parsing of imports, reconciliation and snapshots (they read and report), and alerts raised and
cleared by single events.

Next: alerts raised by single events, and reconciliation.
