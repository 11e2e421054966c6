# TuxedoFinance: a TLA+ development

This directory specifies the stateful core of TuxedoFinance, a self-hosted Django
application for personal finance. TLC checks the specifications on small instances; TLAPS
proves the properties that matter most for every value of the constants. `PROJECT.json`
holds the runs, the source lines each definition translates, the known hazards of the
code and, for each checked property, a mutant of the model that breaks it.

    tlc -config MCLedger.cfg MCLedger          # a run
    tlapm LedgerProofs.tla                     # a proof module

## 1. Inventory

The program is one Django process (several worker threads) over one SQLite database
opened with `transaction_mode IMMEDIATE` (`core/settings.py`): an atomic block takes the
write lock at its first statement, so concurrent blocks run one after the other. Reads
outside a block see the last commit. What is concurrent is therefore *sequences of blocks*
of different requests, and the work a request does between them (reading a provider,
loading a form, validating records, writing credential files). An operator's management
command runs beside it and keeps files of its own.

| Component | State | Operations | Hard behaviour | What makes it correct |
|---|---|---|---|---|
| **Transactions** (`transactions/models.py`, `projection.py`, `forms.py`) | `Transaction` rows with instalments, recurrence, splits | save, delete; derive amount per month, running total, occurrence window, billed month | several closed forms for one schedule, month clamping, cents that do not divide | closed forms agree with following the schedule month by month; splits never give out more than the instalment |
| **Ledger and invoices** (`transactions/services.py`, `banking/settlements.py`, `credits.py`, `models.py`) | `CardInvoice`, `BankMovement` (derived); `CreditCard`, `CardInvoiceCredit`, `InvoicePayment` (entered) | `sync_user_ledger` after every save and on opening the invoice page; confirm, correct, delete a payment; save and delete credits | derived rows follow sources but confirmed cash must survive them; two settlement modes; payments settle without reconciling; the day changes under the derived rows | a statement is settled once; a payment keeps its invoice; every purchase is on the statements once; history is not rewritten |
| **Dashboard, plans, scenarios** (`dashboard/`, `planning/services.py`, `sandbox/planning.py`) | none: figures read from the rows above | balances, projected close, card debt, net worth, month totals and their divisions, budget progress, cash warning, commitment snapshot | the same expense is counted by six pages, by purchase, by bill, by debit or by rate of the day | the pages agree; a payment moves neither net worth nor the forecast |
| **Chat runs** (`assistant/chat.py`, `views.py`) | `GenerationRun`, `Message`, conversation; the stream object of each request | start, replay, stream, tool, finish, cancel, expire, close, delete conversation | competing sends, retries, a cancel while a provider read blocks, lost clients, dead workers | one verdict per run, "done" only for a stored whole reply, one turn per run, a conversation never stays occupied |
| **Providers** (`assistant/providers/`) | one stream: token, timer, socket, the items heard | rounds of events and tool calls, cancel, deadline, close | the same call is told three times; a cancel races the opening of the socket | what runs is what was completed, once; a blocked read is always freed |
| **Reviewed actions** (`assistant/action_service.py`) | `ActionProposal` and the rows it depends on | prepare, confirm, cancel | the records are read one by one with no transaction; several tabs; expiry; projection limit | executed at most once, and only while the records are as shown |
| **Provider connections** (`assistant/connections/service.py`) | `AuthorizationAttempt`, `ProviderConnection`, their encrypted files and lock files | begin, callback, finish, cancel, refresh, use, activate, disconnect | files and database are written one after the other under file locks; a refresh token works once | no secret outlives a cancelled attempt or a disconnect; a renewed token is never lost |
| **Vault** (`assistant/connections/vault.py`) | key, check, host identity, record files, temporary names | set up, write, read, delete, preview | set up by whoever comes first; crash between any two file operations; half a backup restored | records stay readable; a setup that was cut short is taken up |
| **Statement ingestion** (`ingestion/services.py`) | `ImportBatch`, `ImportedRow`, `ExternalStatementIdentity` | stage, map, review, confirm, undo | stale pages, overlapping statements, undo after edits | an entry counts once; undo takes back what nobody else uses |
| **Open Finance pilot** (`ingestion/open_finance/`, `pluggy_invoice_pilot`) | lock and report files, one run's requests | fetch pages, check, build, store | lists that move between pages, limits, crash while storing | one run at a time asks the provider, and none beside a report that answers it; the report is whole |
| **Investments and banking operations** (`investments/`, `banking/services.py`) | operations, openings, movements, points entries, redemptions, rates | enter, edit from a loaded form, delete, redeem, transfer | an operation owns rows of the bank side; editing history; forms that are stale when saved | positions covered and cost explained; bank side present once; points held; history keeps its rate |
| **Goals and budgets, categories** (`planning/`, `categories/`) | goals, allocations, settings; the category tree, limits | reserve, archive, restore, spend; set, copy, move, import | reservations compete for a balance that moves; a tree that moves under limits | no balance backs two goals; no expense counts against two limits |
| Core, pages, templates, scripts, documentation | none | | | presentation and tooling |

How they interact: every form that saves a transaction, card or credit calls
`sync_user_ledger` in the same atomic block. A chat run asks the connection service for a
token, which comes out of the vault, then streams from the provider; it calls tools through
`run_tool`; one of them prepares an action proposal, which the finished reply attaches to
its message; a confirmed proposal saves a transaction through the same form and the same
reconciliation. Ingestion creates transactions, payments and transfers and reconciles.
Goals are backed by the balances of accounts and positions; all reports read the ledger.

## 2. Modules

    Calendar              months and days, clamping, statement and due dates
      Occurrences         what a transaction bills, month by month
        Accrual           a transaction followed through the months
          MonthFigures    what the dashboard makes of one month         MCAccrual, MCRecords   AccrualProofs
        Ledger            sources, reconciliation, settlement
          Reports         what the pages read from it
            Commitments   the snapshot of a scenario                    MCLedger            LedgerProofs
    ChatRun               sends, streams, cancels, deadlines, failures  MCChatRun   ChatRunProofs
    ProviderStream        the rounds of one reply                       MCRemotes           ChatRunProofs
    ReviewedActions       what is promised of a proposed action
      ActionProposals     prepare, confirm, discard; implements it      MCActionProposals   ActionProposalsProofs
    LinkedAccounts        what linking an account promises
      Connections         attempts, rows, secrets, locks; implements it MCConnections       ConnectionsProofs
    Vault                 the files behind it                           MCIngestion         IngestionProofs
    ReviewedPostings      what importing a statement promises
      Ingestion           stage to undo; implements it                  MCIngestion         IngestionProofs
    OpenFinancePilot      one command, its requests and its report      MCRemotes           IngestionProofs
    Positions             replaying a history of operations
      Holdings            operations, points, conversions, rates        MCHoldings, MCRecords  AccrualProofs
    Rounding              quotients to the nearest, ties to even: Goals and MonthFigures
    Goals, Budgets
      Planning            both, side by side                            MCPlanning          PlanningProofs
    Sums                  lemmas: sums over finite sets; the ledger, accrual and planning proofs extend it

**Calendar, Occurrences.** Pure operators over a grid of months of a few days each,
translated one method at a time from `Transaction`, `CreditCard` and `projection.py`:
`AmountForMonth` is `amount_for_month`, `OccurrenceMonths` is `occurrence_months`,
`StatementMonth` and `DueDate` are the methods of `CreditCard`. Amounts are cents.

**Accrual, MonthFigures.** A clock that moves a transaction from month to month and
accumulates what each month bills: the reference for the closed forms. Its initial states
are every item and card that the form accepts (`WellFormed` is `Transaction.clean`).
`MonthFigures` adds the rates: what a month amounts to in the base currency, on the day
`_activity_rate_date` chooses, and its division into categories. An amount in the base
currency is a `Decimal` that keeps a fixed number of digits: `Convert` multiplies or divides
and rounds to the nearest, ties to even, at the place that size leaves (`Place`,
`HalfEven` of `Rounding`), and every addition is rounded again (`Plus`). `Shared` keeps every row, one that
was charged nothing included, leaves out what has no rate and gives the last row the
residual, which may be negative; where a row is kept but the whole has no rate, it raises, as
`value + None` does.

**Ledger.** `cards`, `items`, `credits`, `payments` are the rows users enter; `invoices`,
`itemMoves`, `invoiceMoves`, `paymentMoves` are the derived ones. `Reconcile` is
`sync_user_ledger` as a whole: which invoices exist (`IsComputed`, `IsKept`), what they ask
for, how they are settled (`Settled` is `invoice_projection`), which movements follow. Each
operation of a user, `SaveItem`, `DeleteItem`, `SaveCard`, `SaveCredit`, `DeleteCredit`,
`OpenPage`, is its source change and that reconciliation in one step, because the code runs
both in one atomic block. `SavePayment` and `DeletePayment` do *not* reconcile: they
recompute the one invoice (`Refreshed` is `_refresh`). `NewDay` moves the clock and nothing
else, so the derived rows grow stale exactly as in the code.

**Reports, Commitments.** State functions over the ledger, no actions: `Balance`,
`ProjectedBalance`, `CardDebt`, `NetWorth` of `dashboard/services.py` and `wealth.py`; the
month in full and through a cutoff, by instrument, by recurrence and for a composition row;
`BudgetActual` of a budget; `Walked`, the cash shortage walk; `CommitmentSnapshot` of a
scenario, on either basis. In one currency: `MonthFigures` has the rates.

**ChatRun.** Each request is a process with a `pc`; its steps are its database accesses and
provider reads, as in `start_run` and `RunStream._events`: look for stale runs,
expire them, look up the id, prepare, claim (`Create`, refused by the unique constraints),
open the provider, check, read, run a tool, recheck, emit, finish, report. Beside them the
other requests cancel, expire, delete the conversation or revoke the session, and the
environment passes the deadline, disconnects a client, fails the storage or crashes a
worker, in any state. The first send to a conversation is a send to an empty one. The
provider is an environment here.

**ProviderStream** is that provider seen from `openai.py`: `Ask`, `Admit`, `Headers` open a
round, the `Hear…` actions are the events, `Accepts` and `CallsOf` are `_completed_output`,
`RunCall` and `ToolReturns` the loop over the calls, `Resume` and `Abandon` the generator's
consumer. `CancelFlags`, `CancelCopies`, `CancelCloses` are the three steps of
`CancellationToken.cancel` in its own thread, `Elapse` and `TimerCloses` the timer. A read is
blocked until an event or until its source is cut.

**ActionProposals.** `Begin`, `ReadRow`, `RenderRow`, `Store` are `prepare_action`, one row
read at a time because it holds no transaction. `Look` and `Apply` are `confirm_action`: a
read of the proposal, then one atomic block that claims, reads the records again, compares
digests, writes and reconciles. `LookToCancel` and `Cancel` are `cancel_action`. The state of
a record is a revision. `excessive` are the sources beyond the projection limit, for which
the code makes an exception so that they can be repaired. **ReviewedActions** is the promise:
a review is drafted and published, an action is executed only while every record it rests
on is as the review shows, or discarded, once.

**Connections.** A request (begin, callback, cancel, finish, refresh, token, activate,
disconnect) is a process; a step is a lock taken with the reading that follows it, or one
write to the database, the vault or the provider. A refresh token is a number the provider
accepts once. `Crash` ends a request anywhere and frees its locks. **LinkedAccounts** is the
promise: an authorization is decided once, and only a confirmation links a connection.

**Vault.** `Enter`, `Consider`, `Link`, `Unlink` are the set-up of key, check and host under
the setup lock: a file is published by a hard link of a temporary name. `Write`, `Delete`,
`Read` use a record under its lock; a preview takes none. `Restore` is a person putting
back, or losing, a file.

**Ingestion.** `Stage`, `Map`, `Review`, `SkipConfirmed`, `OpenConfirmation`, `Confirm`,
`Undo` are the operations of `services.py`; a page holds the digest of what it showed, and
`EditPosting`, `DeletePosting`, `DateOpening` are what the rest of the program does
meanwhile. **ReviewedPostings** is the promise: posted once, with the decisions the page
showed, and once undone it stays undone.

**OpenFinancePilot.** The command from its lock to the replacement of the report: every
request, lock and file operation is a step; the provider's lists (`Relist`) and the clock
(`Tick`) move between any two.

**Positions, Holdings.** `Replay`, `Available`, `Dispose` are `positions.py`. `Holdings`
enters, edits and deletes operations, openings, points entries and redemptions with the
movements they own. A view that edits a row loads it, validates, and saves the row it
loaded: `request` is one such view between its load and its save, so other submissions
fall in between. Cost and gain of a position are exact quotients, numerators over the common
denominator `over` of its row, where the code has `Decimal` at 40 digits.

**Goals, Budgets.** `Goals` are the reservations of `planning/services.py` on balances that
`Transfer` and `Post` move; `Backing`, `Available` are what `planning_availability` reports.
`Budgets` is the category tree and the limits on it.

## 3. Runs

| Run | Question | Bounds | Distinct states |
|---|---|---|---|
| `records` | Do the closed forms agree with following a transaction, and do the month's figures, whole, so far and remaining, agree on every day? Do operations, movements, points and rates stay consistent? | months of 4 and 3 days; dates on first, last and clamped days; up to 3 instalments begun at any of them; amounts 1, 5, 8; three ways of splitting, some of whose rows are charged nothing in a month; 7 cards; rates that are unknown, direct or inverse and move every day; numbers of two digits in hundredths of a cent; every day as today; three operations, three entries, one redemption, two positions, two programmes, two days | 42 082 |
| `ledger` | Do invoices and movements stay consistent with sources and confirmed cash, and do all pages read the same figures? | one card and account, two items of four kinds, one credit (before or after the due date), two payments on two statements, four card settings, one month and a day | 20 721, up to symmetry |
| `chat_competing` | Do competing sends keep the conversation true? | two sends, two run ids, replies of up to two chunks | 1.15 million, up to symmetry of the sends |
| `chat_repeated` | Does a retried send leave one turn, and does every send end? | one run id sent twice | 46 996 |
| `remotes` | Does a stream run what was completed and end when told; does one run of the pilot at a time ask, and store a whole report? | two output items, two calls remembered, three rounds, one cancel, one deadline; three runs, pages of one row, two pages, three days, lists that change once | 435 214 |
| `actions` | Are actions executed once, as reviewed? | an update and a creation, three shared rows with one edit each; one tab confirms the update, one discards it, two confirm the creation | 1.1 million, up to symmetry of the last two |
| `connect_attempts` | Do authorizations leave no secret behind? | two attempts begun, one called back, confirmed and cancelled, a connection activated; the callback and the confirmation may die | 225 108 |
| `connect_links` | Do rows and credentials agree through renewals? | a renewal, a use, a disconnect and a confirmation at one connection; three tokens; the disconnect may die | 106 796 |
| `ingestion` | Is a bank entry posted once; do credentials stay readable? | two overlapping statements of two and one entries, one page, three postings; two writers, a deleter and a preview of one record, four keys and identities | 698 879 |
| `planning` | Is money promised once and an expense limited once? | two goals, three sources, two reservations, balances of 2 at most; three categories, two months, two files | 40 378 |
| `yield_edit` | *expects a violation*: do descriptive edits keep the captured rate? | the operations of `records` | |
| `missing_rate` | *expects a violation*: is a month without a rate marked, and no error? | the transactions of `records` | |

*Two specifications in one run.* `records`, `remotes` and `ingestion` each check two specifications
that share no variable: a behaviour is of one of them (`subject`) and the other stays at
its initial state. `planning` composes goals and budgets the same way (`OneSide`). They
share a run, not a state space.

*Why the bounds are enough.* `records`, transactions: every rule looks at most at one instalment boundary
and one clamp at a time; the instance has months that clamp and months that do not,
indivisible amounts, and plans that begin before tracking. Two digits are the fewest at which
a sum of rounded parts misses the rounded whole on either side; with 28, as in `Decimal`, it takes longer
numbers and the same steps. `ledger`: statements interact only
through their card, whose settings all statements share; two statements, a due date
inside the same and the next month, and a cutoff date between them reach every pair of
modes. Two payments are what it takes to be within the bill alone and beyond it together.
`chat_competing`: a claim race is between two; two chunks distinguish nothing, a partial and a
whole reply and the output limit. `actions`: a stale review needs two rows of which one moves
between the reads; two tabs race for either proposal, and the proposals interfere through the
shared category. `remotes`: a call that is left out needs one neighbour to take its slot; a
third round shows a repeated call and the limit of rounds; two pages are the fewest that a
list can move between, three lists the fewest that can lose one row and repeat another.
`connect_*`: each hazard is of two requests on one attempt or connection; the third makes the
locks meet. `ingestion`: two statements that share an entry are the fewest that can count it
twice; a statement undone beside one that matched its posting needs no third. `records`, operations: an
edit that uncovers a sale needs an opening or purchase, a sale and the edited row. `planning`:
two goals and one source are a race for a balance; three categories are a chain with a middle
that can be moved.

*Bounds by name.* `MaxRevision` edits of a row; `MaxChunks` and `MaxText` are
`MAX_OUTPUT_CHARS`; `MaxRounds`, `MaxCalls` are the limits of tools, `MaxSlots` of output
indexes; `MaxHeard` items remembered in a round; `LastDay`, `LastMonth`, `LastTick` end the
clocks; `ProjectionMonths` is `PROJECTION_MONTHS`, `SnapshotMonths` the scenario's twelve;
`MaxOpen` is `MAX_PENDING_ATTEMPTS`, `MaxTokens` the tokens a provider issues, `Mortal` the
requests that may die; `MaxMade` keys and identities made; `MaxBatches`, `MaxPostings`;
`PageSize`, `MaxPages`, `MaxRequests` the limits of the pilot's client, `PerDay` and `Expiry`
its clock; `MaxBalance`. `Scenes` in `MCHoldings` keeps apart positions, points and rates,
which the code does not tie together; `Little` and `Spending` in `MCPlanning` keep the wallet
small and all but one category expenses.

*Deadlock.* It is checked in `ledger`, where a page can always be opened. The other
systems stop: a transaction has been followed to its last month, all requests have been
answered, all numbers have been given.

*Fairness.* Three specifications assume any. `ChatRun!Fairness`: an accepted request keeps
taking steps (the worker serves it, provider reads have a timeout, and a storage failure or
crash is itself a step) and the deadline passes. `ProviderStream!StreamFairness`: the adapter's
thread runs and the timer fires; a read returns only once its source is cut, so the remote may
be silent for ever, and the consumer need not ask for more. `Connections!Fairness`: some
started request that can move does. None obliges a user to send, cancel or confirm, a
provider to answer, or anything to fail. That the deadline is re-read between tool calls is
what makes `EverySendEnds` true; that user locks come before connection locks is what makes
`RequestsEnd` true.

*Types.* The type invariants of `Ledger`, `ChatRun`, `ActionProposals`, `Accrual` (in
`Walked`) and `Holdings` (in `HoldingsAreWellFormed`) are proved; the proofs about `Connections`, `Vault`, `Ingestion`,
`OpenFinancePilot`, `Goals` and `Budgets` prove the types their invariants need (`Shape`,
`TypeInv`, `PilotShape`, `GoalsInv`, `BudgetsInv`).

### Properties

- `SchedulesAgree`, `SplitsNeverOverdraw` — the arithmetic of schedules: running totals and
  windows against a walk, and a later purchase is never on an earlier bill; a plan closes and
  no split gives out more than there is.
- `RemainingIsPlanned` — what the dashboard leaves of a month is what has not happened yet,
  and its categories are those of the figure beside them, to the last place, although both are
  converted again: past, present or future, whatever rates became known since.
- `SettlementIsSound` — no automatic debit beside confirmed payments, and a confirmed payment
  keeps its invoice when the purchases behind it are deleted, moved or fall beyond the horizon.
- `ReconcileIsIdempotent` — on a day that has been reconciled, reconciling again changes
  nothing, although payments have been settled by the other code path since.
- `StatementsAreWhole` — within the horizon the statements of a card add up to its purchases
  less its credits, and forecasts of credits do not count as paid.
- `PaymentsOnlySettle` — what later edits, credits and midnights may not rewrite, and that
  confirming a bill keeps the projected close.
- `NetWorthIsWhatWasBought` — net worth moves with purchases and credits, not with paying.
- `FiguresAgree` — the dashboard's month, its divisions, a budget, the shortage walk and a
  scenario's snapshot agree. Two differences
  are the code's own: the budget of a past month counts credits posted since, the dashboard
  through its month's end does not; and account movements of a snapshot agree for the months
  before the horizon's.
- `DoneMeansWholeReply`, `RunsKeepTheirWord`, `CompletedTurnsAlternate`, `OneTurnPerRun`,
  `EverySendEnds` — the chat. A stopped run may still show the one chunk whose recheck
  preceded the stop: the code checks, then yields. `RunsKeepTheirWord` has both halves of the
  expiry: a stale run makes way, and one whose stream is at work in time is left alone.
- `CallsAreRunAsStreamed`, `CancelTakesHold`, `ConnectionsAreReleased` — the stream. The model accepts, as the code does,
  fragments without an index when the final snapshot has some call; and a stream may say
  "done" after a cancel, which `ChatRun` then does not report.
- `TakesEffectAsTold`, `KeepsThePromise`, `BlockedLedgerAdmitsOnlyRepairs` — reviewed actions.
- `CancelledKeepsNoSecrets`, `KeepsLinks`, `CredentialsFollowRows`, `RequestsEnd` — connections.
  The first is about attempts that failed: cancelled by the user or refused by the provider. One
  that ran out keeps its record until a later begin sweeps it.
- `RecordsStayReadable`, `SetupResumes` — the vault.
- `EntriesCountOnce`, `PostingsAreExplained`, `EvidenceIsKept`, `PostsWhatWasReviewed` —
  ingestion.
- `ProviderIsAskedOnce`, `ReportsStandWhole` — the pilot. One run at a time reads the provider,
  and none while a report stands that would have answered it when it began. Within a run a page
  may be asked for again: its cursor may lead back to the first record (`ReadMoves`).
- `CostIsExplained`, `BankSideHolds`, `PositionsStayCovered`, `PointsAreHeld`,
  `HistoryKeepsItsRate` — investments and banking operations.
- `BackingIsReal`, `PledgedOnce`, `LimitsAreApart` — planning.

### What the runs found

`yield_edit` is a disagreement of code and documentation. `docs/apps/investments.md:166`
says that descriptive edits retain the captured exchange rate. A yield entered by its
ending balance has no stored ending balance to compare with, so the field counts as changed on
every edit (`investments/views/operations.py:147`), and an edit of its notes takes the rate again. `HistoryKeepsItsRate` states the documented property with this
exception.

`missing_rate` is an error of the code. `docs/data-model.md:393` says that without a rate "native
data is preserved and conversion is marked incomplete". Nothing needs no rate
(`dashboard/services.py:71`), so of a month without one the rows that were charged nothing are
kept, the whole is `None`, and `value + total` raises (`dashboard/services.py:237`): a split whose
last row is charged nothing in a month (.17, .16, 0) is enough for the page to fail. `RemainingIsPlanned`
compares the figures in these cases too; both would raise.

The comment at `dashboard/services.py:232` says that the residual preserves the converted total.
No property claims it to the last place: the additions are rounded to 28 digits as the
conversions are, so the categories may still miss it (80.10, 9.90 and 25.00 at an inverse rate
of 5.5 do), and the residual may be negative and falls to the last row although it was charged
nothing: .17, .16 and 0 at an inverse rate of 7 leave -1E-29 there.

The properties name the other cases that the code lets through, as exceptions a reader can
find; each was met as a counterexample first.

- *Connections.* A crash in begin leaves an encrypted file that no row names and nobody
  sweeps. A crash in finish between the credential file and the commit may leave tokens beside a
  disconnected row until it is disconnected again (`apart`). So may a confirmation whose
  transaction and restoration both fail: its attempt can be confirmed again, with tokens that the
  connection may have spent meanwhile (`service.py:417`). A callback that stalls beyond the
  expiry may write EXPIRED over an attempt that a timely confirmation is finishing.
- *Vault.* A crash that leaves a temporary name in a vault that was not yet set up makes it
  refuse for good (`litter`).
- *Investments.* An entry of points owned by an operation and made a credit by hand is counted
  twice when the operation is edited (`investments/services.py:183`); made a purchase by hand,
  its movement outlives it (`views/loyalty.py:195`). A form that is stale when saved may leave
  a movement or entry without its operation, bring a deleted operation back, or, deleting,
  replay the position it was loaded with. An opening checked before an operation was entered
  is saved after it (`forms/setup.py:257`).
- *Planning.* The form of a goal archived since it was loaded saves it active again
  (`planning/views.py:122`), though its money may have been promised.
- *Pilot.* The clock is read before the lock is taken, so a run that waited may ask again
  for what the other has just retrieved; a reused report may predate a bill closed since, by up
  to a day. Transactions are read by cursor and have no total, so a list reordered between
  pages may hide one; the command warns that it may be incomplete. A crash after writing leaves
  a temporary file that nobody removes.

## 4. Proofs

Every theorem holds for all constants that satisfy the assumptions of the modules, and where
it says so under a hypothesis on constants that the code justifies. Each states a property
that a run checks on its small instance, or a part of one.

| Theorem | States | Module |
|---|---|---|
| `SettlementStaysSound`, `ReconcilingAgainIsIdle`, `StatementsStayWhole`, `PaymentsSettleOnly` | `SettlementIsSound`, `ReconcileIsIdempotent`, `StatementsAreWhole`, `PaymentsOnlySettle` | `LedgerProofs` |
| `WorthIsWhatWasBought`, `FiguresStayTrue` | `NetWorthIsWhatWasBought`, `FiguresAgree` | `LedgerProofs` |
| `SplitsCloseExactly`, `SchedulesAreTrue`, `PlannedIsWhatRemains` | `SplitsNeverOverdraw`, `SchedulesAgree`, `RemainingIsPlanned` | `AccrualProofs` |
| `BooksAreBacked`, `PositionsAreNeverSoldShort`, `PointsAreNotOverspent`, `RatesStayRecorded`, `CostsAreExplained` | `BankSideHolds`, `PositionsStayCovered`, `PointsAreHeld`, `HistoryKeepsItsRate`, `CostIsExplained` | `AccrualProofs` |
| `OneLimitPerBranch`, `MoneyIsPledgedOnce`, `BackingAddsUp` | `LimitsAreApart`, `PledgedOnce`, `BackingIsReal` | `PlanningProofs` |
| `RunsKeepWord`, `DoneIsTrue`, `TurnsAlternate`, `OneTurnEach` | `RunsKeepTheirWord`, `DoneMeansWholeReply`, `CompletedTurnsAlternate`, `OneTurnPerRun` | `ChatRunProofs` |
| `CallsRunAsShown`, `CancelSticks` | `CallsAreRunAsStreamed`, `CancelTakesHold` | `ChatRunProofs` |
| `EffectsAreAsTold`, `PromiseIsKept`, `BlockedLedgerIsOnlyRepaired` | `TakesEffectAsTold`, the refinement `KeepsThePromise`, `BlockedLedgerAdmitsOnlyRepairs` | `ActionProposalsProofs` |
| `LinkingIsKept`, `FailuresAreCleared`, `CredentialsAreKept` | the refinement `KeepsLinks`, `CancelledKeepsNoSecrets`, `CredentialsFollowRows` | `ConnectionsProofs` |
| `WrittenStaysReadable`, `SetupIsTakenUp` | `RecordsStayReadable`, `SetupResumes` | `IngestionProofs` |
| `BankEntriesCountOnce`, `LedgerIsExplained`, `OthersKeepTheirEvidence`, `PostedAsReviewed` | `EntriesCountOnce`, `PostingsAreExplained`, `EvidenceIsKept`, the refinement `PostsWhatWasReviewed` | `IngestionProofs` |
| `AskedOnce`, `WholeReportsStand` | `ProviderIsAskedOnce`, `ReportsStandWhole` | `IngestionProofs` |

**Sums.** The statements of a ledger are sums over rows. What `SumFunctionOnSet` returns is
proved from its definition: `AddsExists` and `AddsAgree` build, for a finite set, the
recursive function it names, by taking a least subset without one; `SumFromAny` removes any
element, and the rest follows: parts, sums of sums, exchange of two summations
(`SumExchange`), running totals (`SumUpTo`), classes (`SumByClass`) and renaming (`SumOverImage`). This is induction over finite sets stated with
*sets* of good subsets (`SubsetInduction`, `RemovalInduction`), not with an operator
parameter, which the provers cannot instantiate; `NaturalsHaveLeast` does the same for the
naturals. The modules write the sums that are proved about with `SumFunction`.

**LedgerProofs.** Four invariants, each on top of the one before.
`LedgerInv` gives `LedgerIsTyped`, `StatementsSettleOnce`, `PaymentsStayBacked` and their
conjunction `SettlementStaysSound`, and for steps `ConfirmationSticks`.
`NoDoubleSettlement` is not inductive alone: a reconciliation turns an invoice back to the
automatic mode unless it is known that an invoice with payments is manual, which is part of
`PaymentsAreBacked`; and a payment would find no invoice unless the reconciliation keeps it
(`IsKept`). For types one must know that no date leaves the calendar: `DaysLived` bounds the
days and `InvoicesWithinReach` the months with an invoice. `NoAccountPlans` says that
instalment plans are on cards, which keeps the occurrences of an account within the horizon.

`FreshInv` says that on the day of a reconciliation (`Fresh`) every derived row is what a
reconciliation would make (`IsReconciled`), and proves `ReconcilingAgainIsIdle`. The work is in
the two operations that do not reconcile: a payment settles its invoice against
`StatementAmountAt`, a reconciliation against the amount it has just drawn, and the two agree
only because credits dated later are treated alike in both (`StatementsAgree`).
`StatementsStayWhole` rests on it. `MonthsAddUp` shows that `amount_through_month` grows each month by `amount_for_month`, plans,
splits of cents and recurrences included; `ItemAddsUp` concludes that over the months an item
bills what it amounts to by the last, `SumExchange` turns sums over the items of a card into sums
over its statements, and `InvoiceAsksForTheRest` says which part of each statement is asked for. `PaidIsCovered` is the
other half: no invoice shows as paid while money is owed on it.

`StandInv` survives midnight: an invoice keeps the amount of its statement although the
derived rows grow stale (`AmountsStand`), and on a fresh day an automatic invoice is one that
is computed. From it `SettledHistoryStands`: payments fit the bill computed from the sources
(`PaymentsFitTheBill`), a late credit leaves the debit as it was
(`CreditsKeepLateDebits`), a card's confirmation date rewrites no past debit
(`CardKeepsPastDebits`); the last two through `DebitStays`, the one lemma on what a
reconciliation must leave alone.

`PastInv` places payments before today and invoices within the horizon, so that by the close
of the month after the horizon every bill is expected, overdue or not (`OverdueIsExpected`).
`SettlingKeepsTheClose` then shows that a payment moves as much as it takes off what is still
expected: `SumChange` on the movements and on the remaining amounts, where the positive part in
`RemainingAt` is exact because the payment fits the bill. With `SettledHistoryStands` this is
`PaymentsSettleOnly`.

`WorthIsWhatWasBought` needs `LedgerInv` and `FreshInv` only. A statement is in the debt until
it is paid, and in the cash once it is; `SettledIsPaid` shows, statement by statement, that what
the debt takes off is what has left the cash, listed or not: the automatic debit of an invoice
that asks for no confirmation, or its payments, never both. `DebitsAddUp` and `PaymentsAddUp`
turn the cash, which is summed over movements and payments, into sums over statements
(`SumExchange`), and the two sums cancel.

`FiguresStayTrue` needs the same two invariants; `FreshInv` only for the scenario, whose rows are
read beside the movements and invoices a reconciliation made. Its parts:

- *The month and its divisions* (`MonthIsDivided`): every entry is in one group of each division,
  and a sum over entries is the sum over its groups (`SumByClass`).
- *The budget and the dashboard* (`BudgetsAgree`): one walks occurrences with their dates, the
  other rows with their months; `EntriesOccur` shows that they count the same.
- *The shortage warning* (`WarningArrives`): a day changes the projected close by the movements
  of that day and the bills expected on it (`DaysChangeTheClose`); the days up to an end add up to
  it because an earliest day at which they do not (`EarliestIsThere`) has a day before.
- *The scenario, by statement* (`ChargesAgree`): its rows are the ledger's entries under keys;
  different entries have different keys (`KeysAreApart`; a recurrence names each of its months
  apart, `IdentityTells`), so renaming loses none (`SumOverImage`).
- *The scenario, by payment* (`PaymentsAgree`, `MonthFallsDue`): a row is paid in the month of its
  statement plus the lag of its card. What the entries of a card leave of a month (`CardFallsDue`)
  is what its invoices ask for less the credit balances (`InvoicesFallDue`, from
  `InvoiceAsksForTheRest`), and what those of an account leave is what moves on it
  (`AccountsFallDue`, from `AccountItemMoves`), within the horizon of the reconciliation.

Assumptions: the calendar is an initial segment of the naturals with at least one day per
month, is finite, as Python's dates are (`date.max`), and reaches a month beyond the last horizon; tables
are finite; inputs are well-formed rows; accounts and cards differ; `None` is no row. `Reports` adds
that transactions and credits, of two tables, have ids apart (`EntriesAssumption`), `Commitments`
that the calendar reaches the last month of the last snapshot (`SnapshotAssumption`).

**AccrualProofs.** `SplitIsExact` is the heart: rounding down leaves fewer cents than there are
rows with a remainder, and exactly as many rows rank before a number of cents as there are
cents (`RanksCount`), so the largest remainders give out the amount to the cent and to no row
more than it has. `RowsHoldTheRest` carries it through the instalments: after each, the rows
hold exactly what the remaining ones will take, so that every later split has room, and the
last one finds the rows equal to its amount (`WholeSplit`) and empties them. The induction is
over the number of instalments, as a set of good numbers. `LeftAt` is a closed form of what a
month finds in a row, and `Walked` the inductive invariant of the walk: the running total is
what was billed (`MonthsAddUp`), each row is as `LeftAt` says, and the rows have lost what was
billed. `WindowHolds` is arithmetic over the cases of `occurrence_window`. For the figures of a
month, `PlannedIsWhatRemains` shows that a month that has happened is valued on the same date in both
figures (`SameRate`), so that they convert alike to the last digit, categories included, and that
one that has not is not in what is taken off. The converted amounts are numbers at every size
(`PlaceIs`, `RoundedIsInt`, `ConvertIs`), or have no rate in both. Assumptions:
`AccrualAssumption` (items, cards and rows are as the forms read them, and the calendar reaches
the months looked at), `RatesAssumption` (a rate is a fraction or `Unknown`, and numbers are
fine enough for a cent).

**AccrualProofs, holdings.** `HoldingsInv` is about the books and about the requests under way.
The books (`BookInv`): types; every entry owned by an operation exists and has one owner
(`Owned`); what a row says of its movement and its funding is what its figures ask for (`Says`);
and every movement asked for is there, with its amount (`BankSideIsBacked`). The requests (`FlightInv`): the form in hand was a row when it was
loaded; unless another tab has cut the link since, its operation still owns the entry seen; and
what a conversion is about to link is owned by none. Every step then either saves or
deletes an operation, saves or deletes an entry, converts, or leaves the books alone
(`StepsAre`), and each property is one lemma per kind of step: `NothingStrays` (only a
stale form leaves a movement or entry behind), `FiguresKeepTheRate` (a save that changes no
figure keeps the captured rate, but for a yield of money), `PositionsAreCovered` (a save replays its own
position, and moves no other), `PointsHold` (the balance moves by the effect of one entry:
`BalanceMoves`, from the lemmas of `Sums`).

`CostsAreExplained` is an induction over the replay of a position. The operations before one in
date and registration are a total order (`Ranks`), so each place has one operation and those
replayed before it are its earlier ones (`EachHasItsTurn`): that is how what a row holds meets what
`Covered` grants a sale. One operation (`RowAfterIs`) keeps the row sound (`Sound`: the parts add
up to the cost, an empty position cost nothing, money is its own cost) and moves cost less gain by what was paid
in. It needs that money is counted at price 1, an invariant of its own (`MoneyIsAtOne`), because
an opening in flight must not break it when it is saved.

Assumptions: `IdsAreNumbered`, `FormsAreValid` (what the forms let through, money at price 1),
`WorldIsNamed` (dates are integers and finite, `None` is no row).

**ChatRunProofs.** `ShapeIsKept` and `FirstVerdictStands` hold unconditionally. The others
assume `RepeatsKeepConversation`: a request id repeated is repeated for the same conversation,
as the page draws a fresh id per send (`static/js/assistant-chat.js`). Their invariant `IInv`
adds to the types that at most one request streams a run (`OneStream`: the primary key of
the run admits one creator), that a streaming request owns a row of its own conversation with
no output yet, that a verdict about to be reported is the one recorded, and that chunks shown
late are at most the one cleared before the stop. `DeadlinesStand` says that a run past its
deadline stays so until it is claimed anew, and that nothing but a cancel and its own stream
stops one in time: `Spared` of `IInv`, hence `LiveRunsAreLeftAlone`. `RunsKeepWord` combines them into the
property the run checks. For the order of the messages, `MessagesInv` says which messages a
run owns, and `TurnsInv` adds that a conversation has one unfinished run (`Sole`) whose
question comes after every completed turn (`Latest`): without it the answer of an older run
could be appended behind the question of a newer one, and turns would cross.

**ChatRunProofs, the stream.** `StreamInv` has three parts. `HeardInv`: what was heard is placed in slots
and what waits to be run are calls. `QueueInv`: a call in the queue was not run before and is there
once; without it a call could repeat over two rounds. `CutInv`: a source that is open and may be
read is among the closers of the token unless a cancel is just about to call it, and only this side
cuts, after the cancel or the deadline; this is what the order of
`register_close` and `CancellationToken.cancel` is for. A step of the adapter ends the stream, goes on
or completes a round (`EndingKeeps`, `ContinuingKeeps`, `CompletionTakes`). `OutputIsWhatWasShown`
says that the items of an accepted response are those completed in their slots, whether the final
snapshot repeats them or is empty, and `CallsOfCollects`, an induction over the items, that exactly
their calls are queued. Assumption (`ItemsAreApart`): a message is no call and the slots are finitely
many.

**ActionProposalsProofs.** `ProposalInv` orders the readings of a record: the digest is no
newer than what is shown (`OlderFirst`), which is no newer than the record itself. When a
confirmation finds the record equal to the *digest*, both inequalities collapse, and the record
equals what was *shown*: that is the step of `PromiseIsKept` that could fail. `DecidedOnce`
ties the number of effects and the answers given to the stored status; `StoredOnce` ties the
status to the preparation. `LedgerIsCaughtUp` needs types only.
`BlockedLedgerIsOnlyRepaired` is about steps and needs types only: each step that writes a
transaction either leaves none beyond the limit or touches one that was (`StepRepairs`).
`EffectsAreAsTold` combines the effects and the answers.

**ConnectionsProofs.** `LinksInv` says, for each place a request can be in, which locks it
holds (`Locked`) and what it therefore still knows of the rows (`Facts`): the state of its
attempt, the writes it has left, the connection it renews. Every step of another request
either needs one of those locks or leaves these rows alone, and so each step maps to a step
or a stutter of `LinkedAccounts`. `FailedInv` adds that the secrets of a failed attempt are
gone unless a request is about to delete them or died before it did.

`TokensInv` is about where credentials are. A `Piece` is a credential that may still be used, at
the file it is for: in that file, in the hand of the request about to write it, or replaced by a
confirmation that may put it back. No token is at two files (`Apart`), so that a token is only
spent by who has its file locked (`SpentAtHome`); what an attempt holds is unspent (`Unspent`);
and what the owner of a connection holds or has replaced agrees with its row (`Follows`). Every
step and crash moves pieces in one of four ways (`Settles`, `Issues`, `Takes`, `Doubles`); only
the last puts a token at two files, and those are then counted in `apart`. `Follows` is shown by
two arguments: of a connection that the request does not own (`MovedFollowsElsewhere`), and of
its own (`Mine`), one lemma per flow. `CredentialsAreKept` is what `TokensInv` says of unlocked
connections. Assumptions (`ConnectionAssumption`): attempts are finite and stage distinct
connections, none of which a person selects. The proof showed two things about the model. Its start
was one account and one attempt that awaits; it is now any number, with a token each
(`First`), which the proof asks for. And an attempt confirmed again after a failed restoration
was not counted in `apart`: with a disconnect in between, TLC finds a ready row beside a dead
token as soon as two confirmations share an attempt.

**IngestionProofs, the vault.** Under `IsUsedWell` (every request has a kind of use and a record, and records are
not named like the vault's own files). `ReadableInv`: who uses the key holds the one that is
there (`UsersHoldTheKey`), and whoever is setting up and saw no record is right about that as
long as key or identity is missing (`MakersFoundNothing`), because a writer needs both. `SetupInv` adds that one request at a time sets up and that, as long
as nothing was lost or left over, the files appear in one order (`InOrder`), which is what
makes every cut of the set-up resumable.

**IngestionProofs, statements.** `Inv` ties rows and postings both ways: a row that created a posting is
its row, and a posting of a statement is explained by a confirmed row. `Identified` says that
the identifiers taken are those of the rows that count, each of one row; `BankEntriesCountOnce`
needs no more because two rows would have to share an element. The refinement follows from
the digest a page holds: a confirmation finds it equal to the rows as they are, and the
abstract decisions are a function of the rows. Assumption: `IngestionAssumption`, files are
sequences of entries and `None` is no number, posting or review.

**IngestionProofs, the pilot.** `AskedInv`: the run that reads the provider holds the lock of the
key (`HoldersHold`), and when it took it no report stood that it could have reused
(`NothingStands`); nobody else can store one meanwhile. `WholeInv` follows a run through its
requests (`Right`): the bills it heard are among the listed ones without repetition, and
complete because as many were heard as were announced (`CompleteIsAll`); the transactions are
a prefix of a list that stays; and a report is no older than the one it replaces, as the clock only moves
forward (`ReportStanding`). Assumptions: `SettingsAssumption` (`IsSetUp`: lists are of records, page
size and requests per day are positive), and for the second theorem that `Absent` is no report (`AbsentIsNoReport`).

**PlanningProofs.** *Budgets.* The ancestors of a category are computed in as many steps up as
there are categories. `AncestorsAre` shows that this is the least set that holds the category and
the parents of its members, and everything about branches follows from that: `MovedForest`, that
a category moved under one that is not below it closes no cycle; `FewerAncestors`, that deleting
and importing put no category under another. `BudgetsInv` adds to the types that the tree is a
forest and that the limits of each month are on different branches (`Apart`). A copy of last month
is a fold over its limits, shown to stay apart at every one (`CopyIsApart`). *Goals.* `GoalsInv`
says that a goal has one reservation on a source at most. Therefore restoring a goal, the one
operation that wakes several reservations at a time, adds at most one to each source
(`RestorePromises`), and that one was measured against the others; each other step adds the one
reservation it saved (`ReserveStep`). The form of an archived goal
is the exception that `PledgedOnce` names. `BackingAddsUp`: the part of each reservation is the
rise of one half-even rounded share (`BackedIsRise`), which never falls and never rises by more than
was asked (`SharesGrow`), starts at nothing and ends at all there is, so the rises add up to it
(`AllIsBacked`). Assumptions: reservations are finite and numbered, their amounts positive, as a
constraint of the database demands; `None` and `NoCategory` are no rows; categories are
finite, and a file names each of them at most once.

**What the proofs changed in the model.** `AreNew` and `EntriesCountOnce` of `Ingestion` now
speak of sets of identifiers and rows instead of counting; `CompletedTurnsAlternate` names the
question an answer follows instead of filtering a sequence; the sums of `Occurrences`, `Ledger`,
`Goals`, `MonthFigures`, `Reports` and `Commitments` are `SumFunction`s, and the last two state what
they take for granted of ids and of the calendar; what installments leave of the rows, the calls of a response (`CallsOf`) and the
replay of a position are recursive functions; the cost of a position is an exact quotient, where a
division that rounds had restricted the amounts of the instance, and `CostIsExplained` now also
accounts for what was realized. The balances and the
positions of `Holdings` are sums of functions too (`Effect`, `Moves`); it is a specification of its
own now, with the sets its rows are from and what it asks of its constants, and `Refreshes` is given
the figures that a save writes.
`Accrual`, `MonthFigures`, `Goals` and `Budgets` state what they take for granted of their
constants. `OpenFinancePilot` names its parts apart from those of `Ingestion` and `Vault`, beside
which it is proved. The runs and their mutants check the new forms.

**What is not proved.**

- Liveness (`EverySendEnds`, `ConnectionsAreReleased`, `RequestsEnd`), out of reach of the prover:
  only model-checked.
- That the figures of a position survive the rounding of `Decimal` at 40 digits: `CostsAreExplained`
  is about exact quotients.

## 5. What is not modelled

- Presentation, charts, prompts, HTTP framing and file parsing: they compute answers from
  state, or text, and keep no state that steps of others could disturb. The simulators of
  yield and of loans are decimal arithmetic over real rates, which TLC cannot evaluate.
- Plain rows with no rule between them: accounts and sessions, the editing of programmes and
  institutions, signals and their settings, categories' colours and names, preferences, archived
  assets, prices and valuation.
- In `Ledger`: points (see `Holdings`), other currencies (see `MonthFigures`), the
  1200-occurrence limit (see `ActionProposals`), the wording of movements, and deleting
  accounts, banks and cards, which the database restricts.
- In `MonthFigures`: one transaction stands for the flows of a month, which are sums over them;
  bank expenses and investment flows are not in them, and rows of zero, which the list of
  categories leaves out, are kept.
- In `ChatRun`: the text handed to the provider and the history it is read from
  (`chat.py:246`: read without a lock, so a reply of another tab that completes meanwhile is
  missing from it; nothing promises otherwise), the usage counters.
- In `ProviderStream`: HTTP errors and their wording, reasoning items.
- In `ActionProposals`: the parameters of an action and the forms' own rejections.
- In `Connections`: signatures, URLs and scopes; in `Vault`: permissions and path checks,
  assumed to pass; in `OpenFinancePilot`: the endpoint allowlist and synthetic data.
- Code that is not in the repository: the clock, the worker process, the database and the
  providers are modelled from how the program uses them.

## 6. Plan

1. **Composition** of `ChatRun` and `ProviderStream` by refinement: the rounds of the stream
   as the reads of the run.
2. **Planning signals** and their decisions, if a property is found that the forms' own
   constraints do not give.
