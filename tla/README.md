# FinGuard 3.0 in TLA+

FinGuard is a finance back office for small businesses: a FastAPI backend over
PostgreSQL, Redis and RabbitMQ, Celery workers, and a set of LLM agents that read
the books and propose changes. This directory holds TLA+ models of the parts of
the backend in which order, concurrency and failure decide whether money, stock,
mail, sessions and advice come out right. TLC checks every model on a small
instance; TLAPS proves the central invariants for every instance. Paths below are
relative to `src/backend/src/`.

`PROJECT.json` lists components, runs, mutants, findings, hazards and theorems,
and maps each definition to the source lines it stands for.

## 1. The system

### How requests run

An HTTP request gets one SQLAlchemy session (`infrastructure/database/postgres.py`),
PostgreSQL runs at READ COMMITTED, `autoflush` and `expire_on_commit` are off, and
services commit explicitly. Four facts about this set-up recur in the models:

- a plain read and the write that follows it are two steps, between which other
  requests commit;
- `FOR UPDATE` makes the second request wait, and shows it the row as committed
  by the first, *except* when the session has that object in its identity map
  already: a `select` does not refresh it;
- a failed flush leaves the session unusable until it is rolled back;
- a transaction's locks go with its commit, so a handler that commits twice holds
  nothing in between.

The production image starts four uvicorn workers. Each starts the background tasks
of `main.py` (outbox projector, watchdog consumer, e-mail flusher), so there are
several of every one of these; nothing supervises a task that ends.

### Inventory of components

| component | state | operations | how it interacts | hard part |
|---|---|---|---|---|
| **Invoice ledger** `domains/finance` | `invoices` rows, `invoice_events` log, `invoice_snapshots`, `payments` | create, send, resend, update, mark paid, cash payment, reconciled payment, credit note, cancel | writes outbox events and e-mail rows in its transaction; called by the reconciler and by approved proposals | concurrent payments, unlocked update, fold resumed from a snapshot, the same settlement matched twice |
| **Expenses, budgets, payables** `domains/finance` | `expenses`, `budgets.spent`, audit rows | create, submit, approve, reject, schedule | outbox event and budget burn on approval | double approval, burn exactly once, audit after the commit |
| **Vaults** `domains/finance` | `vault_transfers`, derived balances | transfer, balance | reads payments, expenses, transfers | balance from four statements, only transfers take the lock |
| **Settlements** `domains/finance`, `intelligence/services/reconciliation_service.py` | `mpesa_transactions`, `bank_statement_lines` | callback, import, review, reconcile in batches | applies payments, queues proposals | duplicate callbacks, review without a lock, long batch transaction |
| **Transactional outbox** `workers/outbox`, `infrastructure/message_bus` | `outbox_events`, `outbox_dead_letters` | lock batch, publish, count failures, dead-letter, commit | from every handler to RabbitMQ | crash after publish, broker outage, several projectors |
| **Watchdog pipeline** `workers/consumers`, `workers/tasks/dlq_tasks.py` | two queues, Redis keys, `intelligence_hub`, alerts | receive, check, analyse, alert, mark, acknowledge; sweep of the dead letters | consumes `expenses.created` | redelivery, crash between effects, replay for ever |
| **Alerts** `domains/alerts` | `alerts` | create unless active, escalate, resolve by key, resolve by hand | called by watchdog and inventory | look-up and insert are two statements |
| **Agent proposals** `intelligence/proposal_service.py` | `agent_action_proposals` | create, approve, reject | writes stock or payments for agents | two reviewers, several commits per approval, tampering |
| **Inventory** `domains/inventory`, `intelligence/tools/inventory_tools.py` | `stock_levels`, `stock_movements` | movement, adjustment, purchase receipt, agent movement | purchases commit with finance; low-stock alerts after the commit | level row versus ledger, first movement, alert order |
| **E-mail** `domains/notifications`, `workers/email` | `email_outbox`, `email_dead_letters`, opt-outs | enqueue, flush, dead-letter, replay, resend, reminders | enqueued by most handlers | resend after a crash or a late reply, key freed by dead-lettering |
| **Identity** `domains/identity`, `core/security.py`, `core/csrf.py` | users, Redis blacklist, revoked families, login counters | register, verify, approve, login, refresh, reset, logout | guards every endpoint | check-then-write on Redis, the first owner |
| **Orchestration** `intelligence/orchestrator.py`, `agents/planner.py`, `routers/conversations.py` | graph state, checkpoints, status in Redis | dispatch, route, plan, work, write the hub, resume | runs the agents; the client polls | kills, racing resumes, replans |
| **Analytic agents** `intelligence/services`, `agents` | none that lasts but what they write | analyse, score, audit, forecast, integrate, keep stock, advise, summarise, read, classify | read the books, call models, propose | each degraded path, gates on queries and movements |
| **LLM providers** `intelligence/llm` | configuration, counters | call with retries and failover | called by every agent | which error goes where |
| **Tuning** `intelligence/tuning.py`, `db_tuning.py` | `agent_config`, effective-dated rates, overlay per process | write, refresh, merge | read by the agents | overlapping refreshes, bad rows |
| **Periodic tasks** `workers/tasks/batch.py` | categories, stored models, checkpoints | classify, fit, purge | started by beat and by agents | overlap of a task with itself |
| CRM, credentials, reports and OCR, shell, frontend | rows; keys; files | - | - | not modelled, see 7 |

What makes each correct:

- *invoice ledger*: the row is the fold of the log; a settlement pays once;
  cancellation is terminal; the whole behaves as an account;
- *payables, vaults*: the budget burns once per approved bill, an audited decision
  stands, no transfer overdraws by what it could have seen;
- *settlements*: a batch's matches rest on rows nobody else changes, what is
  reported is booked, one record per receipt;
- *outbox*: an event reaches the broker or the dead letters and comes twice only
  after a fault;
- *watchdog*: no event is lost between the queues, each is analysed in the end;
- *proposals*: one write at most, exactly what was proposed, released by somebody
  entitled who did not make it;
- *inventory*: level equals the sum of the movements, alerts follow the stock;
- *e-mail*: each repeat costs a failed attempt or a crash, reminders go up their
  ladder, each mail is settled;
- *sessions, accounts*: a used refresh token cannot rotate again, a reset ends older
  sessions, nobody logs in whom nobody let in;
- *orchestration*: the answer is whole, finished work is not repeated, the client
  hears something;
- *agents*: what they say stands on the data, what they read and change was granted, up
  to exceptions that the properties name.

## 2. Modules

| module | stands for | run on by TLC through | proofs |
|---|---|---|---|
| `InvoiceLedger` | the invoice handlers, the fold, snapshots, row lock | `MCInvoiceLedger` | `InvoiceLedgerProofs` |
| `InvoiceAccount` | what an invoice promises: an atomic account | (refined by `InvoiceLedger`) | `InvoiceLedgerProofs` |
| `Treasury` | expenses, budgets, payables, vaults | `MCTreasury` | `TreasuryProofs` |
| `Permissions` | the roles' permissions | (extended by `Treasury`, `Accounts`, `Steward`, `Advice`) | - |
| `Outbox` | projector, broker, dead letters | itself | `MessagingProofs` |
| `AtLeastOnce` | what an outbox promises | (refined by `Outbox`) | `MessagingProofs` |
| `WatchdogPipeline` | consumer, dead-letter sweep, alerts | itself | `MessagingProofs` |
| `Proposals` | maker-checker | `MCProposals` | `AgentsProofs` |
| `Inventory` | stock movements, low-stock alerts | `MCInventory` | `InventoryProofs` |
| `Settlements` | callbacks, bank lines, reconciliation batches | `MCSettlements` | `SettlementsProofs` |
| `Sessions` | login, refresh, reset, logout | `MCSessions` | `SessionsProofs` |
| `EmailOutbox` | mails, flushers, reminders, dead letters | itself | `MessagingProofs` |
| `Registry`, `Orchestration`, `Conversations` | the agents and their plans; the graph; the tasks that run it | `MCConversations` | `AgentsProofs` |
| `Accounts` | registration, its gates, CSRF | `MCServices` | `ServicesProofs` |
| `TuningDefaults`, `Tuning` | agent tuning and tax rates | `MCServices` | `ServicesProofs` |
| `Providers` | model calls | `MCServices` | `ServicesProofs` |
| `AgentRuns` | one run of an agent; extended by the next five | `MCServices` | `ServicesProofs` |
| `Anomaly`, `Credit`, `Forecast`, `Sources`, `Steward` | agents E; G and F; D; I; K | `MCServices` | `ServicesProofs` |
| `Advice` | agents H, J, A, B and the tax excerpts | `MCServices` | `ServicesProofs` |
| `Jobs` | classification batches, fits, retention | `MCServices` | `ServicesProofs` |
| `Services` | the composition of all those from `Accounts` on | `MCServices` | `ServicesProofs` |

Two proof modules join specifications that share nothing, so that their theorems stand
side by side: `MessagingProofs` extends `Outbox`, `WatchdogPipeline` and `EmailOutbox`,
`AgentsProofs` extends `Proposals` and `Conversations`. That is why the names in these
are kept apart (`WatchdogSpec`, `EmailSpec`, `ConversationSpec`).

Definitions whose comment starts with "Mutant" are not part of a specification:
each is a plausible bug, put in the place of the definition that follows it to
see that a property notices.

### InvoiceLedger and InvoiceAccount

A handler is two steps, as in the code: the read (`GetForUpdate` where the code
says `FOR UPDATE`, `GetById` where it does not) and everything up to its commit.
The record `txn[w]` keeps what the request read, so a handler validates against
its own copy, which is how a missing lock would show. `Apply`, `Fold`, `Finalize`,
`FoldFromSnapshot` and `MaybeSnapshot` are `events.py` and `_maybe_snapshot`; `Fold`
and the sum of the Payment rows are recursive functions on the length of a sequence,
the form in which the proofs can reason about them (likewise in `Credit`, `Anomaly`
and `Advice`); money is counted in cents, a timestamp is the sequence number of its event.
`Rollback` stands for refusals, violated constraints and crashes alike: they leave
nothing behind. `update_invoice` writes without a lock and without an event, but
PostgreSQL still makes its UPDATE wait for a lock holder.

`InvoiceAccount` is the specification a bookkeeper would write: issue, pay,
credit, cancel, one atomic step each. `ImplementsAccount` says the ledger, with
locks, log and snapshots, moves money only as the account does.

### Treasury

A decision on a bill is `GetBillForUpdate`, `Transition` with its side effects
(budget, outbox event), and `Audit` after the commit, in a transaction of its own
that may fail. A transfer takes the advisory lock (`LockVault`), reads payments,
expenses, transfers in and transfers out in four steps, each with the snapshot of
its own statement, and then transfers or refuses. Payments and expenses commit
between any two of them. `Role` maps people to the roles of `Permissions`, from
which the approval gate and the list of those asked to review are computed.

### Settlements

A callback is authenticated (`OriginAllowed`, `Authentic`), looked up, and inserted:
two deliveries can both miss the record, and the unique receipt stops the second.
The review of a bank line is a read and a write without a lock. A batch
(`FetchSettlements`, `FetchInvoices`, `AskModel`, `CommitBatch`) keeps the rows it
locked until its one commit, and only then asks, one uncertain match at a time,
whether a proposal is pending (`CheckPending`, `CreateProposal`). `AbortBatch`
releases all at any point. Pass one is a relation on amounts and references, pass
two any one-to-one choice of the model among the candidates it was shown.

### Proposals

`approve` is `GetForUpdate`, `Claim` (first commit, which releases the lock), the
write, and the reference. A stock movement commits by itself before the reference
(`ApplyStock`, `SaveRef`), a settlement with it (`ApplyMatch`). A write that is
refused is unclaimed; one that fails in a flush breaks the session
(`WriteBreaksSession`). `EditByHand` is the tampering that `payload_hash` is for.

### Inventory

One product. `Peek` is the agent tool's unlocked look, which leaves the level in
the session; `LockLevel` keeps a level loaded that way. `CreateLevel` is the first
movement: `location_id` is NULL, so the unique constraint admits a second row, and
`TwoRows` is the exception every later request gets. `Commit` writes level and
movement; `Signal`, after the commit and without the lock, raises, escalates or
resolves the alert, or fails (`SignalFails`); the race between its look-up and its insert
is modelled once, in `WatchdogPipeline`. Three history variables record what
the properties except: a stale level was locked, alert steps ran out of turn.

### Outbox and AtLeastOnce

`LockBatch` is the `SKIP LOCKED` query, `PublishConfirmed` and `PublishRaised` are
the two outcomes of one publish, `CommitBatch` the end of `session.begin()`.
Outcomes stay in `outcome[p]` until that commit, so `Crash` loses them while the
broker keeps what it took. `ConfirmLost` is a publish that raised after the broker
accepted. Transactions commit out of `created_at` order (`Emit`).
`AtLeastOnce` keeps a state and a number of copies per item; done needs a copy.

### WatchdogPipeline

Each `await` of `_process_message` that has an effect is a step: the Redis check,
the analysis, the alert's look-up, its insert, the key, the acknowledgement.
Queues are sequences; a message whose reader dies goes back to the head. A message
carries what its `x-death` header adds up to and, as history, how often it really
died. A Redis error in the check escapes the handler and ends the consumer
(`ConsumerEnds`). Crashes, duplicates, expiries and failed calls share one budget,
`MaxMishaps`.

### Sessions

One account. Each read and write of Redis and of the user row is a step: a login
checks the counter, verifies, counts a failure or issues; a refresh checks reuse,
reads the user, rotates; a reset checks the link, stamps, commits, consumes, or
dies before it consumes. `Iat` truncates to the second as the tokens do. A pair of
tokens remembers the password it knew and whether a request of its own overlapped a
reset (`raced`); `first` and `FirstUse` record the same of a rotation and of a link.

### EmailOutbox

A row's key is its trigger, and the number of replay suffixes on it. Triggers and
the reminder sweep enqueue unless the key exists; flushers take a batch, a set of rows, with
`SKIP LOCKED`, send the mails oldest first and commit all outcomes at once, so
`FlusherDies` loses them while the server keeps what it accepted (`MaxDeaths` bounds
how often). A send that raises may have delivered the mail all the same (the server's
reply is late or lost): the row is retried, and the mail comes twice with nobody dead. The sweep works
out the tier of the day (`DueSoonDays`, `OverdueDays`); a mail that keeps failing
is deleted from the outbox and becomes a dead letter, which frees its key. An
operator's replay is a read and a write; `KeyFits` is the column's width.

### Registry, Orchestration, Conversations

`Registry` is `agent_registry.py` as data: what each agent consumes, may change and
may query, and the plans built from that (stages, closures over inputs).
`Orchestration` is the graph as functions on a record: supervisor, fast path,
agents of a superstep, hub writer, planner with its replans; what a model decides
is an argument. `Conversations` runs it: a background task per dispatch or resume,
a status in Redis, a checkpoint after each superstep with the pending writes of
agents that finished before another failed, a cache of first routes, a limit on
supersteps. `Kill` ends all tasks of the process; `Expire` and `Retain` are the
status's time to live and the retention of checkpoints. A run starts with nothing in its
context (`Fresh`), although a client may send an agent's key with its message
(`conversations.py:136`): such a key would count as an output of that agent.

### Accounts, Tuning, Providers

`Accounts`: a registration reads (the address, the number of users) and writes in two
steps; `MayLogIn` is the gate. `Admitted` is the CSRF middleware before every mutating
request, with its exempt paths. `Tuning`: the table's history, an overlay and a cached merge
per process, and refreshes of several steps that overlap; a payload is what
`_coerce_section` and the validators tell apart, the sections' values are those of
`TuningDefaults`. Rates are rows with a first day, laid over the auditor's section as the
process has it (environment, overlay or code); a schedule that cannot be read leaves
that section as it is, and nobody is told. `Providers`: a call is a sequence of
attempts, each with its outcome; transient ones are retried, exhausted ones fail
over, malformed ones escape; every attempt is metered.

### The agents

An agent's run is one step of `AgentRuns`: from a `request`, which holds every row
and setting it will meet, to a `report`, with the `effects` it had. What is
nondeterministic in it (a model's answer, a fit, a source that fails) is an
existential in the step. This is right because a run writes nothing that it reads
again, and its database reads are of facts the request fixes. `Anomaly` decodes a
hidden Markov model (Viterbi, as a fold), scores outliers and finds duplicates;
`Credit` forecasts quarters and scores a business, and computes a tax bill with its
flags; `Forecast` overlays open invoices on a forecast and puts a drafted query
through audit and parser, of which a draft's `reads` are the tables it reads in the end,
beside the names that the parser looks at; `Sources` labels four outside sources, two of
which take any label that the operator types; `Steward` plans reorders and gates a
movement, in any mode of the conversation; `Advice` holds the advisor, summariser, tax
excerpts, the reading of a document and the classification a conversation shows. A
text is the set of the figures in it and the notices around it. Money is in units,
ratios in hundredths, logarithms in tenths.

### Jobs

Three tasks, each overlapping with itself. A classification locks a batch, asks the
model, applies the answers by id, commits and announces; the model's ids need not
be the batch's (`Drafts`). A fit counts debits, selects the stored row and inserts
or updates. A sweep lists the old threads and deletes their writes, blobs and
checkpoints in three statements, each of which sees what was committed before it,
while a conversation may go on.

### Services

The modules of this group share no state, so one specification holds them side by
side: `part` says which one a behaviour is about and the others rest. The audit is
where two of them meet (`AuditInForce`): operators store auditor sections and rates,
processes refresh their overlays, and then an audit runs on the section of one process and
the schedule, which it may fail to read (`EffectiveTuning`). One run with many small parts replaces ten with one each.

## 3. Runs

| run | properties | instance |
|---|---|---|
| `invoice_ledger` | `LockedReadIsCurrent`, `RowEqualsFold`, `SettlementSpentOnce`, `ImplementsAccount`, `CancelledIsFrozen` | 1 invoice, 2 requests, 4 events, snapshot every 2 |
| `treasury` | `BurnsOnce`, `AuditTellsTheTruth`, `OverdrawnOnlyByLateExpenses` | 1 bill, 2 vaults, 2 managers, 2 requests |
| `settlements` | `BatchSeesCurrentRows`, `ProposalsAreBounded`, `ReportTellsTheTruth` | 1 receipt, 1 bank line, 2 invoices, 2 requests, 2 batches |
| `outbox` | `DuplicatesNeedFaults`, `ImplementsAtLeastOnce`, `PendingIsSettled` | 3 events (1 poison), 2 projectors, batch 2, 2 retries, 2 faults |
| `watchdog` | `NothingIsDropped`, `AlertsAreBounded`, `EventuallyAnalysed` | 1 expense, 1 junk body, 2 consumers, 3 faults |
| `proposals` | `WrittenAtMostOnce`, `WroteWhatWasProposed`, `DecisionsAreFinal` | 1 proposal, 3 people, 2 payloads, 2 faults |
| `inventory` | `DriftNeedsStaleLevel`, `AlertsFollowStock` | 2 requests, 4 movements, every route |
| `sessions` | `SuccessorsNeedOverlap`, `OldSessionsNeedOverlap`, `GuessesAreBounded`, `LinkUsesNeedOverlap` | 1 account, 2 requests, 2 pairs of tokens, 2 resets |
| `email` | `RepeatsNeedFaults`, `LadderClimbs`, `EventuallySettled` | 1 event, 1 invoice, 3 days, 2 flushers, 2 rows, 2 attempts, 1 crash |
| `conversations` | `AnswerIsWhole`, `SummaryCoversAll`, `NoRework`, `CompletedIsFinal`, `EventuallyAnswered` | 4 agents, 2 tasks, 1 failure, 1 kill |
| `services` | `InForceIsOneTable`, `EveryoneWasLetIn`, `FiguresStand`, `AgentsAreLicensed`, `UnavailableMeansAllFailed`, `JobsLoseNothing` | small inputs for every part |
| `inventory_lost_update` | `StockIsSumOfMoves`, *violated*, see 5 | 2 requests |

Two properties of `services` are conjunctions with one part per agent.
`FiguresStand`: `DecodedPathIsBest` (against every path of hidden states),
`AuditStandsOnFigures`, `DocumentsAgree`, `RatesArePeriodCorrect`,
`SourcesAreHonest`, `AdviceIsGrounded`. `AgentsAreLicensed`: `EffectsAreGranted`,
`RowsOnlyIfVerified`, `MovementsAreLicensed`. Four of these parts name what the code
does not keep: `RatesArePeriodCorrect` speaks of the rates, and of the schedule only
where the audit could read it; `SourcesAreHonest` excepts a label that the operator
typed; `RowsOnlyIfVerified` a table that a table expression of the query is named after;
`EffectsAreGranted` the stock keeper's mode. `JobsLoseNothing` joins the three
tasks. The modules also define type invariants and further invariants that the
proofs use (`TypeOK`, `BatchesAreDisjoint`, `PublishedWasDelivered`,
`MovedExactlyOnce`): they are parts of the inductive invariants and proved with them,
and left out of the runs because the other properties say more.

Many properties say "only if": a repeat needs a failed attempt or a crash, drift needs a stale level, an
old session needs an overlap. The code does not promise the plain form; the property
names exactly what breaks it, by a history variable or a fault count, and so says
that nothing else does.

**Why the bounds are enough to be interesting.** The invoice's log of four events
crosses the snapshot interval twice, so that a fold resumes from a snapshot and a
second snapshot replaces it. A transfer may send two units where one was paid in and
one spent, with and without a fee, so a balance read in pieces can be wrong by each
of them. The receipt and the line both fit the first invoice, and the receipt
resembles the second: batches compete for one invoice and one receipt. Three events
with a batch of two leave a row for the other projector and put a poison event
beside a healthy one; two retries reach the dead letters and are survived once.
Three faults let a duplicate, a crash between effects and a failed call combine on
one expense. In the inventory four movements suffice to go up, low, out and up again
around a reorder level of one. Two attempts before the lockout and two requests in
parallel overshoot it by one; half seconds show the rounding of `iat`. Two rows, one
of which an event may take, let a sweep climb from any of the three tiers to a later one, or come back to a dead-lettered
one. The conversation's
fleet has an agent that never writes, one that needs it, one that may find nothing
and the summary, so a plan has stages that run, are skipped and are rebuilt. Three
entries in batches of two overlap; two checkpoints show a partial purge; the
watchdog's spending passes every budget state, the audit's totals lie on both sides
of each threshold. Two requests exhibit every race of pairs; for locks and
proposals the theorems cover any number.

**Deadlock** is checked in `invoice_ledger`, `outbox`, `watchdog`, `proposals`. In
the others the instance really stops: money, movements, tokens, days or rows are
bounded, a conversation that has ended is over, a report is made once.

**Fairness.** Four runs check liveness, each under weak fairness of what the code
repeats for ever and of nothing else. `outbox`: `ProjectorStep(p)`, the poll loop of
`run_projector`. `watchdog`: `ConsumerStep(c)` and `SweepStep` (Celery beat); no
fairness is assumed of an operator's `Restart`, so `EventuallyAnalysed` excepts the
case that every consumer has ended. `email`: taking, sending and committing of each
flusher; SMTP calls time out. `conversations`: `TaskStep(t)`, that a task the event
loop holds goes on; kills are excepted by name, and a client need not resume.
The broker may flip for ever and junk may circulate for ever.

**Symmetry** is used on interchangeable requests, people, vaults, payloads and
addresses, in runs without liveness only.

## 4. Proofs

All theorems hold for every value of the constants that the named assumptions allow:
any number of requests, users, rows, tokens, batches, refreshers, agents' inputs. The
assumptions say that a set over which something is counted is finite, that a bound or a
parameter is a number, that a null value is not a member, and nothing about behaviour. Each theorem
follows from an inductive invariant, which TLC checked on a small instance first; there
is one lemma per action, and one step per conjunct the action can disturb.

**Invoices.**

- `InvoiceLedgerProofs!LockedReadsAreCurrent`: type correctness and
  `LockedReadIsCurrent`, any number of invoices and requests, any log length.
  `LockedReadIsCurrent` is not inductive alone: a step must also not touch a
  locked row (`LocksOK`), a request's invoice must exist (`TxnsOK`), and an update
  must leave a row with a status (`RowsOK`); together `LedgerInv`. The fold
  is not opened here: the argument needs only that a projection writes one row.
- `InvoiceLedgerProofs!SettlementsSpentOnce`: a settlement is spent on one payment.
  The unique key on the payments' source carries it, whatever the log.
- `RowsAreFolds`: `RowEqualsFold`, the claim of `_project_invoice_from_events` that
  "the row provably equals the fold". `LogInv` says of each invoice that its log is
  numbered without a gap, that the row tells what the accumulator of its log does,
  and that a snapshot is the accumulator after some event. It rests on lemmas about
  the fold, by induction on the number of events: one event more is one step more
  (`FoldAppend`), a fold looks at its prefix only (`FoldsAgree`), and a fold resumed
  behind event `m` from what the full fold has there goes on as that one
  (`FoldResumes`).
- `LedgerImplementsAccount`: the refinement, `ImplementsAccount`. A step is read as a
  step of the books first (`StepMovesMoney`: it issues, pays, credits, cancels, or
  moves no money), then mapped (`MapsIssue`, `MapsPay`, ...). That a payment fits the
  balance *of the moment* is where the row lock enters, that `balance_due` is total
  less credits less payments is where the fold does (`BooksInv`).
- `AccountIsSound`, `CancellationIsTerminal`: what the account promises, of the
  ledger: nobody pays and credits beyond the total, until cancellation `amount_paid` is
  the sum of the Payment rows (`BackedInv`), afterwards nothing moves.

**Payables and vaults** (`TreasuryProofs`, invariant `TreasuryInv`).

- `SignOffBurnsOnce`: the copy a reviewer decides on is the row, and the row is in
  nobody else's hands (`ReviewInv`), so a bill leaves each state at most once; what was
  signed off without a budget stays signed off (`UnbudgetedInv`).
- `AuditIsTruthful`: the audit row is written after the commit, so `AuditInv` says of
  the row about to be written what it says of those that are there.
- `TransfersAreFunded`: the four reads of a balance are one statement each. The lock of
  the source vault makes what left it exact and what it was paid a lower bound
  (`TransferInv`); only an expense booked after its read can be missed.

**Settlements** (`SettlementsProofs`).

- `BatchesAreIsolated`: a batch holds the rows it read from its first statement to its
  commit, and nobody writes a row that somebody else holds (`LocksInv`): a reviewer reads
  a bank line without a lock, but his UPDATE waits for the batch.
- `RescansDoNotPileUp`: look-up and insert of a proposal are two steps, so the bound is
  the number of batches. A batch that has looked counts as if it had inserted already
  (`BoundInv`).
- `OutsideIsTold`: one row and one event per answered receipt (`BooksInv`), and a
  reported settlement is a payment (`ReportInv`).

**Messaging** (`MessagingProofs`).

- `OutboxIsSafe`: `OutboxInv` adds that an outcome belongs to a row
  its projector holds, that a publish counted as done was delivered, and that the
  one copy that needs no fault is the one about to be settled
  (`CopiesAreAccounted`), which carries `DuplicatesNeedFaults` through a crash.
- `OutboxIsAtLeastOnce`: the refinement, one abstract step or a
  stutter per concrete step, under `OutboxInv`.
- `EventsAreNotLost`: `NothingIsDropped`. It is not inductive: between republishing and
  acknowledging (`sweep = "sent"`) the sweep holds a copy that may vanish, so the event
  must be in play without it (`EventsAreKept`); and that what is past the analysis was
  analysed has to be known of every consumer (`WorkIsOnExpenses`).
- `AlertsNeverOutnumberConsumers`: `AlertsAreBounded`. Look-up and insert are two steps;
  a consumer past its look-up counts as an alert already (`AlertsAreCounted`).
- `RepeatsAreCounted`: `RepeatsNeedFaults`. A mail is accepted at most once per attempt
  that its row or a live flusher has on record, and once per death; a mail that one
  flusher holds is in nobody else's batch, so a commit adds one attempt and no flusher
  sends what another one does. While a row is waiting its attempts are below the limit,
  which bounds the copies by the retries.
- `RemindersClimb`: `LadderClimbs`. Each reminder is of the tier of some earlier day
  (`RemindersAreDated`), and a tier does not fall while days pass (`TierRises`).

**Agents** (`AgentsProofs`).

- `MakerChecker`, `FinalDecisions`, `AsProposed`: `PropInv` adds that one
  request holds a row and read what is there (`LockInv`), and that one request
  works on a claimed proposal, with the proposed arguments, and has written
  exactly if it is past its write (`ClaimInv`). The second is what survives the
  early release of the lock.
- `AnswersAreWhole`, `SummariesCoverAll`: a checkpoint can be taken up again, by several
  tasks at once, so what holds of an answer is kept by the graph itself: `GraphOK` of
  every graph there is, in a task, saved or answered (`GraphsOK`), one lemma per node
  (`RouteStepOK`, `PlanStepOK`, `AgentDoneOK`, `HubStepOK`). A stage passed over was
  either produced or lacked an input; it cannot lack one, because what an agent requires
  is in an earlier stage, which has spoken (`PlanOK`, by induction over the stages).
  That `build_full_plan` makes such plans, `FullPlan`, is about the agents of the
  registry; that the hub's order has every output once, `Resolved`, is an induction on
  the number of outputs. The summary is last in its plan, and the supervisor never gets
  from a summary to a plan (`SummaryOK`, `RouteOK`).
- `NothingIsRedone`: unless two resumes collided one task has the thread (`OneTask`), the
  thread is its graph, and tells what each agent did (`ThreadOK`).
- `CompletedStaysCompleted`: a resume that is about to write read "failed" (`TasksOK`).

These need one assumption on the fleet beside its shape: that what an agent requires,
its producer never leaves out (`FleetAssumption`). It is so in the code: the forecaster,
the only one required, has no way to finish without a forecast.

**Inventory** (`InventoryProofs`, invariant `StockInv`).

- `OnlyStaleLevelsDrift`: a request that is about to write holds the row's lock and
  knows the level, unless it loaded it too early or made the row itself
  (`RequestOK`), so each balance follows from the one before (`ChainInv`); that the
  level rows, be it one or two, add up to the movements is an induction on their number
  (`TotalAppend`, `TotalFirst`).
- `AlertsTellTheStock`: an alert that is up stands for a low balance which the alert
  steps have not left behind yet (`AlertInv`, with the number of the last movement
  whose alert step ran).

**Sessions** (`SessionsProofs`). Nothing here is locked: each theorem bounds what the
races between a check on Redis or on a row and the write after it can do.

- `ReuseIsDetected`: only a request that presented a token before its successor was
  issued can issue another one.
- `LinksAreSpent`: likewise a reset link, to which a request that died between the
  password and the blacklisting is added.
- `LockoutHolds`: requests that passed the check count towards the bound with those
  already counted as failures; hence at most one guess more per request in flight.
- `ResetsEndSessions`: a session none of whose requests overlapped a reset knows the
  current password, or is older than its last change (`AgeInv`), down to the rounding of
  `iat` to seconds.

**Services** (`ServicesProofs`). The parts share no state, so each has an invariant of
its own, and a lemma that a step of the whole is a step of the part or leaves it alone
(`AccountsApart`, `ProvidersApart`, ...).

- `NobodyLetsThemselvesIn`: claims of the owner's role, made or in the making, are no
  more than registrations, and none begins once there is a user (`AccountsInv`).
- `FailoverIsExhaustive`: while a call runs, its provider was asked once per attempt
  counted, in vain, and the backup only after the primary is through (`Running`).
- `TuningIsNeverMixed`: a refresher holds a state that the table has had (`TuningInv`).
- `TasksLoseNothing`: batches are disjoint and hold uncategorised rows only
  (`BatchInv`); who found a model's row finds the same there, unless two fits of one
  model overlapped (`ModelInv`); a sweep has marked all the rows of the tables it is
  through with, of each conversation that nobody took up (`ThreadInv`).
- `AgentsStayWithinGrants`: of every report an agent can make, for every answer of a
  model: effects, queries, stock movements, with the two exceptions of
  `AgentsAreLicensed`. That what a query reads is among the names it uses
  (`DraftsAssumption`) is an assumption on queries, not on the parser.
- `ViterbiIsOptimal`: no sequence of hidden states is likelier than the one `_viterbi`
  decodes, for any observations and parameters. By induction on the periods, a path up
  to one is worth no more than the cell of the table it leads to (`NoPathIsBetter`), and
  the path followed back is worth exactly its cells (`PathIsWorth`).
- `FiguresAreTrue`: `FiguresStand`, of every report and every answer of a model, one
  lemma per agent. The documents of a score agree because quarters add up to their
  months (`QuartersAddUp`) and a sum of differences is the difference of the sums
  (`NetsAgree`); the rates of an audit are the last of each kind not after its day
  (`RatesOfADay`, over the schedule's invariant `ScheduleOK`) over the section of a process,
  whose rates are percentages wherever it comes from (`BaseRates`, over the invariants
  `TuningInv` and `AuditorTyped`: what a refresh installs has the section's types and is
  sane), and its findings those of
  the ledger whatever a model adds (`AuditSound`); an excerpt is within reach
  (`RelevantIsNear`, an induction on the rows).

The figures rest on what the code checks or types of its inputs: the rows of a request
are amounts (`RequestsAssumption`), the watchdog's section has numbers with deviations
above 0, which `tuning.py:373` requires (`HmmAssumption`), the months forecast make up
quarters, twelve in the code (`HorizonAssumption`), a rate row's key is one of the
auditor's settings, and an auditor section whose fields have the right types is one of
`AuditorTuning` (`TuningAssumption`).

Induction over data needs no operator parameter where the recursion is a function on
numbers: `Induction` (a set with 0 that is closed under +1 holds every number, from the
well-foundedness of <) proves first that the function exists, then what it computes.

**Only model-checked.**

- Liveness: the prover does not handle fairness, nor ENABLED.
- What no property is about: the size of a score and its weights, the outlier, the
  forecast's shape. The runs evaluate them; only their consequences are stated.

Every invariant and action property of the passing runs is a theorem, and every
refinement.

## 5. What the runs found

Where the code and what it says of itself differ. Unless the run is marked
*violated* it passes, with a property that names the exception.

Money and stock:

1. **Money on a cancelled invoice** (`finance/events.py:145`): payments check the
   balance and not the status; the comment says the service guards against it. The
   account itself stays frozen.
2. **A rejected bank line pays** (`finance/service.py:1121`): two reviewers read it
   pending and the later one wins, against "keeps it out permanently".
3. **A stock movement is overwritten** (`inventory/service.py:279`,
   run `inventory_lost_update`, *violated*): the locked read returns the level the
   agent tool loaded before the lock. Nothing but a stale level makes stock drift.
4. **A proposal stays APPLIED without its write** (`proposal_service.py:257`):
   after a failed flush the commit that should undo the claim fails too.

Messages and mail:

5. **An outage dead-letters healthy events** (`workers/outbox/projector.py:87`):
   the publisher's docstring promises a rollback and a retry; the projector
   catches the exception and counts it.
6. **Poison messages circulate for ever** (`workers/tasks/dlq_tasks.py:184`): the
   replay strips the death count that the guard reads.
7. **Two active alerts for one expense** (`alerts/service.py:146`): look-up and
   insert race across consumer processes, at most one alert each.
8. **A dead letter cannot be replayed** when its key is long
   (`notifications/service.py:178`): the suffix does not fit the column.
9. **A reminder repeats after dead-lettering** (`workers/email/flusher.py:105`),
   which deletes the row that held the key.
10. **A mail repeats although nobody died** (`workers/email/flusher.py:87`): a send that
    raises after the server took the mail is retried, up to `EMAIL_MAX_RETRIES` times.
11. **One-click unsubscribe is refused** (`notifications/router.py:116`) by the CSRF
    middleware, from which the path is not exempt.

Sessions and conversations:

12. **A session survives a reset** it overlapped (`identity/service.py:282`).
13. **A reset link works twice** for overlapping requests, or after a crash before
    its blacklisting (`identity/service.py:287`).
14. **The summary misses a replan's outputs** (`agents/planner.py:83`), and the
    second replan cannot be reached.
15. **A resumed fast path is routed anew** (`routers/conversations.py:209`) and may
    repeat its agent.
16. **A killed run cannot be resumed** (`routers/conversations.py:515`): its status
    never becomes failed.

Tuning, models and agents:

17. **A badly typed tuning row crashes its reader** (`db_tuning.py:98`) instead of
    being dropped.
18. **The classifier's batch size is read at import** (`b_classifier.py:39`).
19. **A malformed answer skips the backup** (`llm/failover.py:66`) and reaches the
    caller as another exception.
20. **The outlier score is the oldest debit's** (`anomaly_service.py:463`), not the
    most recent one's.
21. **A historical audit uses today's totals** (`f_auditor.py:192`) with the rates of
    its day.
22. **A schedule that cannot be read goes unnoticed** (`db_tuning.py:127`): the audit
    uses its process's rates, whatever the day, and does not say so.
23. **A query that failed is reported "executed"** (`forecast_service.py:305`).
24. **A manual entry may override a source's status** (`integrator_service.py:290`), with
    any label.
25. **A table with the name of a table expression is read ungranted**
    (`tools/sql_executor.py:250`), against "every real table reference in the AST must be
    in the allowlist".
26. **The stock keeper acts in insights mode** (`stockkeeper_service.py:238`), against
    the registry's "may exercise in 'actions' mode".
27. **Every write-off is flagged** (`stockkeeper_service.py:125`): the check wants a
    positive quantity.
28. **A perfect match is dropped** (`tax_rag_service.py:161`): distance 0 counts as
    none.

Periodic and background tasks:

29. **An entry is classified twice** (`batch.py:237`) when a model names an id outside
    its batch.
30. **A resumed conversation is partly purged** (`batch.py:584`).
31. **Two fits of one model race** (`ml/model_store.py:113`): an error, or a lost
    increment of the version.
32. **Corrections never reach the stored categories** (`batch.py:81`).
33. **Monthly reports are not scoped to their business** and overwrite each other's
    artifacts (`reporting_tasks.py:56`).
34. **A malformed answer makes a receipt unreadable at once** (`tasks/ocr.py:183`)
    instead of after its retries.

Findings 2, 4 and 8 are steps of the models that no property forbids (`ReviewWrite`
twice, `WriteBreaksSession`, `ReplayWrite` without `KeyFits`). 11, 18, 23, 32, 33 and
34 were met in the code around the modelled part; no property is about them.

## 6. Plan

What is left, most important first.

1. `EmailOutbox` shown to implement `AtLeastOnce`, once a replay is a new item there.
2. Weighted-average cost of a receipt with its rounding to cents, against the sum of
   the movements' values.
3. Composition: `Settlements` with `InvoiceLedger`'s `ApplyReconciledPayment`, which
   it now abstracts to a balance, and `Proposals` with the writes it releases.
4. The reconciliation tasks of `batch.py` with their events; the reporting and OCR
   tasks with their retries; liveness of the classifier's drain.
5. Credentials as an enforced gate (issue, verify, revoke), of which `Jobs` has only
   the switch.

Runs are kept few: a module has one passing run that asks all its questions, and a
run that shows a disagreement only where no passing property names it.

## 7. Not modelled, and why

- **CRM** is plain maintenance of rows.
- **Verifiable credentials** are cryptography; by default they run in shadow mode,
  where a failure skips one match. `Settlements` has that skip, `Jobs` the switch.
- **Documents and reports**: a receipt or a monthly report is one call of a model or
  of two agents with the worker's retries around it; the agents are in `Advice`,
  `Credit` and `Forecast`. Rendering of PDF and XLSX is layout.
- **Application shell and infrastructure**: start-up, connections, configuration,
  metrics. What the models need of it is part of them (section 1).
- **Frontend and migrations** keep no state of their own at run time.
- Within the modelled parts: expiry of tokens (it makes fewer of them valid),
  weighted-average cost, the wording of mails, alerts, prompts and audit rows, JSON
  parsing, and what a fitted model computes. That something is written, when, and in
  which transaction, is modelled throughout.
