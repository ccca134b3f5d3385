# DA-SMTP verification

TLA+ models of the DA-SMTP relay, the TLC runs that check them on small instances and the proofs that
TLAPS checks for every value of their constants. Every definition names, in `PROJECT.json` under "map",
the lines of the source it translates.

## The system

DA-SMTP is an SMTP relay in front of a company's mail servers, with a rule engine, ticket creation and
an administration web site. It runs as three long-lived processes and a few one-shot commands:

* the **listener** (`services/smtp_listener/relay`, `cmd_listener`): accepts one mail at a time
  (`handle_DATA` is synchronous in an asyncio loop), resolves the customer, evaluates the rules, executes
  the winning action, counts error aggregations, writes an event;
* the **scheduler** (same package, `cmd_scheduler`): eight loops in one thread. It delivers the outbound
  queue, drains the ticket requests, runs the timer pass of the aggregations, flushes the events to the
  admin, pulls the admin's tables into the listener's caches, and does maintenance;
* the **admin** (`domarc_relay_admin`): a Flask application under gunicorn with its own SQLite
  database: rules, customers, templates, users, AI decisions, H24 authorisation codes, the archive of
  events, and the API the listener calls.

The listener and the scheduler share one SQLite database in WAL mode; each write is a
`BEGIN IMMEDIATE` transaction (`storage.py:465-477`). Python code inside one process does not interleave
with itself, so what interleaves is *transactions of different processes*, network calls made between two
transactions, and crashes at those points. All models take steps of that size.

`services/...` below stands for `services/smtp_listener/relay/...`, and all paths are relative to the
repository root.

## Inventory

| Component | State | Operations | Interacts with | Hard because | Correct when | Model |
| --- | --- | --- | --- | --- | --- | --- |
| Outbound queue: `storage.py`, `scheduler.py:_drain_outbound_once`, `forwarder.py` | `outbound_queue`, `forward_log`, `quarantine` | enqueue, read batch, `relay`, commit, dead letter | the pipeline fills it, smarthosts take from it | SMTP between read and commit; refusal of *some* recipients; lost answers; crash between transmission and commit | nothing is falsely sent, every duplicate has a cause, every mail is settled | `OutboundQueue`, `MailDelivery` |
| Ticket queue: `scheduler.py:_drain_dispatch_once`, `manager_client.py` | `dispatch_queue` | enqueue, submit, record, give up | the pipeline and the timer fill it; the manager answers | answers without an id, 401/403 against transient errors, crash after the manager created the ticket | no row is falsely sent, extra tickets are accounted for, every request is settled | `DispatchQueue` |
| Error aggregation: `aggregations.py`, `pipeline.py:_process_aggregations`, `scheduler.py:_process_pending_tickets_once` | `error_occurrences_local`, `aggregations_cache` | find, upsert, reset, arm, enqueue, mark; timer pass; sync | listener and scheduler both write; the drain writes ticket ids | a snapshot worked through while the listener resets and restarts; enqueue and mark are two transactions | one ticket per incident, of the right fingerprint, when the threshold or the timer says so | `Aggregation` |
| Event log: `storage.py`, `sync.py:flush_events_to_manager`, admin `/events` | `events_log`, admin's `events` | insert, write back ticket or dead letter, flush, mark, rewind | listener, scheduler, `cmd_sync`, admin | rows change between the POST and the mark; two flushers; lost or partial answers | marked means stored, ticket ids belong to the mail, every event arrives | `EventLog` |
| Mail pipeline: `listener.py`, `pipeline.py`, `actions.py` | the mail in hand, rows of all the queues | RCPT, DATA, routes (loop, privacy bypass, no rule, rules), actions, cascade, second evaluation, insert and link of the event, answer | every queue; sync replaces its routing table; senders retry | a dozen transactions per mail, each may fail or be the last; 250 is given at the end | 250 only for what is kept; what was refused is held; rows carry their event | `Pipeline` |
| Rules: `routes/rules.py`, `rules/*.py`, `storage/sqlite_impl.py`, the wizard of `routes/ai.py` | table `rules` (orphans, groups, children) | save, delete, toggle, duplicate, promote, promote a cluster, attach, save a suggestion | flattened for the listener, evaluated as a tree by the simulation page | two evaluators of one table; constraints validated when a child is saved only | both evaluators agree; promotion changes nothing; any table can be published | `RuleTree` |
| Rule distribution: `GET /rules/active`, `sync.py`, `storage.replace_rules` | listener's `rules_cache` | read tree query by query, install, reject | edits in the admin | torn reads | an untouched rule is served exactly; the listener catches up | `RuleSync` |
| Synchronised caches: the admin's pages and `GET` endpoints of `api.py`, `manager_client.py`, `sync.py`, `storage.py` | fourteen tables of the admin, as many caches, `endpoint_health` | save, serve, fetch, replace, age, look up, reload YAML | pages write, the scheduler pulls, the pipeline reads | five representations of one row; a row that a cache refuses ends the cycle; an empty answer replaces a table | a lookup answers what the admin's table said; caches catch up; an outage is noticed | `ConfigSync`; rules in `RuleSync`, routing in `Pipeline`, counters in `Aggregation` |
| H24 authorisation codes: `api.py`, `storage/sqlite_impl.py`, `actions.py`, `scheduler.py` | `authorization_codes`, `customer_h24_codes` and its usages | issue, validate, consume, create, revoke, delete, expire, clean up | `actions.py` calls the admin while the mail is processed; pages of the admin | consumed in one transaction, ticket queued in another process later; handlers outlive their client; a sender retries | a code is redeemed once, opens one ticket, is wasted only by a fault | `Redemption`, `AuthCodes` |
| Customer synchronisation: `customer_sync/*.py`, `routes/customer_sync.py` | `customer_sync_sources`, `customer_sync_locks`, `customers`, memberships of groups | schedule, lock, read, map, upsert, assign groups, flag or delete the missing | external registers; every gunicorn worker has a scheduler thread; pages and operators | the lock expires; partial answers and records; workers die | one run per source; an ok run leaves what the source held; a poor answer removes few | `CustomerSync` |
| AI assistant, decisions: `ai_assistant/*.py`, `routes/ai.py`, `actions.py` | bindings, providers, decisions, audit of shadow mode, one router cache per worker | classify, label, fall back, record, save bindings, switch shadow mode | pipeline (through HTTP), language models, operators | threads check a budget they all spend; caches per process; the listener stops waiting; modes change under way | the overshoot of the budget is bounded; no mail is acted on that never waited while live | `AiAssistant` |
| AI assistant, what is learnt: `rule_proposer.py`, `error_aggregator.py`, `routes/ai.py` | proposals, rules made of them, error clusters | propose, accept, reject, count, recover, close, set a threshold | decisions, events flushed by the scheduler, operators | read in one transaction, written in another | a bounded number of copies; a proposal names its rule; an alarm was earned | `AiReview` |
| Customer register: `customer_sources/local_source.py`, `customer_sync/*.py` (`postgres.py` and the other providers, `mapper.py`, `engine.py`), `routes/api.py:customers_active` | `customers`, the register outside, profiles of service hours, the listener's cache | read, map, upsert, flag or delete; save, refresh and serve profiles; judge a moment | external databases and files, operators, the listener | five questions of which any may fail alone and then counts as empty; data of three tables merged into one row | a failed question spoils its own column; an outage keeps the snapshot; the listener judges by register and profile | `CustomerRegister`, `ServiceHours` |
| Quarantine and retention | `quarantine`, ageing of tables | cap, release, delete | operators, timer | cap deletes undecided rows | what is held is lost only by the cap or by an operator | insertion and cap in `Pipeline` |
| Admin pages, authentication, tenants, secrets, modules, firewall, migrations, installer, templates | one table or file each | forms, lists | - | one transaction per request, I/O | - | not modelled |

## How the modules fit together

```
MailDelivery   (abstract: a queued mail is settled once, delivered or quarantined)
   ^ implemented by            ^ implemented by
OutboundQueue               DispatchQueue          (rows, the drain, the outside world)
                              ^ extended by   ^ extended by
                         Aggregation        EventLog      (who adds rows; what the record step writes besides)

Redemption     (abstract: an issued code is redeemed once and opens one ticket)
   ^ implemented by
AuthCodes      (listener, handlers and pages of the H24 codes)

Pipeline       (one mail; fills the tables the modules above drain)
RuleTree      <-- extended by -- RuleSync          (the rules, and how they reach the listener)
ServiceHours  <-- extended by -- CustomerRegister  (a moment judged; the data it is judged by)
CustomerSync   (which runs of the import exist, and which rows they touch)
ConfigSync     (every other table that reaches the listener)
AiAssistant    (a mail the assistant is asked about)
AiReview       (what is learnt of many such mails)
```

An `MC...` module gives the constants of a module values for TLC; a `...Proofs` module holds its
theorems. Definitions called `Mut...` are alternatives to the definition after them, each with one
plausible mistake: putting one in place of the definition must make TLC find the property it is paired
with in `PROJECT.json` violated, which shows that the property depends on that piece of the code.

### OutboundQueue

| Code | Model |
| --- | --- |
| `outbound_queue` row: `state`, recipients, `attempts`, `next_attempt_at` | `queue[i]`: `state`, `rcpt`, `attempts`, `wait` (time left) |
| `forward_log`, `quarantine` rows of the mail | `forwardLog[i]`, `quarantine[i]` (how many) |
| local variables of the drain | `worker`: the rows of the batch, the attempts *as read*, the row in hand, the outcome |
| what smarthosts accepted (external) | `mailbox[i][a]` |
| `storage.enqueue_outbound` | `Enqueue` |
| `get_due_outbound` with its `ORDER BY` and `LIMIT` | `Due`, `FirstOf`, `ReadBatch` |
| `SmtpForwarder.relay`: connection, refusals, lost answer | `Relay`; an address that smtplib cannot encode: `RelayRaises` |
| the transaction that records the outcome, `_backoff_for`, dead letter | `Commit`, `Exhausted`, `BackoffFor` |
| death of the scheduler, failing commit | `Abort` |

`relay` reports success only if `refused` is empty, so a mail that some of its recipients got is retried
to all of them. `faults[i]` counts the transmissions that reached somebody and were not recorded as
success; `CopiesBounded` says that there is no other source of duplicates.

### DispatchQueue, Aggregation, EventLog

`DispatchQueue` is the ticket queue alone: `DrainRead`, `Submit` (the manager creates a ticket or not and
answers with an id, with 2xx without one, with 401/403, with an error, or not at all), `Record`,
`DrainAborts`. The two modules that extend it conjoin to `Record` what the same transaction does to
their table, so that one theorem about the queue serves both.

`Aggregation` follows `_process_aggregations` transaction by transaction: `Find` (or `Reset`), `Upsert`
(count, tumbling window, decision), `Arm` in timer mode, `EnqueueFor` and `Mark` in threshold mode; and
`_process_pending_tickets_once`: `PassRead` takes a snapshot of due occurrences, `PassEnqueue` and
`PassMark` work it through. `Sync` may remove the aggregation, which deletes its occurrences, between
any two of these. `occ[f]` is the row of `error_occurrences_local`; `wait`, `left` and `seen` are times
relative to now instead of time stamps, so that the state space is finite. `asked[f]` is history.

`EventLog`: `Receive` (a new mail or a reply, which inherits the ticket id of its parent *at this point*),
`RequestTicket`, `LogEvent` (the INSERT at the end of the pipeline, with what was inherited), `DropMail`,
`RequestTimed` (a request of the timer pass with a synthetic uuid); `LogDrainStep` writes the ticket id or the dead-letter
marker back and rewinds the flush mark where the code does; `FlushRead`, `FlushAnswered`,
`FlushRefused`, `FlushMark`, `FlushDies` are `flush_events_to_manager`, run by the scheduler and by
`cmd_sync`; `Merged` is the admin's upsert.

### Pipeline

A mail in process (`now`) is a list of tasks; a task is a storage transaction or a call of the manager,
and anything of the scheduler falls between two of them. `Rcpt` and `Data` are the SMTP handlers, `FirstAction`
and `RouteTasks` the branches of `process`, `DispatchAction` and `CascadeOf` the tasks of
`_dispatch_action` and of the cascade over further matching rules, one operator per action
(`DefaultDelivery`, `EnqueueDomain`, `Quarantine`, `AutoReply`, `Forward`, `Redirect`, `AlsoDeliver`,
`CreateTicket`, `CodeValid`, `CodeRefused`, `TemplateReply`, `AIClassify`, `AIFailsafe`, `AITaxonomy`),
`EvaluateAgain` the second evaluation after an AI false positive, `InsertEvent`, `Link` and `LinkFails`
the end of `process`, `Accept` the 250, `TryLater` and `DeadLetter` the `except` branch of
`handle_DATA`. `Fault` makes any storage call raise; `Swallowed` says which exceptions the code catches
and `GivenUp` what it then skips. `Die` is a crash. `Sync` replaces `domain_routing_cache`.

Which rule matches, customer resolution, the answer of the AI and of the code validation, and the choice
of smarthost are inputs: every possibility is taken.

### RuleTree and RuleSync

`rules[r]` is a row of the table. A `match_*` column holds one of `Texts`, of which only matters what a search for it
accepts: `Accepted`, and `AcceptedBoth` of two expressions that `flatten.py` combines to `(?=.*p)(?=.*c).*`
(`flatten.py:30`). That need not be what both accept: an inline flag such as `(?i)`, which the forms are prefilled with
(`routes/rules.py:355-359`, `rule_proposer.py:153`), does not compile there since Python 3.11, and the listener takes
the error for no match (`rules.py:249-253`). Both functions are constants, so the theorems hold whatever the
version of `re` makes of a combination. The actions are the handlers
of the pages: `SaveOrphan`, `SaveGroup`, `SaveChild`, `Delete` (with its cascade), `Toggle`, `Duplicate`,
`Promote`, `PromoteCluster`, `Attach`, and `SaveSuggestion`, the
wizard that stores a rule the assistant generated (always disabled, without parent). Two pure functions read the table: `Flat` (`flatten.py`, followed
by the listener's `ListenerWinners`) and `TreeWinners` (`evaluator.py`, the simulation page, which tests only
`SimFields`). They agree under a discipline that no page enforces: the leaves of two items lie as the items do
(`Contiguous`; it is not enough that each child lies rightly to the other items, or the children of two groups may
still interleave), only last children go on, no rule tests what the simulation does not, and what
a group and a child are combined to accepts nothing that the group does not (`Narrows`; a backreference could). `RuleSync`
adds the request that reads the tree one query at a time (`PullTop`, `PullKids`), and `PullInstall`,
`PullRejected`, `PullFails` at the listener.

### CustomerSync

| Code | Model |
| --- | --- |
| thread of a worker, or of a page, that runs `SyncEngine.run` | `r \in Runners` with `phase[r]` |
| the `source` dict it was started with, local variables of the run | `job[r]`, `work[r]` |
| row of `customer_sync_locks` | `lock[s]`, the time until `expires_at`; 0 if there is no live row |
| `customers`: last source and `contract_active` | `customers[c]` |
| membership of the group `contract_active`, automatic or manual | `member[c]` |
| `_tick` of the scheduler, `run_view` (with dry runs), `sync_customer_source_now` | `Launch`, `RunNow` |
| `acquire_sync_lock`, `release_sync_lock` (whosever lock it is) | `Acquire`, `Skip`, `Release` |
| the loop over records: mapping, `upsert_customer_record`, `apply_auto_assignments` | `Unmapped`, `Upsert`, `UpsertFails`, `Assign` |
| the threshold of one half, `flag_missing_customers`, `delete_customers` | `TooFew`, `EndFetch`, `RemoveMissing` |
| exceptions inside and outside the `try`, death of the worker | `Breaks`, `Dies` |

`left[r]` (the time the run's own lock had left), `overran` and `exact` are history. Runs of two sources
meet in the table: an upsert takes a customer over, and the removal goes by `codcli` alone.

### AuthCodes and Redemption

A *visit* is one delivery of a mail to the listener; a sender whose listener died before the 250 comes
again with a new visit (`Tries` bounds how often).

| Code | Model |
| --- | --- |
| rows of `authorization_codes`, `customer_h24_codes`, `customer_h24_codes_usage` | `oneshot`, `permanent`, `usages` |
| the mail in the listener and the call it waits for (`actions.py`) | `now`, with `Start`, `Receive`, `Lose`, `Continue` |
| a handler of the admin between its transactions | a record of `calls`, with its `pc` and `answer` |
| `auth_codes_validate`: no code in the subject, one-shot, permanent | `NoCodeInSubject`, `ValidateOneshot` (with `Consume`), `ValidatePermanent` |
| `auth_codes_post`: look for a free code, insert it | `Issue`, `InsertOneshot` |
| the row of `dispatch_queue`, the 250, the death of the listener | `OpenTicket`, `Answer250`, `Die` |
| pages of codes; expiry; `cleanup_expired_codes` | `IssueByHand`, `DeleteCode`, `CreatePermanent`, `Revoke`; `Tick`; `Cleanup` |

A call whose answer is lost stays in `calls` and may still consume its code. `ConsumedIsServed` therefore
says: a code that was spent by a visit had its answer carried on by the listener, or a call of
that visit was lost or the listener died. `ImplementsRedemption` maps rows to issues: whatever is lost, an
issue is redeemed by one visit and opens at most one ticket.

### ConfigSync

`db[s]` is the admin's table of section `s`, `cache[s]` the listener's, `snap[s]` history: the table the
cache was made from. For each of the fourteen sections (`Order`, the order of
`sync_customers_and_rules`) there is what the form of the page stores (`Save...`, with the unique keys of the
schema), what the endpoint serves (`Served...`), what the cache makes of it (`Cached...`), and, where the
schema of the cache may refuse a row, when (`...Refused`). `Fetch` has the three ways in which the client treats an
endpoint that fails: the exception ends the section (`FetchPlain`), a missing endpoint counts as an empty
table (`FetchTolerant`), any error does (`FetchLenient`). A cycle is `Begin`, one `SyncSection` for each
section, `Finish`, which computes `cache_stale`; `Restart` ends it early. The
remaining operators are the listener's lookups (`FindRoute`, `PickSmarthost`, `IsBypassed`,
`FindTarget`, `FetchActiveRuleSetIds`, ...), which `ListenerAgrees` compares with the admin's table. Of several sets of
one profile the listener takes one, whichever SQLite returns first (`fetchone` without `ORDER BY`,
`storage.py:1007-1016`), and `SetsAgree` claims no more. Nor does `ListenerAgrees` claim that the rows it compares with
are the admin's after a failed lenient fetch, or that every column has a place in the cache: the customer of a route and
the service profile of a customer have none (`OutageKeepsCaches`, `RouteKeepsCustomer`, `ProfileSetsApply` below).

### AiAssistant and AiReview

| Code | Model |
| --- | --- |
| `do_ai_classify`, `do_ai_taxonomy`, the client's timeout | `Post`, `GiveUp`, `Acted`, `Unanswered` |
| `classify_email`, `classify_taxonomy`: switch, budget, binding; calls; `insert_ai_decision` | `Admit`, `Pick`; `CallProvider`, `CallFallback`; `Record` |
| a gunicorn worker with its `AiRouter` singleton; death of a worker | `cache[w]`; `Die` |
| `sum_ai_decisions_cost_today` | `SpentToday`; the days of rows and of the clock differ by `UtcLag` |
| pages of providers and bindings, `invalidate_cache` | `SaveProvider`, `DeleteProvider`, `UpdateBinding`, `InsertBinding`, `Invalidate` |
| page of shadow mode: counts decisions, writes the setting, writes the audit row | `Consider`, `Switch`, `AuditSwitch` |

`AiReview` has two halves that do not share state: `StartRun`, `Propose`, `EndRun` (the proposer),
`Accept`, `Mark` or `Forget` (accepting is two transactions), `Reject`, `DeleteRule`; and `Receive`, `Create`,
`Count`, `Recover`, `Close`, `SetThreshold` for the clusters of errors that `/events` feeds. `Decide` and
`Age` let decisions appear and leave the window of the proposer. `copies`, `atOnce` and `lowest` are history.

### CustomerRegister and ServiceHours

`ServiceHours` has no state: `HoursOf` is what `customers_active` makes of the profile a customer's code
names, `Parsed` and `IsInService` are the listener's `service_hours.py`, minute by minute. `CustomerRegister` has the
register outside (`source`), a run of the engine on the three kinds of provider (`Open`, then `Ask` or
`AskFails` for each of the five questions of the legacy register, then `Upsert` for each customer and
`Finish`; `BreaksOff` is the exception), the profiles (`NewProfile`, `EditProfile`, `DeleteProfile`,
`RefreshHolidays`), what the admin serves (`Served`, with the holidays of the profile and the customer's own together), and the listener's
cache of it (`SyncListener`) and judgement (`Context`, `Judged`).

## What the runs check

Every run is `tlc -config <cfg> MC<module>`; each ends without an error in one or two minutes with two workers.

| Run | Instance | Shows |
| --- | --- | --- |
| `outbound` | `Outbound.cfg`: 2 mails for any subset of 3 addresses, one of which cannot be encoded; 2 attempts, a batch of 2, delays 1 and 2, one crash | `LogMatchesQueue`: audit rows agree with attempts and states although they are computed from older reads; `CopiesBounded`: every duplicate has a recorded cause; `Settles`; `ImplementsDelivery` |
| `agg_threshold` | `AggThreshold.cfg`: 1 fingerprint, threshold 2, window 2, 5 mails, 2 rows of 3 attempts, a batch of 2, one crash | `OneTicketPerIncident`, `ResetFrees`, `ThresholdAsks`; and of the queue below, `TicketsAccounted`: tickets beyond the recorded one are ones whose answer was lost; `ImplementsRequests` |
| `agg_timer` | `AggTimer.cfg`: 2 fingerprints, delay 1, 2 mails, 3 rows, one crash | `TicketBelongs`, `PlaceholderReplaced`, `TimerFires` |
| `log` | `Log.cfg`: 2 events (a reply among them), 1 ticket request, 2 flushers, batches of one event, one crash | `MarkedIsStored`, `TicketTraced`, `AdminKeepsTicket`, `EventsReachAdmin` |
| `rules` | `RuleSync.cfg`: 3 rules, filters on three fields of which the simulation tests two, one expression with an inline flag, 4 operations, between the queries of the request too | `ParityUnderDiscipline`, `UntouchedExact`, `EventuallyInForce` |
| `pipeline` | `Pipeline.cfg`: 1 mail for one domain or two, the contents of the routing table and rule lists of `MCPipeline`, a quarantine of 2 with one row purged, 2 tries, one fault, one sync | `AcceptedIsKept`: 250 only for what is queued, held or asked for; `OriginalsExplained`: a recipient gets a second original from one try only if an AI rule ran beside another or the rules were evaluated again; `RefusedIsHeld`; `GetsThrough` |
| `customers` | `Customers.cfg`: 1 source that holds three customers or one of them, 2 threads, a lock of 1 unit, 1 edit or run by hand, 1 fault (a failed transaction, a record without a code, a broken query, a death, a late run) | `OneRun`: no two runs of a source before one was late; `OkIsExact`: after an ok run the table is what the source held; `MassSafe`: no run removes more than half; `DueRuns` |
| `codes` | `Codes.cfg`: 2 urgent mails for rules of two tenants and one that asks for a code, 2 codes, 2 issues, one manual operation, one fault | `ConsumedIsServed`, `ImplementsRedemption` |
| `config` | `Config.cfg`: each section alone, or with those it bears on (15 studies), two to four rows a table (two sets of one profile among them), two tenants, 2 edits, 1 fault, a staleness limit of 1 | `ListenerAgrees`, `Converges`, `OutageIsFlagged` |
| `ai` | `Ai.cfg`: 2 mails to classify and 1 to label, 2 threads of 2 workers, 2 providers, a budget of 1, 2 days, 1 edit, 1 crash | `BilledBounded`: what classifications cost on a day stays below the budget plus what the requests at work at once may cost; `ActsOnlyIfLive` |
| `ai_review` | `Review.cfg`: 1 pattern, 2 runs of the proposer, 2 reviewers, 2 handlers, 3 decisions, 3 proposals, 4 events, 2 clusters, 2 edits | `CopiesBounded`, `NamesOwnRule`, `OpenedWasEarned` |
| `register` | `Register.cfg`: 2 customers, 2 profiles and a third to be made, one customer with holidays of its own and of its profile, a week of 2 days of 4 minutes, 3 kinds of provider, policy delete, 1 edit, 1 fault | `FieldsExact`: a row is what the register said, except in the columns whose question failed; `OutageKeepsSnapshot`; `RegisterApplies`: in the end the listener judges by register and profile |

Four more properties hold with the constants of these runs: `RowsLinked` (`Pipeline.cfg`), `OwnSavesSeen` (`Ai.cfg`),
`PromoteNeutral` (`RuleSync.cfg`) and `ManualKept` (`Customers.cfg`), the last two proved below; the type invariants do too.

**Why these bounds are enough.** Two rows are the least at which one row of a batch waits while another
is transmitted, and at which a poisoned row starves another. Two attempts have a first, and a last that
is not the first; three add one in between. One crash can fall on every step and be repaired
afterwards; two crashes add no new kind of state because no module keeps state about crashes but the history
counter. In `agg_threshold` five mails make an incident, its reset and a second incident that reaches the
threshold; `agg_timer` has two fingerprints because a ticket of the *wrong* fingerprint needs two. Events flushed one
at a time (`FlushLimit` 1) show that an old event does not starve a young one. Three rules are a group, a
child and an orphan, or a group and two children; four edits build such a table and change it once more.
Three customers are the least of which an answer may lack more than half, and two threads the least that
contend for a lock. A mail for two domains is the least that is queued twice. Two urgent mails of two
tenants that carry one code are the least that compete for it and that may use the other's. In `config` no
lookup reads more than two tables, so sections are studied alone and in the pairs that
a lookup joins; a section that refuses is studied with one before it and one after it. Two threads
are the least that overshoot a budget together, and in two workers the least whose caches differ. Two runs
of the proposer, two reviewers and two handlers are the least that write over each other. Four minutes have
one before, one at and one after each limit of a window. Every bound stands in a guard (the constants named
`Max...`), so the models stop growing there: `CHECK_DEADLOCK FALSE` is set because a model that has used
up its bounds and settled everything has nothing left to do, as the program has when nothing arrives;
`Config.cfg` does without, since cycles never end.

**Fairness.** The scheduler's loops run for ever, each iteration catching what it raises and sleeping
its interval (the `_..._loop` functions of `scheduler.py`), so a drain, a timer pass or a flush that stays possible is
eventually taken: weak fairness of `Drain`, `Submitting`, `TimerPass`, `Listen`, and of the clock. In
`EventLog` drain and flush share one thread; each is disabled while the other runs, and the thread takes
them in turn, hence strong fairness of `Submitting` and `FlushRead("scheduler")`. That the admin answers
some flush in the end (`FlushAnswered`), and that some request in `RuleSync` ends without a
failure (`PullInstall`), are assumptions about the network; both are strong fairness because a failure disables the step for
a while. Nothing is assumed of SMTP partners or of the ticket manager: they may fail for ever, and rows then end
dead. Nothing is assumed of edits, mails, crashes and syncs, which may or may not happen. In `Pipeline`
the event loop runs what it has started (`WF(Step)`) and a sender retries what was answered
451; `FairSpec` bounds faults below the number of tries. In `CustomerSync` every worker's scheduler looks
for due sources once a minute (`Launch`, strong because all threads may be busy), a run goes on, and time
passes. In `ConfigSync` cycles start and go on (`WF(Sync)`) and time passes; that endpoints answer is a
premise of `Converges`, and that they do not one of `OutageIsFlagged`. In `CustomerRegister` runs are made
(`WF(Step)`) and the listener fetches its customers (`WF(SyncListener)`); `MaxFaults` bounds what fails.

## What is proved

TLAPS proves for every value of the constants that meets the named assumptions (`OutboundAssumption`,
`DispatchAssumption`, `AggregationAssumption`, `EventLogAssumption`, `CustomerAssumption`, `PipelineAssumption`, `AuthCodesAssumption`
with `RegisteredAssumption`, `ReviewAssumption`, `ConfigSyncAssumption` with `RowsAssumption`, `RegisterAssumption` with
`ProfilesAssumption` and `RegistersAssumption`, `RuleBounds`: counters are naturals, at least one
attempt and a batch of at least one row, a backoff that is any sequence of naturals, sets of addresses,
fingerprints, codes and patterns of any size, finite where the module says so):

| Module | Theorem | Statement (`Spec => ...`) |
| --- | --- | --- |
| `ListenerProofs` | `TypeCorrect`, `AuditCorrect`, `CopiesCorrect` | for `OutboundQueue`: `[]TypeOK`, `[]LogMatchesQueue`, `[]CopiesBounded` |
| | `BatchFresh`, `SentCorrect` | `[]BatchIsFresh`: rows held by the drain are what the table says; `[]SentReachedAll` |
| | `FinalIsFinal` | `NothingAfterFinal`: an action property |
| | `Refinement` | `ImplementsDelivery`, the implementation of `MailDelivery` |
| | `RulesTypeCorrect`, `ReadingsEqual` | for `RuleSync` (`RulesSpec`): `[]SyncTypeOK`, `[]ParityUnderDiscipline` |
| | `TornPullExact`, `PromotionNeutral` | `UntouchedExact`, `PromoteNeutral`: action properties; the second for rules whose expressions bear being combined with themselves |
| `TicketProofs` | `QueueTypeCorrect`, `DrainFresh`, `TicketsCorrect`, `FinalRequestsStay`, `RequestsRefine` | the same for the ticket queue: `[]QueueTypeOK`, `[]DrainIsFresh`, `[]TicketsAccounted`, `FinalRowsStay`, `ImplementsRequests` |
| | `TypeCorrect`, `OneTicket`, `TicketsBelong` | for `Aggregation`: `[]TypeOK`, `[]OneTicketPerIncident`, `[]TicketBelongs` |
| | `ResetsFree` | `[](Delay = 0 => ResetFrees)` |
| | `PlaceholdersReplaced` | `[](Delay > 0 => PlaceholderReplaced)` |
| | `LogTypeCorrect`, `TicketsTraced` | for `EventLog` (`LogSpec`): `[]LogTypeOK`, `[]TicketTraced` |
| | `StoredBeforeMarked` | `[]MarkedIsStored` when the admin does not fail on single events |
| | `AdminTicketKept` | `AdminKeepsTicket`: an action property |
| `CustomerSyncProofs` | `TypeCorrect`, `RunsApart` | `[]TypeOK`, `[]OneRun` |
| | `OkRunsAreExact` | `[]OkIsExact` |
| | `NoMassRemoval`, `ManualMembersStay` | `MassSafe`, `ManualKept`: action properties |
| `PipelineProofs` | `TypeCorrect`, `Refused` | `[]PipelineTypeOK`, `[]RefusedIsHeld` |
| | `Explained` | `[]OriginalsExplained` |
| | `Accepted` | `AcceptedIsKept`: an action property |
| `AuthCodesProofs` | `TypeCorrect`, `Served`, `AuditCorrect` | `[]TypeOK`, `[]ConsumedIsServed`, `[]AuditKept` |
| | `Refinement` | `ImplementsRedemption`, the implementation of `Redemption` |
| `AiProofs` | `TypeCorrect`, `FewCopies`, `OwnRules`, `Earning` | for `AiReview`: `[]TypeOK`, `[]CopiesBounded`, `[]NamesOwnRule`, `[]OpenedWasEarned` |
| | `AssistantTypeCorrect`, `ActsLive`, `Billed` | for `AiAssistant`: `[]AssistantTypeOK`, `[]ActsOnlyIfLive`, and `[]BilledBounded` where the server's days are those of UTC |
| `ConfigProofs` | `ListenerAnswers` | `[]ListenerAgrees`, in which one of the sets of a profile counts |
| `RegisterProofs` | `RegisterTypeCorrect`, `FieldsCorrect` | for `CustomerRegister`: `[]TypeOK`, `[]FieldsExact` |
| | `SnapshotKept` | `OutageKeepsSnapshot`: an action property |

**The argument.** Few of these invariants are inductive alone. Temporal conclusions are drawn by `PTL`
from `Init => Inv` and `Inv /\ [Next]_vars => Inv'`; what is strengthened, and why:

* `OutboundQueue` computes the new attempts of a row from a copy read before the SMTP dialogue;
  `LogMatchesQueue` is preserved only because `BatchIsFresh` says that nobody else changed the row
  meanwhile, and that holds because there is one drain and a row in its batch is live. `SentReachedAll` has
  to speak of the moment between `relay` and the commit (`SentUnrecorded`). `IInv` is the conjunction of
  the five. `DispatchQueue!QueueInv` is built in the same way, and its preservation by the queue's part of
  a step is a lemma that the proofs of both extending modules cite.
* `Aggregation!IInv` adds `StepsAgree`: in threshold mode only the listener opens tickets and in timer mode
  only the scheduler; whoever is about to ask for an occurrence still sees it without a ticket. It is this
  fact, and no lock, that keeps an incident from asking twice. `ResetsFree` needs `ThresholdFrees`: only the
  listener resets in threshold mode, so an occurrence about to get a ticket counts something.
  `PlaceholdersReplaced` needs `TimerReplaces`: one thread asks and drains, so nothing is sent between
  asking and marking. Each fails in the other mode, see below.
* `EventLog!LInv` adds `CarriedSound`: the ticket id that the mail in the pipeline inherited, and the copies
  a flush has read, stay true while others write.
* `CustomerSync!OneRun` needs `LockHeld`: the lock a run holds is live and expires together with the run's
  right to it, so a free lock means that nobody runs and a release removes the run's own lock; it speaks
  only of sources without a late run (`overran`), because `release_sync_lock` asks for no holder. `MassSafe`
  follows from the threshold (`TooFew`) at the one step that begins to remove, and from the finiteness of
  `Customers`. `OkIsExact` needs `Exactness`, which follows a run record by record: it reads what its source may
  hold (`ReadSound`), what it has seen is in the table as it was read and the rest is still to do (`SoFar`), and no
  other run touches a customer that only this source has (`Ours`, with `OneRun`).
* `Pipeline!IInv` adds `Busy` (only the mail in hand is at work, and a sender that will come again has a try left), `Window` (the quarantine is the
  tail of everything ever inserted), `RefusalsSound` and `Charged` (tries that ended without a trace are at
  most the faults).
* `Pipeline!CallInv` follows the call in hand through its list of tasks, which actions shorten, extend and
  cut. `Fits`: a task of the winning rule comes first or never, originals of the block "main" belong to the winner,
  and behind `evaluate_again` only the event and the link are left. `Single`: while no AI rule ran and no
  false positive was found, at most one task may still queue an original for a domain (`Once`; what an AI action
  brings along does not count, because it is run or given up together with it, `Led`), and none once one is queued.
  `Promised`: what `action_taken` says has been done (`Kept`), or its task is the next one (`Pending`), or the
  tasks that deliver to a domain that stayed managed are still to come (`Comings`). `FirstBegun` shows them of the
  tasks a call starts with, for every route and every list of matched rules, `AgainBegun` of those of the second evaluation;
  `Onward`, `Delivered`, `Enqueued` and `Dropped` carry them over a task done, an original delivery split by
  domain, one domain's row and a block an except clause gives up.
* `AuthCodes` carries `Visiting`, `CallsSound`, `NowSound`, `HistorySound` and `RowsSound`: a visit has at most one
  call, which waits or was broken off, an answer "valid" was preceded by the consumption it reports, and a row that
  is not used has never been spent.
* `AiReview` carries `CopiesSound` (copies of a pattern and the runs that still hold it are at most
  `atOnce`), `RulesSound`, and `ClustersSound` (what a handler read has a least threshold not below the
  one the row has now).
* `AiAssistant` carries `LiveSound` (while the assistant is live, whoever waits has waited while it was) and
  `OneRequest` (a mail is at one thread at most, and is recorded only when it has left it). `CostsSound` is the
  account of a day: what was billed is at most what is recorded, what threads still owe, and what died with its
  process; each thread that was let in read a sum below the budget. The sum over the decisions is a
  fold over a set in the library; `SpentMore` says what one more decision does to it, by the fold's definition.
* `ConfigSync!ListenerAgrees` compares answers, and the invariant compares data: a cache is what its code makes of the
  table served last (`CachesSound`), or the table of routes was empty and the files filled it. Two of the eleven
  lookups need more than that. A smarthost is one for a domain because the cache refuses a table that names the domain
  twice, so a table that was not refused has no such rows; and a customer forced on a domain is the one of the
  strategy because the key of the admin's table keeps one strategy for each domain of a tenant (`OneStrategy`, carried from the
  form through the tables to the history). One lemma for each lookup (`RoutesHold`, `DomainsHold`, ...) does the rest.
* `CustomerRegister` carries `RunSound`: what a run has seen or has yet to do is whom it read, whoever it has seen is in the
  table as read, and a run that has seen nobody finds the customers as they were when it began. At its end the
  customers it read are not among the missing, so `ResultSound` takes over, and lasts until the next run writes.

* `RuleTree!ParityUnderDiscipline` compares two evaluations of a tree, and is shown leaf by leaf. `ListenerReads` says
  which leaf the listener takes: one that matches, all leaves before it that match say to go on. `WinsInItem` and
  `GoesOnReads` say the same of the leaves inside an item and of an item as a whole; the second needs the first
  matching child of a group, which exists because priorities and ids are naturals (`FirstRow`). `BlocksApart` turns the
  order of items into that of leaves. About the table only its shape is needed (`TableTidy`, from `TreeTypeOK`, which
  every operation keeps, the cascade too: `CascadeCloses`).
* `RuleSync!SyncInv` follows a request: for rules that no edit touched since it began, the items it read are those of
  the table (`ReadTop`), and of an untouched group that it is done with it has exactly the children (`ReadKids`); a
  child's flag depends on its group and its siblings alone (`SameSiblings`), so `SameRows` gives `UntouchedExact`. That a
  cache holds a rule once is due to the primary key, since an answer may carry a moved rule twice. `PromoteNeutral` needs
  that rules without a parent carry none of a child's flags (`AllPlain`), and that each expression of the rule, which
group and child then both have, accepts beside itself what it accepts alone (`BearsItself`): one with an inline
flag does not, and promoting its rule makes that rule match nothing.

**Only model-checked**: everything about liveness (outside this prover's reach, as is `ENABLED`).

## Known deviations

Where the code does not keep what it, its comments or its documentation say of it, there is a property that says
so and a configuration in which TLC finds it violated
(`tlc -config <cfg> MC<module>`). Several properties share a configuration: one is active, the others stand in
comments, with the constants they need. They are listed for whoever changes the code.

| Config (module) | Property | The code | What says otherwise |
| --- | --- | --- | --- |
| `AggDeviations` (`MCAggregation`) | `OwnTicket` | a late success of an old request replaces the placeholder of a newer incident | `scheduler.py:221-225` |
| | `PlaceholderReplaced` in threshold mode | the drain may send the row before `pipeline.py:1099` writes the placeholder | `scheduler.py:216-218`: the placeholder is replaced |
| | `TwoInWindowOpen` | the window is tumbling, not sliding (`aggregations.py:152-165`) | `templates/admin/aggregations_list.html:61` |
| | `ResetFrees` in timer mode | the timer pass marks by id an occurrence the listener has reset since its snapshot (`storage.py:1499-1501`) | the reset clears ticket and deadline (`storage.py:1363-1370`) |
| | `UnresolvedAsks` | in timer mode a problem after a reset finds a row whose window has not expired, and the deadline is set only for a new row or an expired window (`pipeline.py:1033`) | `CHANGELOG.md:520` |
| `LogDeviations` (`MCEventLog`) | `AdminKeepsDead` | the admin's upsert replaces metadata (`sqlite_impl.py:1190-1194`) | the dead-letter warning of the dashboard |
| | `DeadIsReported` | a mark after the POST covers the marker written meanwhile, with two flushers (`storage.py:663-672`) | `scheduler.py:241-244` |
| | `DeadIsMarked` | a request may die before its event is inserted | `scheduler.py:241-250` |
| | `TicketIsReported` | the ticket id is written without rewinding the flush mark (`scheduler.py:211-215`) | `docs/manuale_utente/MANUALE_UTENTE.md:605` |
| | `SentIsShown` | a request may be sent before its event is inserted | the same |
| | `ReplyInherits` | the parent's ticket id is copied when the reply arrives (`pipeline.py:510-518`, 714) | `docs/guida_funzionamento.md:925` |
| | `MarkedIsStored` with `AdminErrors` | `/events` answers 200 when one event fails (`api.py:727-730`); the flush marks them all (`sync.py:319-325`) | at-least-once delivery |
| `OutboundUnencodable` (`MCOutboundQueue`) | `SendableSettles` | `relay` encodes addresses as ASCII; the `UnicodeEncodeError` is not among the exceptions it catches (`forwarder.py:164-172`), leaves the drain before the row is touched, and the row heads every later batch | `docs/manuale_utente/MANUALE_UTENTE.md:623` |
| `PipelineDeviations` (`MCPipeline`) | `EveryMailGetsThrough` | the UPDATE that links two outbound rows gets a list as a parameter and fails (`pipeline.py:1267`, 748-753); the mail is queued and refused at every attempt | `pipeline.py:1194-1195` |
| | `OneOriginal` | two AI rules of a cascade each queue the original (`pipeline.py:602-609`) | one original per recipient |
| | `AcceptedIsRouted` | a domain accepted from the YAML file when the cache is empty is answered 250 and not delivered (`received_only`) | `listener.py:96-97` |
| | `AIIsDelivered` | a failing original delivery after an AI action is swallowed (`pipeline.py:876`) | `pipeline.py:857-860` |
| `RulesDeviations` (`MCRuleTree`) | `PublishNeverFails` | a group edited after its child leaves two domains that `flatten_rules` refuses (`flatten.py:34-36`); `/rules/active` fails as a whole | `flatten.py:45-46` |
| | `CombinedIsAnd` | an expression with an inline flag does not compile inside `(?=.*p)(?=.*c).*` on Python 3.11 and later, and the rule matches nothing (`rules.py:249-253`) | `flatten.py:21`: combined in AND |
| `CustomersDeviations` (`MCCustomerSync`) | `OneRunInTime` | a late run deletes the lock of the run that followed it (`sqlite_impl.py:4310-4313`), and a third starts beside the second | `customer_sync/scheduler.py:4` |
| | `PresentIsActive` | a flagged customer that comes back with no `contract_active` stays inactive (`sqlite_impl.py:4408`) | `mapper.py`, hint of `contract_active` |
| | `OwnedIsActive` | a customer another source has taken over is flagged by the first (`sqlite_impl.py:4454-4464`) | - |
| | `GroupAgrees` | flagging a customer leaves it in the automatic group `contract_active` | `migrations/034_group_membership_rules.sqlite.sql:112` |
| `ConfigDeviations` (`MCConfigSync`) | `OutageKeepsCaches` | a failed fetch of clients, recipient groups or strategies counts as an empty table (`manager_client.py:629`) | `sync.py:8-9` |
| | `ProfileSetsApply` | the service profile of a customer never reaches the listener (`storage.py:775`, `pipeline.py:106`), so no set of a profile applies | `api.py:354-355` |
| | `EverySetApplies` | of two sets of one profile, which migration 029 and `routes/rule_sets.py` allow, one row is taken, without an order (`storage.py:1007-1016`) | the list of sets, in which each has its profile |
| | `SetsFilter` | if no set is always active and none has the profile, the rules of every set are tried (`pipeline.py:241-242`) | `pipeline.py:234-235`: no filter only when the cache has no sets |
| | `RouteKeepsCustomer` | a route is served with `codice_cliente` and cached by `codcli` | - |
| | `WebmailTargetsSaved` | the key of the H24 targets still is tenant and domain, which the migration leaves as it was | migration 024: "Allenta UNIQUE su source_domain" |
| | `SectionsIndependent` (with `FairSpec`) | a row that the cache refuses ends the cycle (`sync.py:117`) | - |
| `AiDeviations` (`MCAiAssistant`) | `BudgetStopsEveryJob` | labelling asks for no budget (`taxonomy.py:131-137`) | `taxonomy.py:130`: switch and budget as in `classify_email` |
| | `ExhaustedFailsSafe` | a mail over budget is skipped, not answered by a ticket | migration 012: "fail-safe path attivo" |
| | `SavesSeen` | a saved binding clears the cache of one worker only | `router.py:44` |
| | `AppliedIsActed` | a decision is recorded as applied although the listener had given up | the column `ai_decisions.applied` |
| | `LiveWasObserved` | labels, errors and live decisions count as observed | `routes/ai.py:498`: shadow decisions observed |
| | `AuditAlternates` | the switch and its audit row are two transactions | `routes/ai.py:502` |
| | `BilledBounded` with `UtcLag` | decisions are dated in UTC, summed for the server's day | - |
| `Review` (`MCAiReview`), named in its comment | `NoCopies` | two runs read the same fingerprints | `rule_proposer.py:16` |
| | `OneRulePerProposal`, `RejectedHasNoRule` | accepting is two transactions; rejecting looks at no state | `rule_proposer.py:210` |
| | `OneOpenCluster`, `ClosedStaysClosed` | handlers read, then write | - |
| `RegisterDeviations` (`MCCustomerRegister`) | `FailureKeepsColumns` | a failed question counts as an empty answer and the run as ok (`postgres.py:261-263`) | "anche se PG va giù il relay continua con l'ultimo snapshot" |
| | `ExcludedStayOut` | with the question of exclusions failed, excluded customers come back | - |
| | `SilentIsActive` | an empty cell of a CSV file makes the contract inactive | "Default 1 se omesso" |
| | `AroundTheClock` | 00:00-23:59 is closed in the last minute, 24:00 is skipped (`service_hours.py:57`) | migration 003: "24/7" |
| | `BuiltInsStay` | a new tenant profile with the code of a built-in one overwrites it | "Profili built-in non sono cancellabili" |
| | `HoursFollow` | hours that the register no longer has are never removed | - |
| | `OwnHolidaysReplace` | the holidays of a customer are added to those of its profile (`api.py:205-206`) | `api.py:204`: they override them if not empty |

Seen while modelling, without a property. *Pipeline and rules*: the fail-safe of the AI opens a ticket but does not forward the
mail to the fallback address (`_ai_failsafe`); a mail exempt from inspection is put in the quarantine whole when
its processing raises (`pipeline.py:394-399`); shadow mode still counts aggregations; a child's
`match_customer_groups` replaces the group's instead of narrowing it; promoting a rule that continues
can change its flag for a table that does not meet `OnlyLastGoesOn`; `exclusive_match` is stored and never enforced; the
simulation (`legacy_evaluator.py:67-86`) tests the four expressions and the recipient's domain only, and says that the listener
does no more (`legacy_evaluator.py:16-21`), which also tests the sender's domain, three-valued conditions, the tag and the customer groups
(`rules.py:236-364`); saving a
group with the form of a plain rule detaches its children; the wizard warns of a catch-all that `upsert_rule` then refuses.
*Aggregations*: the marker of a dead request stays as a placeholder on its occurrence (`scheduler.py:265`); a threshold
of one opens no ticket for the problem that restarts an expired window (`aggregations.py:182-189`).
*Codes*: four operations of the storage have no caller (`update_h24_usage_ticket`, `invalidate_oneshot_code`,
`expire_pending_authorization_codes`, `mark_h24_usages_reported`); `codes_h24.py` counts a state that nothing sets;
a code in its last second is reported as used. *Register*: `customers_active` ignores the customer's own schedule; it
sends `schedule_overrides` where the pipeline reads `schedule_exceptions` (`pipeline.py:283`); the default
code `standard` names no profile, so its customers are never in service; overnight windows never match; several
fields of a profile (`exclude_holidays` among them) are read by nobody. *AI*: the wizard asks for neither switch nor budget
and records no cost; `manual_recovery_window` is unused; `ticket_opened` opens no ticket.

## Abstractions

* Times are distances from now, aged by `Tick`; a schedule is a sequence of such distances.
* Message bodies, headers, templates and wording are left out. An address is a model value, and whether
  smtplib can encode it is a constant.
* A filter is a text with the values it accepts, alone and combined with another's (`RuleTree`), and what a group and
  a child require of one field may have nothing in common; the syntax of expressions, scopes, rule sets, `move_rules_to_set`
  and the contents of action maps are left out of `RuleTree`; `Attach` is one step although the page
  reads the rule before it writes it.
* In `Pipeline` rule matching, customer resolution, templates, the choice of smarthost, the ACL of
  `handle_MAIL`, unparsable mail and the lookup of shadow mode are inputs or left out, and
  `_process_aggregations`, which catches its own errors, is in `Aggregation`. The tables of `Pipeline` only grow; what the
  scheduler does with their rows is in the other modules.
* In `CustomerSync` a source is read as it is when its query starts, a customer is its contract flag, and
  of the groups there is `contract_active` with its truthy rule; a late run counts as a fault so that it is bounded.
  Creating and deleting sources, and the audit rows of runs, are left out. `CustomerRegister` has the fields it leaves
  out, and leaves out its locks and its concurrency.
* In `AuthCodes` the random draw of a code is any code that is free; mails that are automatic or bulk never ask, and are left out.
* In `ConfigSync` a fetch and the replacement of its cache are one step, since an edit in between is an edit just
  after; `settings` has the one key that a lookup reads. Tables start empty: what migrations seed is among the rows that
  are entered, and built-in rows may be deleted like others.
* In `AiAssistant` a cost is a small number, a traffic split picks any enabled binding, there is one tenant. In
  `AiReview` the similarity of two subjects is an input: a pattern is what the proposer groups by.
* `ServiceHours` judges in the zone of the profile: the conversion of the clock is left out.
* Retention is not modelled: no row of the queues disappears.

## Not modelled

PII redaction, the parser and rendering of replies are functions of texts. Pages of the admin that list or edit one table
in one transaction, authentication, the choice of a tenant, wrappers of pip, of files and of the firewall, the installer and static files have
no protocol to check. Migrations depend on what SQLite does with each statement; two facts that were met:
`executescript` commits first, so a file applied statement by statement is not rolled back as the docstring of
`apply_migrations` says (`sqlite_impl.py:171-219`), and every gunicorn worker applies them. The class `PostgresCustomerSource`
is constructed by nothing, and `RestCustomerSource` caches one answer whole.

## Plan

Done in this order: outbound queue, ticket queue, aggregations, event log, rules, rule distribution, pipeline, customer
import; then codes, configuration, the two halves of the assistant, register and service hours; proofs of every safety and
action property the runs check. Next:

1. **Quarantine and retention**: release by an operator against ageing and the cap.
