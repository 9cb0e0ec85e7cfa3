# Pasloe in TLA+

Pasloe is an append-only event store. Producers POST events into an ingest log;
a committer worker makes them visible and writes a webhook debt for each; a
webhook worker pays the debts. Everything hard happens in between: several
processes may share one database, each holding rows under leases that run out,
and any of them may crash, stall or lose an answer at any point.

These modules model that machinery as `src/pasloe/` implements it, check it with
TLC on small instances, and prove with TLAPS, for any number of events, requests and
processes, the safety of every component that is modelled, and of all of them together.

    tlc -config MCCommitter.cfg MCCommitter.tla      # one run
    tlapm CommitterProofs.tla                         # the proofs of one component

## The system

| Component | State | Operations | Talks to |
|---|---|---|---|
| accept API (`api.append_event`, `store.accept_event`, `database.get_session`) | `ingress_events` rows, the request's session | look a key up, insert, recover from a lost race, answer, commit | producers; the committer through `ingress_events` |
| committer (`pipeline._committer_loop`, `store.claim_ingress_batch` ... `mark_ingress_retry`) | leases and status in `ingress_events`; `sources`, `events`, `outbox_events`, `detail_*`; its batch | poll, claim, load, commit one row, mark for retry | the database only |
| webhook worker (`pipeline._webhook_loop`, `webhook_delivery`) | leases and status in `outbox_events`; its batch; one coroutine per delivery | poll, claim, load, deliver with retries, re-check, settle | the database; receivers over HTTP |
| lease discipline (both `claim_*`, `get_*_for_worker`, `mark_*`) | `lease_owner`, `lease_until`, `next_attempt_at`, `attempts` | shared by the two workers, statement for statement | |
| pipeline runtime (`PipelineRuntime`, `app.lifespan`) | two tasks, a stop event | start, stop (cancel), sleep | the workers |
| registry (`/sources`, `/webhooks`, `_ensure_source`) | `sources`, `webhooks`, each request's session | upsert, delete, list | read by both workers; committers add sources |
| query (`store.query_events`) | none; a cursor in the client's hands | one page, by `(ts, id)` | reads `events` |
| statistics and health (`store.get_stats`, `/health`) | none; each statement has its own snapshot | count | reads all tables |
| domains (`domains/*`) | `detail_*` tables | write in a savepoint; list; count | committer; clients |
| a process (`app.lifespan`) | one committer, one webhook worker, the requests it serves | start, die | other processes through the database only |

What is hard, and what would make each component correct:

- **Concurrency.** Any two workers may select the same candidates. The UPDATE of
  a claim waits for the row's lock and re-evaluates its condition; after that
  the lease is checked when a row is loaded and not again, so stale holders do
  commit. *Correct:* leases pass on only when they have run out; a committed or
  delivered row stays so; an event is visible exactly if its ingress row is
  committed and its outbox row exists.
- **Failure.** A process dies with rows leased, a flush fails in the middle of
  `commit_ingress`, a COMMIT takes effect and its answer is lost. *Correct:*
  commits are all or nothing, and every accepted row is committed in the end.
- **Ordering.** The 202 is sent before the COMMIT; deliveries of one row run
  concurrently and finish in any order; events become visible out of the order of
  their `ts`. *Correct:* duplicates are told about durable events; a row is settled
  only if every steady webhook received it; a listing returns nothing twice and
  leaves out nothing that was there when it began.
- **Time.** Deliveries race with leases, back-offs with polls. *Correct:* a
  webhook that hangs does not keep others waiting for ever.
- **Stale reads.** The registry writes rows from a copy its session loaded before; a
  statistics answer is put together from several snapshots of a store that moves.
  *Correct:* a row stands from its INSERT to its DELETE; the counts of one answer fit
  each other, and what is overdue is reported.
- **Composition.** An event passes through a request, a committer and a webhook worker
  of any processes. *Correct:* every answer leads to a delivery, one key to one delivered
  event, and no receiver hears of what cannot be read.

`PROJECT.json` lists each hazard at its line, with the properties that cover it.

## The modules

| Module | What it is |
|---|---|
| `LeaseQueue` | the lease statements of `store.py` as operators on one row or one table: `Claimable`, `StillClaimable`, `HeldBy`, `Retriable`, `Retried`, `Closed`, ... Instantiated by both workers, with `Open` = "accepted" or "pending" |
| `EventStore` | the abstract promise: accepted, then visible together with a webhook debt, then settled, each once |
| `Committer` | the first stage. One action per statement of the loop that another worker can observe or be blocked by |
| `CommitterLive` | `Committer` with paced time and fairness, for progress |
| `AcceptApi` | POST /events |
| `WebhookWorker` | the second stage |
| `WebhookLive` | `WebhookWorker` with paced time and fairness |
| `Pasloe` | several processes: instances of `AcceptApi`, `CommitterLive` and `WebhookLive` over shared tables |
| `Cursor` | GET /events: a client that follows the cursors while events are committed |
| `Registry` | POST /sources, POST and DELETE /webhooks, and committers that register sources |
| `Domains` | what `domains/*` make of an event: detail row, state, price row |
| `Stats` | GET /events/stats, /health and the statistics of the domains, over a moving store; extends `Domains`, instantiates `EventStore` |
| `CommitterProofs` | the theorems about `Committer`, its locks included |
| `WebhookLiveProofs` | the theorems about `WebhookLive`: the size of a batch, the locks of claims, leases that cover a batch |
| `AcceptApiProofs`, `WebhookProofs`, `CursorProofs`, `RegistryProofs`, `StatsProofs` | the theorems about the module of that name |
| `PasloeProofs` | the theorems about `Pasloe`, from those of its three components |
| `MC*` | instances for TLC |

### How the code maps to Committer

The tables are functions and sets of *committed* rows. `pc[w]` is the line worker
`w` has reached, `todo`, `batch`, `cur` and `seen` are its local variables
(candidates, `claimed_ids`, the loaded row and its `attempts`), and `tx[w]` is
what its transaction has flushed and not committed. The loop body becomes:

| Code | Actions |
|---|---|
| `claim_ingress_batch`, `db.commit()` | `ClaimSelect`, `ClaimUpdate` once per candidate, `ClaimCommit` |
| `get_ingress_for_worker` | `Load` |
| `_ensure_source` | `CheckSource`, `InsertSource` or `SourceConflict` |
| `commit_ingress` | `CheckEvent`, `InsertEvent` or `EventConflict`, `CloseAndEnqueue`, `WriteDetail` |
| `db.commit()` | `Commit`, or `CommitUnheard` if its answer is lost |
| `except` around `commit_ingress` | `MarkRetry` |
| `except` around the loop body | `Fail` |
| `PipelineRuntime.start`, `stop`, a dying process | `Start`, `Crash` (a restart is a new worker: instance ids are fresh) |

Two facts about SQLAlchemy decide what failures do. Assignments to a loaded row
reach the database with the next flush, here the autoflush before the outbox
SELECT. And a failed flush rolls the session back and expires the loaded row: the
next attribute access needs I/O outside an awaited call and raises. So after the
`IntegrityError` that `_ensure_source` swallows, `commit_ingress` raises, the
handler's `mark_ingress_retry` raises as well, and the batch is abandoned to its
leases (`SourceConflict`). `mark_ingress_retry` lands only after a failure that
leaves the transaction usable, before the row is changed, and while the back-off can
be computed (`MarkRetry`); otherwise the batch is abandoned (`Fail`). A failure between
the autoflush and the end of the outbox SELECT (store.py:310) that leaves the
transaction usable is possible on SQLite only, and left out.

`AcceptApi` has one `pc` per request; `Insert` waits while another transaction
holds the same key and `Conflict` is the `IntegrityError` it may wake up to. The
COMMIT is a step after the answer, as the exit code of a FastAPI dependency is.

`WebhookWorker` keeps one coroutine per worker and hook (`calls`): a request with
the time left until it is timed out, a sleep, or a result. `Load` starts one for
each match, `Recheck` waits for all of them. The client's time-out, the sleeps
and the leases all run against the same clock. The time-out is httpx's: of each wait
for the network and not of the request, so a request whose pieces keep coming starts it
anew (`Trickled`) and may outlast any lease. `Mark` writes a retry only if `Retriable`:
from some count of attempts on, the float product of `_retry_delay_seconds` overflows,
`mark_outbox_retry` raises, and the batch is abandoned (`RetryOverflows`). That clock is kept relative:
`Now` is constant and `Tick` makes every stored time one unit older, so that
behaviours without end have finitely many states. Claims and marks are the only
transactions that hold locks; `RowBusy` knows the claims, a mark is one step.

`Cursor` keeps the visible events with their `ts`, and one client: its order, the last
response and its cursor. `Query` is one SELECT; `FirstOf` says what ORDER BY and LIMIT
return of the rows `Found`, `AfterCursor` is the WHERE clause of the cursor. `Commit`
lets an event appear with any `ts`, since that is the time of its acceptance. `got` and
`started` only record what the properties need.

### Registry

One `pc` per request again. `Peek` and `Select` are SELECTs, `Insert`, `Conflict`,
`Update` and `Delete` the flush of one session, `Answer` and `Commit` follow in the order
of FastAPI's dependencies. Four facts about SQLAlchemy and PostgreSQL carry the module:

- A row that a session has loaded keeps its loaded values, although a later SELECT of the
  same session finds newer ones (`Refreshed`; the identity map, without `populate_existing`).
- An UPDATE sets the columns that differ from the loaded values and no others (`Changed`,
  `Updated`); with none there is no UPDATE and no lock.
- An UPDATE of a row that is gone raises `StaleDataError`; a DELETE of one draws a warning,
  locks nothing and is answered 204.
- A write waits for an uncommitted one of the same unique key (`KeyBusy`) or row (`RowBusy`).

`_ensure_source` takes part as a transaction of its own (`Ensures`): the rest of a
committer's transaction is `Committer`'s. `created` and `deleted` are auxiliary.

### Stats and Domains

The store below the statistics is `EventStore` with a clock and the detail rows, which
`Committer` is shown to implement. `Statements` lists the statements of each request in
the order of the code; `Statement` executes one, on the rows there are at that moment, and
keeps the *set* of rows counted (`saw`), from which the answers (`total_events`, `by_type`,
`active`, `by_name`, `health`) are computed. Counts of the outbox relate to nothing else in
an answer; their statements are executed and dropped. `began` is auxiliary: what the answer
must not miss.

`Domains` keeps of an event its type, cut at the dots, and the keys of `data` that the
statistics use. `Get` is `data.get(key) or None`: an empty string becomes NULL. A model's
name is cut into pieces such that `startswith` is the prefix of a sequence, and `PriceRow`
takes the first match, as the loop of `_estimate_cost` does.

### Pasloe

The components are instantiated, and meet in two tables: `AcceptApi`'s `rows` are the
ids in `Committer`'s `ingress`, `Committer`'s `outbox` the ids in `WebhookWorker`'s. Every
action is one of a component, with the other components' variables unchanged, except for

| Joint action | Of which components | Code |
|---|---|---|
| `AcceptCommit` | `A!Commit` and `C!Accept` | the COMMIT of a request |
| `EnqueueCommit` | `C!Commit` (or `C!CommitUnheard`) and `W!Enqueued` | the COMMIT of a committer with a new outbox row |
| `Start` | `C!Start` and `W!Start` | `PipelineRuntime.start` |
| `Crash` | `C!Crash`, `W!Crash` and `A!Fail` of any requests | a process dies, or `lifespan` ends |

The registries are left alone: only committers register sources, and the webhooks are
those registered at first. Their races are `Registry`'s, and a webhook that comes and goes
is `WebhookWorker`'s.

## The runs

| Run | Question | Bounds | Outcome |
|---|---|---|---|
| `committer` | is the first stage safe? | 2 workers, 2 rows of one source, one of a domain; lease 1, clock to 3, 1 fault of any kind, time may pass between any two steps | `CommitAtomic`, `NoLockCycle`, `IInv` (which contains `TypeInv` and `CommittedUnleased`), `NoLeaseTheft`, `RefinesEventStore` hold; 757 040 states |
| `committer_live` | is every accepted row committed in the end? | the same; clock to 9, stalls of any length until 1 | `EveryAcceptedVisible` holds; 185 728 states |
| `accept` | do duplicates agree? | 3 requests for one key, 2 for an empty key, 2 faults, each of any set of requests | `TypeOK`, `IdempotentAnswers`, `DuplicateDurable`, `RaceResolved`, `EveryRequestEnds` hold; 21 167 states |
| `accept_durable` | is what was answered 202 durable? | the same | **no**, see below |
| `accept_empty_key` | does a lost race always return the existing event? | the same | **no**, see below |
| `webhook` | is a settled debt paid, and settled for good? is a lease exclusive? | 2 workers, 1 row, 2 hooks (one comes and goes), 2 tries, lease 1, back-offs up to the 2nd attempt, 2 faults, time anywhere | `TypeOK`, `DoneDelivered`, `DoneForGood`, `NoLeaseTheft` hold; 418 966 states |
| `webhook_live` | do healthy rows get through, once, and can claims deadlock? | 2 workers, 2 rows, one hook may hang; lease 4, as long as a batch of two rows with two time-outs of 1 each; back-offs up to the 2nd attempt; 1 fault | `OnceWithoutFaults`, `NoLockCycle`, `SettledUnlessStuck` hold; 74 123 states |
| `webhook_starved` | the same, with the default numbers | 1 worker, lease 30, time-out 10, 3 tries, back-off 1, batch 64, back-offs up to the 1024th attempt, no fault | **no**, see below |
| `cursor` | does paging return everything once? | 5 events, 1 of them filtered out by type, 3 values of `ts` of which 1 is past `until`, pages of 2, both orders, any number of listings | `TypeOK`, `Ordered`, `Complete`, `ListingEnds` hold; 66 688 states |
| `registry` | who wins a registration, and what is in the table then? | 3 registrations and 1 deletion of one url, 2 and 2, or 2 registrations of one source and 2 committers that need it; two columns of which two clients change one each; 1 fault of any requests | `TypeOK`, `StandsUntilDeleted`, `RefusedForAWinner`, `RegistrationLands`, `AutoRegistrationKeeps`, `EveryRequestEnds` hold; 25 785 states |
| `stats` | do the numbers of one answer fit each other? | one load per kind of request (jobs, tasks, models, tools, totals) of 2 or 3 events; clock to 3, `MaxAge` 1; three filters; every row of the price table, each with a longer piece and a provider | `TypeOK`, `BreakdownsKeepUp`, `CountedOnce`, `HealthTimely`, `EveryJobCounted`, `NamesAddUp`, `MostSpecificPrice`, `ActiveIsActive` hold; 92 885 states |
| `pasloe` | does an answered request lead to one delivery, across processes? | 2 processes, 2 requests with one key, 1 webhook, 1 try; lease 1, clock to 4; 1 fault of any kind | `DeliveredIsVisible`, `OneEventPerKey`, `RefinesEventStore`, `AnswersAreHonoured` hold; 34 422 states |

Why these bounds suffice for the cases of interest: two workers are what a lease
race needs, and every lock, claim and stale commit concerns a pair. Two rows are
what a batch needs for order (lock order, a row behind another). A lease of 1 with
time passing anywhere lets it run out between any two statements, up to three
times. One fault is enough to leave every intermediate state behind; `webhook` and
`accept` allow two, so that a retry can fail as well. In `registry` three requests on one
key are what a lost update needs (one to insert, two that load its row), and keys do not
interact. In `stats` two events of a job and one of another are what a job that completes
between two statements needs. In `pasloe` one crash leaves one process to finish the work;
a second would leave none, since a restarted process is a new one. The proofs
remove the bounds for safety.

`pasloe` says `CHECK_DEADLOCK FALSE`: its clock moves only while a row waits, and once
everything is delivered the system has nothing left to do.

`MaxTime`, `MaxFaults`, `MaxTs` and `MaxCopies` stop counters, and `Now` is how far back
`WebhookWorker` tells times apart; they only keep the instances finite, and the proofs take them to be any naturals. `MaxExponent` is not a bound of
ours but the code's: 1023, the largest exponent for which a power of 2.0 is a float. Most runs take
1 instead, so that rows reach it; nothing else depends on its size. In `WebhookWorker` it is what
bounds the attempts. In `committer` and `pasloe` failures of a commit are finitely many and do
not reach it.

### Fairness

`CommitterLive` and `WebhookLive` assume weak fairness of each worker's own next
step (asyncio resumes a coroutine whose await is over; the database runs a
statement that waits for nobody), of `Start`, and of time. Nothing is assumed
about clients, failures, or which of two workers goes first. In both, once a bounded
period of arbitrary stalls is over (`StallUntil`; in `WebhookLive` from the start),
the clock moves only when everybody has to wait. This stands for statements being
fast compared with a lease of 30 s, and it is needed: a worker that is slower than
its leases for ever never commits anything. `AcceptApi` and `Registry` assume that each request's
handler is run on and that the database ends a statement that waits for nobody, and
`Cursor` that the client asks for the next page. `Pasloe` assumes of its parts what they
assume themselves: that handlers and tasks are run on, processes started, and that time
goes on; not that any of them survives. `Stats` has no liveness property, nor fairness.

In `WebhookLive` each request is answered before it is timed out, or, of a hook that is
`Hanging`, not at all; none trickles, which `OnceWithoutFaults` depends on as it does on the
length of the lease. A refusal, like a crash, is a fault, and faults are finitely many.
`Hanging` hooks fail for ever if they like, and stand for receivers that refuse for ever as well.

Such receivers are not retried for ever: their row ends up `Stuck`, tried as often as the back-off
can be computed. `SettledUnlessStuck` says that every row whose webhooks answer is settled unless
from some time on another row is stuck for good. The condition is needed: with the configuration
of `webhook_live`, TLC refutes `HealthyRowsSettled` itself. `store.py:61` multiplies a float by
`2 ** (attempts - 1)` before it takes the minimum with `max_delay`. At the 1025th attempt that
raises `OverflowError` in `mark_outbox_retry`, the worker abandons the batch, and the row keeps
its attempts and its lease. When the leases of the batch have run out, together, the row is
claimed first again. So the rows claimed with it are never delivered, although the lease covers
the whole batch. A receiver that refuses at once gets there within 18 hours or so.

### What the violated properties show

- `accept_durable`. README.md:7 calls the ingest log "durable accepted writes" and
  README.md:10 says that producers "only need `accepted`". `get_session` commits after
  its `yield`, and FastAPI 0.135.1 (the locked version) runs that after the response.
  The counterexample is three steps and a failed COMMIT: the client holds a 202 and
  an id for an event that does not exist. Duplicates are not affected:
  `DuplicateDurable` holds, since the lookup sees committed rows only.
- `accept_empty_key`. The comment at `store.py:139` promises the existing event. A key
  of `""` is stored and unique, but falsy, so it is not looked up and the second
  event with it ends in the raised `IntegrityError`.
- `webhook_starved`. Three attempts at a hanging receiver take 33 s, longer than the
  lease. Its outcome is dropped at `pipeline.py:168`, so the row gets no back-off, and
  the rest of the batch has lost its leases meanwhile. Every later poll claims the same
  rows in the same order, and the rows behind are never delivered. The row never reaches
  a second attempt, so `SettledUnlessStuck` is violated with these numbers too.

## The proofs

Every theorem holds for all constants that satisfy the `ASSUME`s of its module: ids and times
are naturals, `Null` is neither a number nor a worker, and the like. The bounds are any
naturals. In each module the properties are not inductive as they stand; an invariant `IInv`
says why they hold, `InitInv` and `NextInv` (or lemmas of that kind) show it to be inductive,
and the theorems follow from it.

### The committer

| Theorem of `CommitterProofs` | Statement |
|---|---|
| `TypeCorrect` | `Spec => []TypeOK` |
| `Invariance` | `Spec => []IInv` |
| `Atomicity` | `Spec => []CommitAtomic` |
| `NoLeaseOnCommitted` | `Spec => []CommittedUnleased` |
| `LeaseSafety` | `Spec => NoLeaseTheft` |
| `Refinement` | `Spec => RefinesEventStore` |
| `NoDeadlock` | `IsFiniteSet(Events) => (Spec => []NoLockCycle)` |

`CommitAtomic` is not inductive: nothing in it says why a stale worker that
passed its checks long ago still commits something consistent. `IInv` adds why.

- `TxShape`: at each line, what the transaction can have written. In particular it
  never marks a row both committed and for retry.
- `TxReady`: what a worker has checked or written is still there, in a table, which
  only grows, or in its own transaction. So whoever closes the ingress row brings the
  source, the event and the outbox row along.
- `LockInv`: a row is held by one transaction. So a commit does not overwrite a claim
  that is in progress, and two commits of the same row follow each other.
- `ClaimInv`: what a claim has updated stays claimable until the claim commits, for
  nobody else can touch the row. With `LeaseInv` this gives `CommittedUnleased` and
  `LeaseSafety`.

The type part is proved first (`TypeInit`, `TypeNext`, one lemma per group of
actions), the rest on top of it. Steps inside a transaction all follow one lemma
(`LocalStep`: keep your own part of the invariant and take no row another holds),
steps that end one follow another (`Release`), and the two that write the tables have
a lemma each on what they write (`ApplyData`, `LeasesData`). The refinement maps the
abstract variables to the tables; `StoreNext` shows each step to be `Accept`,
`Commit` or a stutter.

`NoDeadlock` needs `OrderInv`: a claim holds rows that come before all it has yet to lock,
and no row ever changes its place. In a set of workers that all wait, one that waits for a
row with the fewest rows after it would have to wait for a holder further on.

### Paging

| Theorem of `CursorProofs` | Statement |
|---|---|
| `TypeCorrect` | `Spec => []TypeOK` |
| `ListingInvariance` | `Spec => []ListingInv` |
| `PagesOrdered` | `Spec => []Ordered` |
| `ListingComplete` | `Spec => []Complete` |

`Ordered` and `Complete` speak of the end of a page and of a listing; what is inductive is
that everything returned lies up to the cursor (`CursorInv`) and everything owed after it
(`OwedInv`). `QueryInv` is the one step that matters: the WHERE clause and the ORDER BY agree
(`AfterIsPrecedes`), so the page follows all that came before, and whatever is found and not
on a full page lies after its last event.

### POST /events

| Theorem of `AcceptApiProofs` | Statement |
|---|---|
| `Invariance`, `TypeCorrect` | `Spec => []IInv`, `Spec => []TypeOK` |
| `Idempotence` | `Spec => []IdempotentAnswers` |
| `DuplicateSafety` | `Spec => []DuplicateDurable` |
| `RaceSafety` | `Spec => []RaceResolved` |

`KeyInv` is what the unique constraint comes to: a key belongs to one request from its INSERT
on (`InsertAlone`). With `FoundInv`, what a request has found is committed for good, and
`AnswerInv`, what was answered is the request's own row or one that was found, two answers to
one key that name durable rows name the same one.

### The webhook worker

| Theorem of `WebhookProofs` | Statement |
|---|---|
| `Invariance`, `TypeCorrect` | `Spec => []IInv`, `Spec => []TypeOK` |
| `Delivery` | `Spec => []DoneDelivered` |
| `Finality` | `Spec => DoneForGood` |
| `LeaseSafety` | `Spec => NoLeaseTheft` |

A mark asks nothing of the row it finds, so `DoneDelivered` cannot rest on leases. It rests on
`PaidInv`: whatever became of the lease, a worker at its deliveries has a call for each
webhook that was there all the time, and a call that returned "ok" was received. `ClaimInv`
and the row locks keep a claim from leasing what was settled while it waited, hence `DoneInv`
and `Finality`.

`LeaseSafety` needs three facts more (`HandoverInv`): claims in progress have updated different
rows, what a claim has updated stays free until it commits, by the time its SELECT read, and
every lease has an end. `RowStep` says what a step can do to a row: claim it, give its lease up,
or leave it alone. `NoLeaseTheft` is about claims that meet a lease: one that a stale worker's mark has
cleared, since a mark asks nothing of the row it finds, is free to whoever comes next.

### How long a batch takes

| Theorem of `WebhookLiveProofs` | Statement |
|---|---|
| `LiveImplementsSpec` | `LiveSpec => Spec`, so all of the above holds of `WebhookLive` |
| `SizeInvariance` | `Spec => [](IInv /\ EnqueuedInv /\ SizeInv)` |
| `BatchLimit` | `Spec => [](\A w \in Workers : Cardinality(batch[w]) <= BatchSize)` |
| `NoDeadlock` | `Spec => []NoLockCycle` |
| `NobodyToldTwice` | `LastsAtMost(rest)`, `BatchSize * rest[1] <= LeaseSeconds`: `LiveSpec => []OnceWithoutFaults` |

`BatchLimit` is of a worker at any speed. It rests on what LIMIT returns: the candidates with fewer
than `BatchSize` candidates before them, of which there are at most that many, since the number of
candidates before one tells it from the others (`CandidatesLimited`); and on the table being
finite at all times, whatever the set of rows it is filled from.

`NoDeadlock` follows the order of the locks: a claim holds only rows that come before all it has
yet to lock (`OrderInv`). Among the rows that the workers of a set wait for there is a last one,
since the table is finite; the claim that holds it waits for nobody in the set
(`SomeoneGoesOn`). A mark waits with no lock of its own.

`NobodyToldTwice` says when a lease is long enough. `rest[n]` bounds what a delivery takes from its
n-th request on; `LastsExist` shows that there always are such bounds, and the least `rest[1]` is
`MaxTries * Timeout + Backoff * (2^(MaxTries - 1) - 1)`. With the code's constants that is 33 s a
row, so a lease has to be 33 s times `batch_size`; the defaults, a lease of 30 s for 64 rows, are far
from it, which is what `webhook_starved` shows from the other side. The hypothesis is needed as it
stands: a row at the end of a batch is delivered after all the others have timed out.

The invariant `faults = 0 => PacedInv(rest)` says that every lease covers what its holder has left
to do: `rest[1]` for each row not begun, and what the calls of the current one can still take
(`LeaseInv`). Time moves only when everybody waits, and then a worker at its deliveries waits for a
call that has time left, which goes down with the lease. So nobody can claim a row that somebody holds,
claims in progress are disjoint (`ClaimsApart`, from `WebhookProofs`), every outcome is written while the lease
lasts, and a receiver that was told has its row done or held by the worker that told it
(`ToldInv`).

### The registry

| Theorem of `RegistryProofs` | Statement |
|---|---|
| `Invariance`, `TypeCorrect` | `Spec => []IInv`, `Spec => []TypeOK` |
| `Standing` | `Spec => []StandsUntilDeleted` |
| `Refusal` | `Spec => []RefusedForAWinner` |
| `Landing` | `Spec => RegistrationLands` |
| `Keeping` | `Spec => AutoRegistrationKeeps` |

The heart is `WriteInv`: of the transactions under way no two write one key, an INSERT finds
its key free until it commits, and an UPDATE or DELETE its row. `SessionInv` says what a
session may have loaded, `TableInv` whose row lies under a key.

### Statistics

| Theorem of `StatsProofs` | Statement |
|---|---|
| `Invariance`, `TypeCorrect` | `Spec => []IInv`, `Spec => []TypeOK` |
| `Activity` | `Spec => ActiveIsActive` |
| `JobsCounted` | `Spec => []EveryJobCounted` |
| `CountsDisjoint` | `Spec => []CountedOnce` (for a finite set of events) |
| `HealthSafety` | `Spec => []HealthTimely` |
| `CountInvariance` | `Spec => []CountInv` |
| `Breakdowns` | `Spec => []BreakdownsKeepUp` (for a finite set of events) |
| `NameTotals` | `Spec => []NamesAddUp` (for a finite set of events) |
| `PriceIsMostSpecific` | `Spec => []MostSpecificPrice` |

What a statement has counted fits the store as it is now, since the store only grows
(`SnapshotInv`, `ActivityInv`) and the statements come in the order they do (`Places`): what was
counted as visible is not counted as pending later, and what was overdue at the beginning is so
by the time `get_stats` takes (`AgeInv`).

`CountInv` adds that a breakdown has counted every row the total has, and that rows counted by
name are of the domains whose empty names become NULL. What is left is about sums: the
groups of a finite set add up to its cardinality (`ClassesAddUp`). `Total` is a fold, which
the library defines by choosing a recursive function. `SumsExist` shows that there is one to choose
and `ClassesAddUp` what it returns, both by induction on the size of the sets. The library's
induction theorems take an operator and cannot be applied with these provers; a set of naturals
that has 0 and every successor is `Nat` (`NatSetInduction`), because its complement would have a
least element, and that can be cited. `LongestFirst` compares the rows of the price table
pairwise, for any name of a model.

### All together

| Theorem of `PasloeProofs` | Statement |
|---|---|
| `Invariance` | `Spec => []IInv`, the invariants of all three components |
| `Visibility` | `Spec => []DeliveredIsVisible` |
| `OncePerKey` | `Spec => []OneEventPerKey` |
| `Refinement` | `Spec => RefinesEventStore`, from acceptance to the settled debt |

The components' proof modules are instantiated as `Pasloe` instantiates the components
(`AP`, `CP`, `WP`), so that their lemmas hold of the composed state. `ComponentSteps` shows what
each step of `Pasloe` is to each component: one of its own steps, or one that leaves its
variables alone but for the count of failures, or a new row in a table it only reads. Two lemmas
of the components make this work: committers neither accept rows nor take them back
(`WorkerKeepsAccepted`), and webhook workers and time settle rows of the outbox and do nothing
else to its ids (`StatusStep`). Two invariants had to be added for what one component relies
on from another: who has a row in the ingest log was told its id (`ToldInv`), and only rows of
the outbox are delivered (`EnqueuedInv`). Then an event that a receiver has heard of is in the
outbox, hence visible and committed (`CommitAtomic`), hence accepted and answered; and of one key
there is one such (`KeyInv`). In the refinement an `EnqueueCommit` is the abstract `Commit`
because `CommitAtomic` holds before and after it: the new outbox row brings the event along.

### Only model-checked

Liveness: `EveryAcceptedVisible`, `SettledUnlessStuck`, `AnswersAreHonoured`, `EveryRequestEnds` (of
`AcceptApi` and of `Registry`) and `ListingEnds`. They follow from fairness and from which steps are
enabled, and `ENABLED` is beyond the proof system. Every invariant and every action property that a
run checks is stated by a theorem, and the two refinements are theorems as well.

## Assumptions, and what is not modelled

- **PostgreSQL at READ COMMITTED.** Statements see what is committed when they run;
  UPDATEs wait for row locks and re-evaluate; INSERTs wait for uncommitted duplicates.
  SQLite, which the tests use, serialises writers and has fewer interleavings, but a
  statement that fails leaves its transaction usable; `MarkRetry` is the trace of that
  here, and a SQLite variant is planned.
- **One clock.** Leases compare `datetime.now` of different processes; skew would
  shorten or lengthen them, and is not modelled.
- **Order.** Rows carry ids in the order UUIDv7 gives them. In `Committer`
  `accepted_at` may differ from that order; in `WebhookWorker` all `created_at` are equal
  and the id decides.
- A claim of the webhook worker lasts less than `Now` ticks.
- `NobodyToldTwice` takes the time-out as a limit on a request, which it is for a receiver that
  sends nothing; `DoneDelivered`, `DoneForGood` and `NoLeaseTheft` hold of those that trickle as well.
- `Committer` and `WebhookWorker` see POST /sources and changes of the webhooks as one step
  each, at their COMMIT: their statements are `Registry`'s, and the workers read nothing else.
- **Listings.** GET /jobs, /tasks, /llm and /tools return the newest rows that match, GET
  /sources and /webhooks all rows: one SELECT each, with no cursor and nothing to go wrong
  between two of them. Token sums, success rates and averages are sums over the same rows
  that the modelled counts are of.
- **Migrations.** They run before the server starts and create tables and indexes;
  they move no rows.
- **The connection pool.** Every session is short and holds one connection; deliveries
  hold none. A request that waits for a connection is one that is not run on yet.
- Payloads, error texts, signatures, authentication, settings, the UI and packaging carry
  no control flow that a property here depends on.

Some things that a reader might expect do not hold. No document promises them, so no run
states them, and the properties say what holds instead:

- Two POST /webhooks for one url at a time can leave a row that mixes columns of both
  (store.py:577-581, `Updated`), the loser of an INSERT race is told 500, and so is an update
  of a webhook that is deleted meanwhile.
- The 200 or 201 of POST /webhooks comes from a SELECT of its own (api.py:173-178) and may
  be the wrong one of the two; a DELETE right after the 201 may find nothing, since the COMMIT
  comes later; a DELETE of a webhook that has just vanished is answered 204.
- An event that is committed between two statements of `get_stats` may be in neither
  `total_events` nor `ingress_pending` (`CountedOnce` excludes both).
- The counts by model of /llm/stats add up to the total (`NamesAddUp`) unless a client names a
  model "unknown": then that group or the one of the rows without a model is lost
  (llm.py:147). The counts by tool of /tools/stats lose a group the same way (tools.py:108).
- The role and team filters are of rows, not of jobs: a job whose terminal event carries no role
  stays active in the filtered statistics.

## What is left

1. A SQLite variant of `Committer`: one writer, failures that leave the transaction usable.
2. `Registry` inside `Pasloe`: webhooks that come and go while events are on their way. TLC
   has each of the two alone.
