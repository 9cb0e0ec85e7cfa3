------------------------------ MODULE Committer ------------------------------
(***************************************************************************)
(* The first stage of the pipeline: committer workers move rows of         *)
(* ingress_events that the API accepted into events, and put one row per   *)
(* event into outbox_events (pipeline.py _committer_loop, and the store.py *)
(* functions it calls).  There is one worker per Pasloe process; several   *)
(* processes may share the database.                                       *)
(*                                                                         *)
(* The database is PostgreSQL at READ COMMITTED, seen through the ORM      *)
(* session: a statement sees what is committed when it runs, writes stay   *)
(* in tx[w] until COMMIT, an UPDATE waits for the row's lock and re-reads  *)
(* the row, an INSERT waits for an uncommitted duplicate.  A failed flush  *)
(* rolls the session back and expires the loaded row, so the handler that  *)
(* would mark the retry fails as well and the exception ends the batch.    *)
(***************************************************************************)
EXTENDS Integers, FiniteSets

CONSTANTS
    Events,         \* ingress row ids (UUIDv7, hence ordered): the event ids
    Workers,        \* committer workers, one per process ever started
    Sources,
    SourceOf,       \* ingress_events.source_id
    DomainEvents,   \* events whose type names a domain with a detail table
    Null,
    LeaseSeconds, RetryBase, RetryMax,      \* PipelineConfig
    BatchSize,                              \* PipelineConfig.batch_size
    MaxExponent,                            \* see LeaseQueue
    MaxTime,        \* bound: the clock stops here
    MaxFaults       \* bound: failures and crashes in one behaviour

ASSUME EventsAssumption == Events \subseteq Nat
ASSUME SourceAssumption == SourceOf \in [Events -> Sources]
ASSUME NullAssumption == Null \notin Int /\ Null \notin Workers
ASSUME TimesAssumption ==
    /\ LeaseSeconds \in Nat
    /\ RetryBase \in Nat
    /\ RetryMax \in Nat
    /\ MaxExponent \in Nat
ASSUME BoundsAssumption ==
    /\ BatchSize \in Nat
    /\ MaxTime \in Nat
    /\ MaxFaults \in Nat

VARIABLES
    clock,          \* datetime.now(timezone.utc), in whole units
    faults,         \* failures so far, against MaxFaults
    \* the database, committed rows only
    ingress,        \* ingress_events, by id
    sources,        \* sources, the ids
    events,         \* events, the ids
    outbox,         \* outbox_events of pipeline "webhook", the event ids
    details,        \* detail tables of the domains, the event ids
    \* each worker's coroutine
    pc,
    now,            \* the `now' its claim or retry computed
    todo,           \* claim_ingress_batch: candidates not yet updated
    batch,          \* ids it updated; then the claimed_ids it has yet to load
    cur,            \* the row it is committing
    seen,           \* the attempts it loaded with that row
    tx              \* what its transaction wrote and has not committed

db == <<ingress, sources, events, outbox, details>>
vars == <<clock, faults, db, pc, now, todo, batch, cur, seen, tx>>

Queue == INSTANCE LeaseQueue WITH Open <- "accepted"

\* Before it is accepted a row is not in the table.
Absent == [Queue!Fresh(0) EXCEPT !.status = "absent"]

Writes == {"source", "event", "ingress", "outbox", "detail", "retry"}

Labels == {"off", "idle", "claim", "work", "source", "insertSource", "event",
           "insertEvent", "update", "detail", "commit", "dead"}

Row == [status : {"absent", "accepted", "committed"},
        at : Nat,
        attempts : Nat,
        next_attempt_at : Nat,
        lease_owner : Workers \union {Null},
        lease_until : Nat \union {Null}]

TypeOK ==
    /\ clock \in Nat /\ faults \in Nat
    /\ ingress \in [Events -> Row]
    /\ sources \subseteq Sources
    /\ events \subseteq Events /\ outbox \subseteq Events
    /\ details \subseteq Events
    /\ pc \in [Workers -> Labels]
    /\ now \in [Workers -> Nat]
    /\ todo \in [Workers -> SUBSET Events]
    /\ batch \in [Workers -> SUBSET Events]
    /\ cur \in [Workers -> Events \union {Null}]
    /\ seen \in [Workers -> Nat]
    /\ tx \in [Workers -> SUBSET Writes]

Init ==
    /\ clock = 0 /\ faults = 0
    /\ ingress = [e \in Events |-> Absent]
    /\ sources = {} /\ events = {} /\ outbox = {} /\ details = {}
    /\ pc = [w \in Workers |-> "off"]
    /\ now = [w \in Workers |-> 0]
    /\ todo = [w \in Workers |-> {}]
    /\ batch = [w \in Workers |-> {}]
    /\ cur = [w \in Workers |-> Null]
    /\ seen = [w \in Workers |-> 0]
    /\ tx = [w \in Workers |-> {}]

-----------------------------------------------------------------------------
(* Locks: what a worker's transaction holds until it ends.                 *)

HoldsRow(w, e) ==
    \/ pc[w] = "claim" /\ e \in batch[w]
    \/ cur[w] = e /\ {"ingress", "retry"} \intersect tx[w] # {}

RowBusy(w, e) == \E v \in Workers \ {w} : HoldsRow(v, e)

SourceBusy(s) ==
    \E v \in Workers : cur[v] # Null /\ SourceOf[cur[v]] = s /\ "source" \in tx[v]

EventBusy(e) == \E v \in Workers : cur[v] = e /\ "event" \in tx[v]

-----------------------------------------------------------------------------
(* The API, whose requests end with these commits.                         *)

\* POST /events: the row carries the time at which the request computed it,
\* which is before the commit that makes it visible to the workers.
Accept(e) ==
    /\ ingress[e].status = "absent"
    /\ \E at \in 0 .. clock : ingress' = [ingress EXCEPT ![e] = Queue!Fresh(at)]
    /\ UNCHANGED <<clock, faults, sources, events, outbox, details,
                   pc, now, todo, batch, cur, seen, tx>>

\* POST /sources
RegisterSource(s) ==
    /\ s \notin sources
    /\ ~SourceBusy(s)
    /\ sources' = sources \union {s}
    /\ UNCHANGED <<clock, faults, ingress, events, outbox, details,
                   pc, now, todo, batch, cur, seen, tx>>

-----------------------------------------------------------------------------
(* The worker's locals.                                                    *)

\* Leave the transaction and the batch: w's session is closed.
Reset(w, label) ==
    /\ pc' = [pc EXCEPT ![w] = label]
    /\ todo' = [todo EXCEPT ![w] = {}]
    /\ batch' = [batch EXCEPT ![w] = {}]
    /\ now' = [now EXCEPT ![w] = 0]
    /\ cur' = [cur EXCEPT ![w] = Null]
    /\ seen' = [seen EXCEPT ![w] = 0]
    /\ tx' = [tx EXCEPT ![w] = {}]

\* Go on to the next id of the batch, or to the next poll.
Continue(w, rest) ==
    /\ pc' = [pc EXCEPT ![w] = IF rest = {} THEN "idle" ELSE "work"]
    /\ batch' = [batch EXCEPT ![w] = rest]
    /\ now' = [now EXCEPT ![w] = 0]
    /\ cur' = [cur EXCEPT ![w] = Null]
    /\ seen' = [seen EXCEPT ![w] = 0]
    /\ tx' = [tx EXCEPT ![w] = {}]
    /\ UNCHANGED todo

Goto(w, label) == pc' = [pc EXCEPT ![w] = label]

Start(w) ==
    /\ pc[w] = "off"
    /\ Goto(w, "idle")
    /\ UNCHANGED <<clock, faults, db, now, todo, batch, cur, seen, tx>>

-----------------------------------------------------------------------------
(* claim_ingress_batch and the commit after it.                            *)

IdlePoll(w) ==
    /\ pc[w] = "idle"
    /\ Queue!Candidates(ingress, clock, BatchSize) = {}
    /\ UNCHANGED vars

ClaimSelect(w) ==
    /\ pc[w] = "idle"
    /\ Queue!Candidates(ingress, clock, BatchSize) # {}
    /\ todo' = [todo EXCEPT ![w] = Queue!Candidates(ingress, clock, BatchSize)]
    /\ batch' = [batch EXCEPT ![w] = {}]
    /\ now' = [now EXCEPT ![w] = clock]
    /\ Goto(w, "claim")
    /\ UNCHANGED <<clock, faults, db, cur, seen, tx>>

\* The UPDATE of one candidate waits for the row's lock and then evaluates its
\* WHERE, with the `now' of the SELECT, on the row as it has become.
ClaimUpdate(w) ==
    /\ pc[w] = "claim"
    /\ \E e \in todo[w] :
        /\ Queue!First(ingress, todo[w], e)
        /\ ~RowBusy(w, e)
        /\ todo' = [todo EXCEPT ![w] = @ \ {e}]
        /\ batch' = [batch EXCEPT ![w] =
                        IF Queue!StillClaimable(ingress[e], now[w])
                        THEN @ \union {e} ELSE @]
    /\ UNCHANGED <<clock, faults, db, pc, now, cur, seen, tx>>

LeasesOf(w) ==
    [e \in Events |-> IF e \in batch[w]
                      THEN Queue!Claimed(ingress[e], w, now[w])
                      ELSE ingress[e]]

ClaimCommit(w) ==
    /\ pc[w] = "claim"
    /\ todo[w] = {}
    /\ ingress' = LeasesOf(w)
    /\ Continue(w, batch[w])
    /\ UNCHANGED <<clock, faults, sources, events, outbox, details>>

-----------------------------------------------------------------------------
(* The body of the loop over claimed_ids.                                  *)

\* get_ingress_for_worker: None if the lease has run out or passed on.
Load(w) ==
    /\ pc[w] = "work"
    /\ \E e \in batch[w] :
        /\ Queue!First(ingress, batch[w], e)
        /\ IF Queue!HeldBy(ingress[e], w, clock)
           THEN /\ Goto(w, "source")
                /\ batch' = [batch EXCEPT ![w] = @ \ {e}]
                /\ cur' = [cur EXCEPT ![w] = e]
                /\ seen' = [seen EXCEPT ![w] = ingress[e].attempts]
                /\ UNCHANGED <<now, todo, tx>>
           ELSE Continue(w, batch[w] \ {e})
    /\ UNCHANGED <<clock, faults, db>>

\* _ensure_source: the SELECT, ...
CheckSource(w) ==
    /\ pc[w] = "source"
    /\ Goto(w, IF SourceOf[cur[w]] \in sources THEN "event" ELSE "insertSource")
    /\ UNCHANGED <<clock, faults, db, now, todo, batch, cur, seen, tx>>

\* ... and the INSERT, ...
InsertSource(w) ==
    /\ pc[w] = "insertSource"
    /\ ~SourceBusy(SourceOf[cur[w]])
    /\ SourceOf[cur[w]] \notin sources
    /\ tx' = [tx EXCEPT ![w] = @ \union {"source"}]
    /\ Goto(w, "event")
    /\ UNCHANGED <<clock, faults, db, now, todo, batch, cur, seen>>

\* ... which fails if someone else has committed the source since.  The
\* handler's rollback expires the ingress row, commit_ingress raises on its
\* next use of it, and so does mark_ingress_retry: the batch is abandoned.
SourceConflict(w) ==
    /\ pc[w] = "insertSource"
    /\ SourceOf[cur[w]] \in sources
    /\ Reset(w, "idle")
    /\ UNCHANGED <<clock, faults, db>>

\* Mutant: an event with an ingress row is taken to be there.
CheckEventAssumed(w) ==
    /\ pc[w] = "event"
    /\ Goto(w, "update")
    /\ UNCHANGED <<clock, faults, db, now, todo, batch, cur, seen, tx>>

\* commit_ingress: the SELECT of the event, ...
CheckEvent(w) ==
    /\ pc[w] = "event"
    /\ Goto(w, IF cur[w] \in events THEN "update" ELSE "insertEvent")
    /\ UNCHANGED <<clock, faults, db, now, todo, batch, cur, seen, tx>>

\* ... its INSERT, ...
InsertEvent(w) ==
    /\ pc[w] = "insertEvent"
    /\ ~EventBusy(cur[w])
    /\ cur[w] \notin events
    /\ tx' = [tx EXCEPT ![w] = @ \union {"event"}]
    /\ Goto(w, "update")
    /\ UNCHANGED <<clock, faults, db, now, todo, batch, cur, seen>>

\* ... or its failure on the primary key.
EventConflict(w) ==
    /\ pc[w] = "insertEvent"
    /\ cur[w] \in events
    /\ Reset(w, "idle")
    /\ UNCHANGED <<clock, faults, db>>

\* _ensure_outbox_row: the row, unless it is there.
EnsureOutboxRow(w) == IF cur[w] \in outbox THEN {} ELSE {"outbox"}

\* Mutant: the outbox row is left to another transaction.
CloseOnly(w) ==
    /\ pc[w] = "update"
    /\ ~RowBusy(w, cur[w])
    /\ tx' = [tx EXCEPT ![w] = @ \union {"ingress"}]
    /\ Goto(w, IF cur[w] \in DomainEvents THEN "detail" ELSE "commit")
    /\ UNCHANGED <<clock, faults, db, now, todo, batch, cur, seen>>

\* The assignments to the ingress row reach the database with the autoflush
\* of _ensure_outbox_row's SELECT.
CloseAndEnqueue(w) ==
    /\ pc[w] = "update"
    /\ ~RowBusy(w, cur[w])
    /\ tx' = [tx EXCEPT ![w] = @ \union {"ingress"} \union EnsureOutboxRow(w)]
    /\ Goto(w, IF cur[w] \in DomainEvents THEN "detail" ELSE "commit")
    /\ UNCHANGED <<clock, faults, db, now, todo, batch, cur, seen>>

\* The detail row has a savepoint of its own: whatever it raises is logged,
\* and the rest of the transaction goes on.
WriteDetail(w) ==
    /\ pc[w] = "detail"
    /\ \/ cur[w] \notin details /\ tx' = [tx EXCEPT ![w] = @ \union {"detail"}]
       \/ UNCHANGED tx
    /\ Goto(w, "commit")
    /\ UNCHANGED <<clock, faults, db, now, todo, batch, cur, seen>>

\* What COMMIT does to the database.
With(w, write, table, x) == IF write \in tx[w] THEN table \union {x} ELSE table

Apply(w) ==
    LET e == cur[w]
        row == CASE "ingress" \in tx[w] -> Queue!Closed(ingress[e], "committed")
                 [] "retry" \in tx[w] -> Queue!Retried(ingress[e], seen[w], now[w])
                 [] OTHER -> ingress[e]
    IN  /\ sources' = With(w, "source", sources, SourceOf[e])
        /\ events' = With(w, "event", events, e)
        /\ outbox' = With(w, "outbox", outbox, e)
        /\ details' = With(w, "detail", details, e)
        /\ ingress' = [ingress EXCEPT ![e] = row]

Commit(w) ==
    /\ pc[w] = "commit"
    /\ Apply(w)
    /\ Continue(w, batch[w])
    /\ UNCHANGED <<clock, faults>>

-----------------------------------------------------------------------------
(* Failures.                                                               *)

\* The inner except: commit_ingress raises before it has changed the row, on a
\* SELECT whose failure leaves the transaction usable (SQLite; PostgreSQL would
\* refuse the UPDATE).  mark_ingress_retry writes into the same transaction; if
\* it raises, because the delay overflows, that is a Fail.
MarkRetry(w) ==
    /\ pc[w] \in {"source", "event"}
    /\ faults < MaxFaults
    /\ Queue!Retriable(seen[w])
    /\ ~RowBusy(w, cur[w])
    /\ faults' = faults + 1
    /\ now' = [now EXCEPT ![w] = clock]
    /\ tx' = [tx EXCEPT ![w] = @ \union {"retry"}]
    /\ Goto(w, "commit")
    /\ UNCHANGED <<clock, db, todo, batch, cur, seen>>

Busy(w) == pc[w] \notin {"off", "idle", "dead"}

\* The outer except, "committer loop error": a statement, a flush or the COMMIT
\* itself fails, the transaction is rolled back and the batch forgotten.
Fail(w) ==
    /\ Busy(w)
    /\ faults < MaxFaults
    /\ faults' = faults + 1
    /\ Reset(w, "idle")
    /\ UNCHANGED <<clock, db>>

\* The same, but the COMMIT took effect and only its answer was lost.
CommitUnheard(w) ==
    /\ faults < MaxFaults
    /\ faults' = faults + 1
    /\ \/ pc[w] = "commit" /\ Apply(w)
       \/ /\ pc[w] = "claim" /\ todo[w] = {}
          /\ ingress' = LeasesOf(w)
          /\ UNCHANGED <<sources, events, outbox, details>>
    /\ Reset(w, "idle")
    /\ UNCHANGED clock

\* The process dies, or PipelineRuntime.stop cancels the task.  A restart is a
\* new instance with a new worker id.
Crash(w) ==
    /\ pc[w] \notin {"off", "dead"}
    /\ faults < MaxFaults
    /\ faults' = faults + 1
    /\ Reset(w, "dead")
    /\ UNCHANGED <<clock, db>>

Tick ==
    /\ clock < MaxTime
    /\ clock' = clock + 1
    /\ UNCHANGED <<faults, db, pc, now, todo, batch, cur, seen, tx>>

-----------------------------------------------------------------------------
Claim(w) == ClaimSelect(w) \/ ClaimUpdate(w) \/ ClaimCommit(w)

Process(w) ==
    \/ Load(w)
    \/ CheckSource(w) \/ InsertSource(w) \/ SourceConflict(w)
    \/ CheckEvent(w) \/ InsertEvent(w) \/ EventConflict(w)
    \/ CloseAndEnqueue(w) \/ WriteDetail(w) \/ Commit(w)

Step(w) == Start(w) \/ IdlePoll(w) \/ Claim(w) \/ Process(w)

Fault(w) == MarkRetry(w) \/ Fail(w) \/ CommitUnheard(w) \/ Crash(w)

Api == (\E e \in Events : Accept(e)) \/ (\E s \in Sources : RegisterSource(s))

Next == Api \/ Tick \/ \E w \in Workers : Step(w) \/ Fault(w)

Spec == Init /\ [][Next]_vars

-----------------------------------------------------------------------------
(* What makes it correct.                                                  *)

\* commit_ingress is all or nothing: at every moment an event is visible exactly
\* if its ingress row is committed and exactly if its outbox row exists, its
\* source is registered, and no detail row stands without its event.  It takes
\* stale lease holders, failed flushes and retries to put this at risk.
CommitAtomic ==
    \A e \in Events :
        /\ ingress[e].status = "committed" <=> e \in events
        /\ e \in outbox <=> e \in events
        /\ e \in events => SourceOf[e] \in sources
        /\ e \in details => e \in events

\* A committed row keeps no lease: the claim's UPDATE, which may have waited for
\* the very transaction that committed the row, does not lease it again.
CommittedUnleased ==
    \A e \in Events : ingress[e].status = "committed" =>
        ingress[e].lease_owner = Null /\ ingress[e].lease_until = Null

\* A lease passes from one worker to another only when it has run out, although
\* both may have selected the row as a candidate at the same time.
NoLeaseTheft ==
    [][\A e \in Events :
        \/ ingress[e].lease_owner = Null
        \/ ingress'[e].lease_owner \in {ingress[e].lease_owner, Null}
        \/ ingress[e].lease_until < clock]_vars

\* Worker w waits for something v's transaction holds.
Waits(w, v) ==
    \/ /\ pc[w] = "claim"
       /\ \E e \in todo[w] : Queue!First(ingress, todo[w], e) /\ HoldsRow(v, e)
    \/ /\ pc[w] = "insertSource"
       /\ cur[v] # Null /\ SourceOf[cur[v]] = SourceOf[cur[w]] /\ "source" \in tx[v]
    \/ pc[w] = "insertEvent" /\ cur[v] = cur[w] /\ "event" \in tx[v]
    \/ pc[w] = "update" /\ HoldsRow(v, cur[w])

\* No set of workers waits for each other: claims lock rows in one global order,
\* and a commit asks for its ingress row last.
NoLockCycle ==
    \A S \in (SUBSET Workers) \ {{}} : \E w \in S : \A v \in S \ {w} : ~Waits(w, v)

\* The committer keeps the event store's promise: rows become accepted, then
\* visible together with their webhook debt, once, and nothing is taken back.
Store == INSTANCE EventStore WITH
    accepted <- {e \in Events : ingress[e].status # "absent"},
    visible <- events,
    delivery <- [e \in Events |-> IF e \in outbox THEN "pending" ELSE "none"]

RefinesEventStore == Store!Spec

-----------------------------------------------------------------------------
(* The invariant that makes the type invariant, CommitAtomic and           *)
(* CommittedUnleased inductive.                                            *)

Processing == {"source", "insertSource", "event", "insertEvent", "update",
               "detail", "commit"}

CurInv == \A w \in Workers :
    /\ pc[w] \in Processing => cur[w] \in Events
    /\ pc[w] \notin Processing => tx[w] = {}

\* The part that is about types: what COMMIT adds is an event.
TypeInv == TypeOK /\ CurInv

\* What a transaction has written, by the line the worker is at.
TxShape(w) ==
    /\ pc[w] \in {"source", "insertSource"} => tx[w] = {}
    /\ pc[w] \in {"event", "insertEvent"} => tx[w] \subseteq {"source"}
    /\ pc[w] = "update" => tx[w] \subseteq {"source", "event"}
    /\ pc[w] \in {"detail", "commit"} =>
         \/ "ingress" \in tx[w] /\ "retry" \notin tx[w]
         \/ pc[w] = "commit" /\ "retry" \in tx[w] /\ tx[w] \subseteq {"source", "retry"}

\* Whoever has passed a check still finds its result, in the tables, which only
\* grow, or in its own transaction.
TxReady(w) ==
    /\ pc[w] \in {"event", "insertEvent", "update"} \/ "ingress" \in tx[w] =>
         SourceOf[cur[w]] \in sources \/ "source" \in tx[w]
    /\ pc[w] = "update" \/ "ingress" \in tx[w] =>
         cur[w] \in events \/ "event" \in tx[w]
    /\ "ingress" \in tx[w] => cur[w] \in outbox \/ "outbox" \in tx[w]
    /\ pc[w] \in Processing => ingress[cur[w]].status # "absent"

\* No two transactions hold the same row.
LockInv ==
    \A e \in Events, v, w \in Workers : HoldsRow(v, e) /\ HoldsRow(w, e) => v = w

\* What a claim has updated stays claimable until it commits.
ClaimInv ==
    \A w \in Workers : pc[w] = "claim" =>
        /\ now[w] <= clock
        /\ \A e \in batch[w] : Queue!StillClaimable(ingress[e], now[w])

\* Lease columns are set and cleared together.
LeaseInv == \A e \in Events :
    ingress[e].lease_owner = Null <=> ingress[e].lease_until = Null

TxInv == \A w \in Workers : TxShape(w) /\ TxReady(w)

\* The locks and transactions behind CommitAtomic: rows are held by one worker
\* at a time, and whatever a worker has checked or written stays so until it
\* commits, in the tables or in its transaction.
IInv ==
    /\ TypeInv
    /\ TxInv
    /\ LockInv
    /\ ClaimInv
    /\ LeaseInv
    /\ CommitAtomic
    /\ CommittedUnleased
=============================================================================
