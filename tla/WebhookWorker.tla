---------------------------- MODULE WebhookWorker ----------------------------
(***************************************************************************)
(* The second stage of the pipeline: webhook workers claim rows of         *)
(* outbox_events, deliver each to every webhook that subscribes to it and  *)
(* settle the row (pipeline.py _webhook_loop, webhook_delivery.py, and the *)
(* store.py functions they call).  No transaction is open while requests   *)
(* are under way; the lease is checked before and after.                   *)
(*                                                                         *)
(* Time is kept relative to the present, so that behaviours may go on for  *)
(* ever in finitely many states: the clock always shows Now, and a tick    *)
(* makes every stored time one unit older, down to 0.                      *)
(***************************************************************************)
EXTENDS Integers, FiniteSets

CONSTANTS
    Rows,           \* outbox ids (UUIDv7, hence ordered), one per event
    Workers,        \* webhook workers, one per process ever started
    Hooks,          \* webhooks
    Subscribes,     \* the rows whose type and source pass each hook's filters
    Registered,     \* the hooks that are registered at first
    Volatile,       \* hooks that are registered and deleted meanwhile
    Hanging,        \* hooks that may take a request and never answer it
    Null,
    LeaseSeconds, RetryBase, RetryMax, BatchSize,   \* PipelineConfig
    MaxTries,       \* webhook_delivery._MAX_ATTEMPTS
    Timeout,        \* httpx.AsyncClient(timeout=...)
    Backoff,        \* webhook_delivery._BACKOFF_BASE
    MaxExponent,    \* see LeaseQueue
    Now,            \* how far back times are told apart
    MaxCopies,      \* bound: copies counts no further
    MaxFaults       \* bound: failures and crashes in one behaviour

ASSUME HooksAssumption ==
    /\ Rows \subseteq Nat
    /\ Subscribes \in [Hooks -> SUBSET Rows]
    /\ Registered \subseteq Hooks /\ Volatile \subseteq Hooks
    /\ Hanging \subseteq Hooks
    /\ Null \notin Int \union Workers
ASSUME NumbersAssumption ==
    /\ LeaseSeconds \in Nat /\ RetryBase \in Nat /\ RetryMax \in Nat
    /\ BatchSize \in Nat /\ MaxTries \in Nat \ {0} /\ Timeout \in Nat
    /\ Backoff \in Nat /\ Now \in Nat \ {0} /\ MaxExponent \in Nat
    /\ MaxCopies \in Nat \ {0} /\ MaxFaults \in Nat

\* True of any Backoff in Nat; the provers know no law of powers.
ASSUME BackoffAssumption == \A n \in 1 .. MaxTries : Backoff * 2^(n - 1) \in Nat

VARIABLES
    faults,         \* failures so far, against MaxFaults
    outbox,         \* outbox_events of pipeline "webhook", committed rows
    hooks,          \* webhooks, the ids
    copies,         \* how often each hook's receiver got each row's event
    pc, now, todo, batch, cur, seen,    \* each worker, as in Committer
    calls           \* deliver_to_webhook, per worker and hook

locals == <<now, todo, batch, cur, seen, calls>>
vars == <<faults, outbox, hooks, copies, pc, locals>>

Queue == INSTANCE LeaseQueue WITH Open <- "pending"

\* Before the committer has enqueued it a row is not in the table.
Absent == [Queue!Fresh(Now) EXCEPT !.status = "absent"]

\* A coroutine of deliver_to_webhook: not called, waiting for the answer to its
\* n-th request, sleeping after it, or returned.
Idle == [is |-> "idle", tries |-> 0, left |-> 0]
Request(n) == [is |-> "request", tries |-> n, left |-> Timeout]
Sleep(n) == [is |-> "sleep", tries |-> n, left |-> Backoff * 2^(n - 1)]
Returned(result) == [is |-> result, tries |-> 0, left |-> 0]

Row == [status : {"absent", "pending", "done"},
        at : Nat,
        attempts : 0 .. MaxExponent + 1,
        next_attempt_at : Nat,
        lease_owner : Workers \union {Null},
        lease_until : Nat \union {Null}]

Call == [is : {"idle", "request", "sleep", "ok", "failed"},
         tries : 0 .. MaxTries,
         left : Nat]

TypeOK ==
    /\ faults \in 0 .. MaxFaults
    /\ outbox \in [Rows -> Row]
    /\ hooks \subseteq Hooks
    /\ copies \in [Rows \X Hooks -> 0 .. MaxCopies]
    /\ pc \in [Workers -> {"off", "idle", "claim", "work", "deliver", "mark", "dead"}]
    /\ now \in [Workers -> 0 .. Now]
    /\ todo \in [Workers -> SUBSET Rows]
    /\ batch \in [Workers -> SUBSET Rows]
    /\ cur \in [Workers -> Rows \union {Null}]
    /\ seen \in [Workers -> 0 .. MaxExponent + 1]
    /\ calls \in [Workers -> [Hooks -> Call]]

Silent == [h \in Hooks |-> Idle]

Init ==
    /\ faults = 0
    /\ outbox = [e \in Rows |-> Absent]
    /\ hooks = Registered
    /\ copies = [eh \in Rows \X Hooks |-> 0]
    /\ pc = [w \in Workers |-> "off"]
    /\ now = [w \in Workers |-> 0]
    /\ todo = [w \in Workers |-> {}]
    /\ batch = [w \in Workers |-> {}]
    /\ cur = [w \in Workers |-> Null]
    /\ seen = [w \in Workers |-> 0]
    /\ calls = [w \in Workers |-> Silent]

Goto(w, label) == pc' = [pc EXCEPT ![w] = label]

\* On to the next id of the batch, or to the next poll.
Continue(w, rest) ==
    /\ Goto(w, IF rest = {} THEN "idle" ELSE "work")
    /\ batch' = [batch EXCEPT ![w] = rest]
    /\ now' = [now EXCEPT ![w] = 0]
    /\ cur' = [cur EXCEPT ![w] = Null]
    /\ seen' = [seen EXCEPT ![w] = 0]
    /\ calls' = [calls EXCEPT ![w] = Silent]
    /\ UNCHANGED todo

\* The batch is forgotten.
Reset(w, label) ==
    /\ Goto(w, label)
    /\ todo' = [todo EXCEPT ![w] = {}]
    /\ batch' = [batch EXCEPT ![w] = {}]
    /\ now' = [now EXCEPT ![w] = 0]
    /\ cur' = [cur EXCEPT ![w] = Null]
    /\ seen' = [seen EXCEPT ![w] = 0]
    /\ calls' = [calls EXCEPT ![w] = Silent]

-----------------------------------------------------------------------------
(* The committer and the API.                                              *)

\* The committer's COMMIT makes the row of an event visible.
Enqueued(e) ==
    /\ outbox[e].status = "absent"
    /\ outbox' = [outbox EXCEPT ![e] = Queue!Fresh(Now)]

Enqueue(e) == Enqueued(e) /\ UNCHANGED <<faults, hooks, copies, pc, locals>>

\* POST /webhooks and DELETE /webhooks/{id}
ChangeHooks ==
    /\ \E h \in Volatile : hooks' \in {hooks \union {h}, hooks \ {h}} \ {hooks}
    /\ UNCHANGED <<faults, outbox, copies, pc, locals>>

-----------------------------------------------------------------------------
(* claim_outbox_batch, as claim_ingress_batch in Committer.                *)

Start(w) ==
    /\ pc[w] = "off"
    /\ Goto(w, "idle")
    /\ UNCHANGED <<faults, outbox, hooks, copies, locals>>

IdlePoll(w) ==
    /\ pc[w] = "idle"
    /\ Queue!Candidates(outbox, Now, BatchSize) = {}
    /\ UNCHANGED vars

ClaimSelect(w) ==
    /\ pc[w] = "idle"
    /\ Queue!Candidates(outbox, Now, BatchSize) # {}
    /\ todo' = [todo EXCEPT ![w] = Queue!Candidates(outbox, Now, BatchSize)]
    /\ now' = [now EXCEPT ![w] = Now]
    /\ Goto(w, "claim")
    /\ UNCHANGED <<faults, outbox, hooks, copies, batch, cur, seen, calls>>

\* Only claims hold row locks for longer than a step.
RowBusy(w, e) == \E v \in Workers \ {w} : pc[v] = "claim" /\ e \in batch[v]

ClaimUpdate(w) ==
    /\ pc[w] = "claim"
    /\ \E e \in todo[w] :
        /\ Queue!First(outbox, todo[w], e)
        /\ ~RowBusy(w, e)
        /\ todo' = [todo EXCEPT ![w] = @ \ {e}]
        /\ batch' = [batch EXCEPT ![w] =
                        IF Queue!StillClaimable(outbox[e], now[w])
                        THEN @ \union {e} ELSE @]
    /\ UNCHANGED <<faults, outbox, hooks, copies, pc, now, cur, seen, calls>>

ClaimCommit(w) ==
    /\ pc[w] = "claim"
    /\ todo[w] = {}
    /\ outbox' = [e \in Rows |-> IF e \in batch[w]
                                 THEN Queue!Claimed(outbox[e], w, now[w])
                                 ELSE outbox[e]]
    /\ Continue(w, batch[w])
    /\ UNCHANGED <<faults, hooks, copies>>

-----------------------------------------------------------------------------
(* The body of the loop over claimed_ids.                                  *)

\* list_webhooks_for_event: the filters are Subscribes.
Matches(e) == {h \in hooks : e \in Subscribes[h]}

\* get_outbox_for_worker, and if the lease stands fire_webhooks starts a delivery
\* to every match.
Load(w) ==
    /\ pc[w] = "work"
    /\ \E e \in batch[w] :
        /\ Queue!First(outbox, batch[w], e)
        /\ IF Queue!HeldBy(outbox[e], w, Now)
           THEN /\ Goto(w, "deliver")
                /\ batch' = [batch EXCEPT ![w] = @ \ {e}]
                /\ cur' = [cur EXCEPT ![w] = e]
                /\ calls' = [calls EXCEPT ![w] =
                     [h \in Hooks |-> IF h \in Matches(e) THEN Request(1) ELSE Idle]]
                /\ UNCHANGED <<now, todo, seen>>
           ELSE Continue(w, batch[w] \ {e})
    /\ UNCHANGED <<faults, outbox, hooks, copies>>

\* The receiver gets the request, or another copy of it.
Receive(e, h) ==
    copies' = [copies EXCEPT ![<<e, h>>] = IF @ < MaxCopies THEN @ + 1 ELSE @]

\* A status below 500: delivered.
Answered(w, h) ==
    /\ calls[w][h].is = "request"
    /\ Receive(cur[w], h)
    /\ calls' = [calls EXCEPT ![w][h] = Returned("ok")]
    /\ UNCHANGED <<faults, outbox, hooks, pc, now, todo, batch, cur, seen>>

\* An error, or a status of 500 and more: sleep and try again, or give up.
Unanswered(w, h) ==
    LET n == calls[w][h].tries
    IN  calls' = [calls EXCEPT ![w][h] =
                    IF n < MaxTries THEN Sleep(n) ELSE Returned("failed")]

\* A piece of the request or of the answer gets through: the timeout is of each
\* wait for the network, not of the whole request.
Trickled(w, h) ==
    /\ calls[w][h].is = "request"
    /\ calls' = [calls EXCEPT ![w][h].left = Timeout]
    /\ UNCHANGED <<faults, outbox, hooks, copies, pc, now, todo, batch, cur, seen>>

TimedOut(w, h) ==
    /\ calls[w][h].is = "request" /\ calls[w][h].left = 0
    /\ Unanswered(w, h)
    /\ Receive(cur[w], h) \/ UNCHANGED copies
    /\ UNCHANGED <<faults, outbox, hooks, pc, now, todo, batch, cur, seen>>

Refused(w, h) ==
    /\ calls[w][h].is = "request"
    /\ faults < MaxFaults
    /\ faults' = faults + 1
    /\ Unanswered(w, h)
    /\ Receive(cur[w], h) \/ UNCHANGED copies
    /\ UNCHANGED <<outbox, hooks, pc, now, todo, batch, cur, seen>>

Retry(w, h) ==
    /\ calls[w][h].is = "sleep" /\ calls[w][h].left = 0
    /\ calls' = [calls EXCEPT ![w][h] = Request(calls[w][h].tries + 1)]
    /\ UNCHANGED <<faults, outbox, hooks, copies, pc, now, todo, batch, cur, seen>>

\* Mutant: one delivery that got through is enough.
AnySucceeded(w) ==
    \/ \A h \in Hooks : calls[w][h].is = "idle"
    \/ \E h \in Hooks : calls[w][h].is = "ok"

\* fire_webhooks: all of them, or there were none.
AllSucceeded(w) == \A h \in Hooks : calls[w][h].is \in {"idle", "ok"}

\* All deliveries have returned, and get_outbox_for_worker is asked again.  If
\* the lease is gone, so is the outcome.
Recheck(w) ==
    /\ pc[w] = "deliver"
    /\ \A h \in Hooks : calls[w][h].is \in {"idle", "ok", "failed"}
    /\ IF Queue!HeldBy(outbox[cur[w]], w, Now)
       THEN /\ Goto(w, "mark")
            /\ seen' = [seen EXCEPT ![w] = outbox[cur[w]].attempts]
            /\ UNCHANGED <<now, todo, batch, cur, calls>>
       ELSE Continue(w, batch[w])
    /\ UNCHANGED <<faults, outbox, hooks, copies>>

\* mark_outbox_done or mark_outbox_retry, and the COMMIT: UPDATEs by id that ask
\* nothing of the row they find.
Settled(w) ==
    LET row == outbox[cur[w]]
    IN  /\ AllSucceeded(w) \/ Queue!Retriable(seen[w])
        /\ outbox' = [outbox EXCEPT ![cur[w]] =
                        IF AllSucceeded(w)
                        THEN Queue!Closed(row, "done")
                        ELSE Queue!Retried(row, seen[w], Now)]

Mark(w) ==
    /\ pc[w] = "mark"
    /\ ~RowBusy(w, cur[w])
    /\ Settled(w)
    /\ Continue(w, batch[w])
    /\ UNCHANGED <<faults, hooks, copies>>

\* mark_outbox_retry raises before it has changed anything: the row keeps its attempts
\* and its lease, and the rest of the batch is abandoned to theirs.
RetryOverflows(w) ==
    /\ pc[w] = "mark"
    /\ ~AllSucceeded(w) /\ ~Queue!Retriable(seen[w])
    /\ Reset(w, "idle")
    /\ UNCHANGED <<faults, outbox, hooks, copies>>

-----------------------------------------------------------------------------
(* Failures.                                                               *)

\* "webhook loop error": a statement or a COMMIT fails.
Fail(w) ==
    /\ pc[w] \in {"claim", "work", "deliver", "mark"}
    /\ pc[w] = "deliver" => \A h \in Hooks : calls[w][h].is \notin {"request", "sleep"}
    /\ faults < MaxFaults
    /\ faults' = faults + 1
    /\ Reset(w, "idle")
    /\ UNCHANGED <<outbox, hooks, copies>>

\* The same, but the COMMIT of the mark took effect.
MarkUnheard(w) ==
    /\ pc[w] = "mark"
    /\ ~RowBusy(w, cur[w])
    /\ faults < MaxFaults
    /\ faults' = faults + 1
    /\ Settled(w)
    /\ Reset(w, "idle")
    /\ UNCHANGED <<hooks, copies>>

\* The process dies, or PipelineRuntime.stop cancels the task; requests that are
\* under way may or may not reach their receivers.
Crash(w) ==
    /\ pc[w] \notin {"off", "dead"}
    /\ faults < MaxFaults
    /\ faults' = faults + 1
    /\ \/ UNCHANGED copies
       \/ \E h \in Hooks : calls[w][h].is = "request" /\ Receive(cur[w], h)
    /\ Reset(w, "dead")
    /\ UNCHANGED <<outbox, hooks>>

-----------------------------------------------------------------------------
(* Time.                                                                   *)

Older(t, least) == IF t > least THEN t - 1 ELSE least

\* Every stored time moves back by one, every timer down by one.  A claim's
\* transaction is taken to last less than Now.
Tick ==
    /\ \A w \in Workers : pc[w] = "claim" => now[w] > 1
    /\ outbox' = [e \in Rows |->
         [outbox[e] EXCEPT !.next_attempt_at = Older(@, 0),
                           !.lease_until = IF @ = Null THEN Null ELSE Older(@, 0)]]
    /\ now' = [w \in Workers |-> Older(now[w], 0)]
    /\ calls' = [w \in Workers |->
         [h \in Hooks |-> [calls[w][h] EXCEPT !.left = Older(@, 0)]]]
    /\ UNCHANGED <<faults, hooks, copies, pc, todo, batch, cur, seen>>

-----------------------------------------------------------------------------
Claim(w) == ClaimSelect(w) \/ ClaimUpdate(w) \/ ClaimCommit(w)

Process(w) == Load(w) \/ Recheck(w) \/ Mark(w) \/ RetryOverflows(w)

Deliver(w) ==
    \E h \in Hooks : Answered(w, h) \/ Trickled(w, h) \/ TimedOut(w, h) \/ Retry(w, h)

Fault(w) ==
    \/ Fail(w) \/ MarkUnheard(w) \/ Crash(w)
    \/ \E h \in Hooks : Refused(w, h)

Env == ChangeHooks \/ \E e \in Rows : Enqueue(e)

Step(w) == Start(w) \/ IdlePoll(w) \/ Claim(w) \/ Process(w) \/ Deliver(w)

Next == Env \/ Tick \/ \E w \in Workers : Step(w) \/ Fault(w)

Spec == Init /\ [][Next]_vars

-----------------------------------------------------------------------------
(* What makes it correct.                                                  *)

\* A row is done only when every webhook that subscribes to it and was there all
\* the time has received its event: stale results, lost leases, refusals and
\* crashes never settle a debt that was not paid.
DoneDelivered ==
    \A e \in Rows, h \in Registered \ Volatile :
        outbox[e].status = "done" /\ e \in Subscribes[h] => copies[e, h] > 0

\* Done is final and unleased: neither a stale worker's retry nor a claim that
\* waited for the mark brings the row back.
DoneForGood ==
    [][\A e \in Rows : outbox[e].status = "done" =>
          outbox'[e].status = "done" /\ outbox'[e].lease_owner = Null]_vars

\* A lease passes from one worker to another only when it has run out, although both
\* may have selected the row as a candidate at the same time.  (Only a mark, which asks
\* nothing of the row it finds, clears a lease that stands.)
NoLeaseTheft ==
    [][\A e \in Rows :
        \/ outbox[e].lease_owner = Null
        \/ outbox'[e].lease_owner \in {outbox[e].lease_owner, Null}
        \/ outbox[e].lease_until < Now]_vars

\* Worker w waits for a row that v has claimed and not committed.
Waits(w, v) ==
    /\ pc[v] = "claim"
    /\ \/ /\ pc[w] = "claim"
          /\ \E e \in todo[w] : Queue!First(outbox, todo[w], e) /\ e \in batch[v]
       \/ pc[w] = "mark" /\ cur[w] \in batch[v]

\* No set of workers waits for each other: claims lock rows in one global order, and
\* a mark holds nothing while it waits for its row.
NoLockCycle ==
    \A S \in (SUBSET Workers) \ {{}} : \E w \in S : \A v \in S \ {w} : ~Waits(w, v)
=============================================================================
