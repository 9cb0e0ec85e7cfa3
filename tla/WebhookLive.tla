----------------------------- MODULE WebhookLive -----------------------------
(***************************************************************************)
(* When webhook deliveries can be relied on.  Here statements and the      *)
(* event loop take no time: the clock moves only when everything left to   *)
(* do is to wait, for an answer, a sleep, a lease or a back-off.  Webhooks *)
(* answer before they are timed out; those that are Hanging do so or send  *)
(* nothing at all, request by request.  What is refused counts as a fault. *)
(***************************************************************************)
EXTENDS WebhookWorker

\* A request without its answer, or a sleep, with time left.
Pausing(call) == call.is \in {"request", "sleep"} /\ call.left > 0

Waiting(w) ==
    \/ pc[w] = "dead"
    \/ pc[w] = "idle" /\ Queue!Candidates(outbox, Now, BatchSize) = {}
    \/ /\ pc[w] = "deliver"
       /\ \E h \in Hooks : Pausing(calls[w][h])
       /\ \A h \in Hooks : calls[w][h].is \in {"request", "sleep"} => Pausing(calls[w][h])

PacedTick ==
    /\ \A w \in Workers : Waiting(w)
    /\ \E e \in Rows : outbox[e].status = "pending"
    /\ Tick

PunctualDeliver(w) ==
    \E h \in Hooks : \/ Answered(w, h) \/ Retry(w, h)
                     \/ h \in Hanging /\ TimedOut(w, h)

LiveStep(w) == Start(w) \/ IdlePoll(w) \/ Claim(w) \/ Process(w) \/ PunctualDeliver(w)

LiveNext == Env \/ PacedTick \/ \E w \in Workers : LiveStep(w) \/ Fault(w)

\* asyncio resumes a coroutine whose await is over, the deployment starts its
\* processes, receivers answer and time goes on.
Fairness ==
    /\ WF_vars(PacedTick)
    /\ \A w \in Workers :
        /\ WF_vars(Start(w))
        /\ WF_vars(Claim(w) \/ Process(w) \/ PunctualDeliver(w))

LiveSpec == Init /\ [][LiveNext]_vars /\ Fairness

\* A row whose webhooks always answer.
Healthy(e) == \A h \in Hooks : e \in Subscribes[h] => h \notin Hanging

\* Every row whose webhooks answer is settled, however many crashes, refusals and
\* lost leases came first, and whatever other rows' webhooks do: "workers consume
\* outbox with lease + retry" (pipeline.py).
HealthyRowsSettled ==
    \A e \in Rows : Healthy(e) =>
        (outbox[e].status = "pending" ~> outbox[e].status = "done")

\* A row that has been tried so often that it cannot be backed off any more.
Stuck == \E e \in Rows : outbox[e].status = "pending" /\ ~Queue!Retriable(outbox[e].attempts)

\* What does hold: every row whose webhooks answer is settled, whatever failed and hung
\* before, unless another row has used up its retries and stays so for ever.
SettledUnlessStuck == []<>~Stuck => HealthyRowsSettled

\* As long as nothing has failed, the leases keep two workers from delivering the
\* same row: nobody is told twice.
OnceWithoutFaults ==
    faults = 0 => \A e \in Rows, h \in Hooks : Healthy(e) => copies[e, h] <= 1
=============================================================================
