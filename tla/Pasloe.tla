------------------------------- MODULE Pasloe --------------------------------
(***************************************************************************)
(* The whole of Pasloe: requests, committers and webhook workers, of       *)
(* several processes that share nothing but the database.                  *)
(*                                                                         *)
(* The components are AcceptApi, Committer and WebhookWorker, in the form  *)
(* their Live modules give them.  They meet in two tables: the COMMIT of a *)
(* request is what the committers see as a new row of ingress_events, and  *)
(* the COMMIT of a committer what the webhook workers see as a new row of  *)
(* outbox_events.  A process runs one committer and one webhook worker     *)
(* (PipelineRuntime) and serves requests; it starts and dies as one.       *)
(***************************************************************************)
EXTENDS Integers, FiniteSets

CONSTANTS
    Events,         \* requests, and the ids of the rows they insert
    Keys, KeyOf, EmptyKey, NoKey, NoId,             \* see AcceptApi
    Processes, Sources, SourceOf, DomainEvents, Null,
    Hooks, Subscribes, Hanging,                     \* see WebhookWorker
    LeaseSeconds, RetryBase, RetryMax, BatchSize,   \* PipelineConfig
    MaxTries, Timeout, Backoff, MaxExponent,
    Now, StallUntil, MaxTime, MaxCopies, MaxFaults     \* bounds

\* What the components assume of them, and that no process is called Null.
ASSUME PasloeAssumption ==
    /\ Events \subseteq Nat /\ NoId \notin Events
    /\ KeyOf \in [Events -> Keys \union {EmptyKey, NoKey}]
    /\ EmptyKey \notin Keys /\ NoKey \notin Keys /\ EmptyKey # NoKey
    /\ SourceOf \in [Events -> Sources]
    /\ Subscribes \in [Hooks -> SUBSET Events] /\ Hanging \subseteq Hooks
    /\ Null \notin Int \union Processes
    /\ LeaseSeconds \in Nat /\ RetryBase \in Nat /\ RetryMax \in Nat /\ BatchSize \in Nat
    /\ MaxTries \in Nat \ {0} /\ Timeout \in Nat /\ Backoff \in Nat
    /\ \A n \in 1 .. MaxTries : Backoff * 2^(n - 1) \in Nat
    /\ Now \in Nat \ {0} /\ StallUntil \in Nat /\ MaxTime \in Nat
    /\ MaxExponent \in Nat /\ MaxCopies \in Nat \ {0} /\ MaxFaults \in Nat

VARIABLES
    faults,
    \* the requests
    rpc, found, answer,
    \* the committers, and the tables they write
    clock, ingress, sources, events, details, cpc, cnow, ctodo, cbatch, ccur, cseen, ctx,
    \* the webhook workers, the outbox and the receivers
    outbox, hooks, copies, wpc, wnow, wtodo, wbatch, wcur, wseen, calls

requests == <<rpc, found, answer>>
committers == <<clock, ingress, sources, events, details,
                cpc, cnow, ctodo, cbatch, ccur, cseen, ctx>>
webhookers == <<hooks, copies, wpc, wnow, wtodo, wbatch, wcur, wseen, calls>>
vars == <<faults, requests, committers, outbox, webhookers>>

A == INSTANCE AcceptApi WITH
    Requests <- Events,
    rows <- {e \in Events : ingress[e].status # "absent"},
    pc <- rpc

C == INSTANCE CommitterLive WITH
    Workers <- Processes,
    outbox <- {e \in Events : outbox[e].status # "absent"},
    pc <- cpc, now <- cnow, todo <- ctodo, batch <- cbatch, cur <- ccur, seen <- cseen,
    tx <- ctx

\* The registries are left alone here: nobody changes the webhooks, and only committers
\* register sources.
W == INSTANCE WebhookLive WITH
    Workers <- Processes, Rows <- Events,
    Registered <- Hooks, Volatile <- {},
    pc <- wpc, now <- wnow, todo <- wtodo, batch <- wbatch, cur <- wcur, seen <- wseen

Init ==
    /\ W!Init
    /\ C!Init
    /\ A!Init

-----------------------------------------------------------------------------
(* Steps of one component.                                                 *)

\* A request's handler, up to its answer.
Handle(r) ==
    /\ UNCHANGED <<committers, outbox, webhookers>>
    /\ A!Step(r)

\* A statement of a request fails.
FailRequest(r) ==
    /\ rpc[r] # "done"
    /\ UNCHANGED <<committers, outbox, webhookers>>
    /\ A!Fail({r})

\* A committer, with no new row for the outbox.
CommitterStep(p) ==
    /\ UNCHANGED <<requests, outbox, webhookers>>
    /\ C!Claim(p) \/ C!Process(p)

CommitterFault(p) ==
    /\ UNCHANGED <<requests, outbox, webhookers>>
    /\ C!MarkRetry(p) \/ C!Fail(p) \/ C!CommitUnheard(p)

WebhookStep(p) ==
    /\ UNCHANGED <<requests, committers>>
    /\ W!Claim(p) \/ W!Process(p) \/ W!PunctualDeliver(p)

WebhookFault(p) ==
    /\ UNCHANGED <<requests, committers>>
    /\ W!Fail(p) \/ W!MarkUnheard(p) \/ \E h \in Hooks : W!Refused(p, h)

CommitterTick == UNCHANGED <<requests, outbox, webhookers>> /\ C!PacedTick

WebhookTick == UNCHANGED <<requests, committers>> /\ W!PacedTick

-----------------------------------------------------------------------------
(* Steps that components take together.                                    *)

\* The COMMIT of a request.
AcceptCommit(r) ==
    /\ UNCHANGED <<outbox, webhookers>>
    /\ C!Accept(r)
    /\ A!Commit(r)

\* The COMMIT of a committer that has written the event's outbox row.
EnqueueCommit(p) ==
    /\ cpc[p] = "commit" /\ "outbox" \in ctx[p]
    /\ W!Enqueued(ccur[p])
    /\ UNCHANGED <<requests, webhookers>>
    /\ C!Commit(p) \/ C!CommitUnheard(p)

\* PipelineRuntime.start: both tasks.
Start(p) ==
    /\ UNCHANGED <<requests, outbox>>
    /\ C!Start(p)
    /\ W!Start(p)

\* The process dies with both tasks and whatever requests it was serving.
Crash(p) ==
    /\ W!Crash(p)
    /\ C!Crash(p)
    /\ \E S \in SUBSET {r \in Events : rpc[r] # "done"} : A!Fail(S)

Fault ==
    \/ \E r \in Events : FailRequest(r)
    \/ \E p \in Processes : CommitterFault(p) \/ WebhookFault(p) \/ Crash(p)

Next ==
    \/ \E r \in Events : Handle(r) \/ AcceptCommit(r)
    \/ \E p \in Processes :
        Start(p) \/ CommitterStep(p) \/ EnqueueCommit(p) \/ WebhookStep(p)
    \/ CommitterTick \/ WebhookTick
    \/ Fault

\* As in the components: handlers and tasks are run on, processes started, time goes on.
Fairness ==
    /\ \A r \in Events : WF_vars(Handle(r) \/ AcceptCommit(r))
    /\ \A p \in Processes :
        /\ WF_vars(Start(p) \/ CommitterStep(p) \/ EnqueueCommit(p))
        /\ WF_vars(WebhookStep(p))
    /\ WF_vars(CommitterTick) /\ WF_vars(WebhookTick)

Spec == Init /\ [][Next]_vars /\ Fairness

-----------------------------------------------------------------------------
(* What makes it correct.                                                  *)

Delivered(e) == outbox[e].status = "done"

\* The system implements the abstract store, the settling of debts included.
Store == INSTANCE EventStore WITH
    accepted <- {e \in Events : ingress[e].status # "absent"},
    visible <- events,
    delivery <- [e \in Events |->
                    IF outbox[e].status = "absent" THEN "none" ELSE outbox[e].status]

RefinesEventStore == Store!Spec

\* No receiver ever hears of an event that GET /events does not return, or before the
\* request that sent it was answered with its id.
DeliveredIsVisible ==
    \A e \in Events, h \in Hooks :
        copies[e, h] > 0 => e \in events /\ answer[e].id = e

\* Of the events that requests with one key have asked for, receivers hear of one.
OneEventPerKey ==
    \A d, e \in Events, h \in Hooks :
        A!Duplicates(d, e) => copies[d, h] = 0 \/ copies[e, h] = 0

\* Whatever event a client was told of is delivered to every webhook in the end; only
\* the answer of a request that was torn down before its COMMIT is worth nothing.
AnswersAreHonoured ==
    \A r, e \in Events :
        answer[r].id = e ~>
            \/ Delivered(e)
            \/ faults > 0 /\ rpc[e] = "done" /\ ingress[e].status = "absent"
=============================================================================
