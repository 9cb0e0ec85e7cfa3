----------------------------- MODULE PasloeProofs ------------------------------
(***************************************************************************)
(* The theorems about Pasloe, for any number of requests and processes,    *)
(* from those about its components.                                        *)
(*                                                                         *)
(* Each component keeps its own inductive invariant here as well: a step   *)
(* of Pasloe is a step of the component, or leaves its variables alone, or *)
(* adds a row to a table it only reads, or counts a failure elsewhere.     *)
(***************************************************************************)
EXTENDS Pasloe, TLAPS

AP == INSTANCE AcceptApiProofs WITH
    Requests <- Events,
    rows <- {e \in Events : ingress[e].status # "absent"},
    pc <- rpc

CP == INSTANCE CommitterProofs WITH
    Workers <- Processes,
    outbox <- {e \in Events : outbox[e].status # "absent"},
    pc <- cpc, now <- cnow, todo <- ctodo, batch <- cbatch, cur <- ccur, seen <- cseen,
    tx <- ctx

WP == INSTANCE WebhookProofs WITH
    Workers <- Processes, Rows <- Events,
    Registered <- Hooks, Volatile <- {},
    pc <- wpc, now <- wnow, todo <- wtodo, batch <- wbatch, cur <- wcur, seen <- wseen

-----------------------------------------------------------------------------
(* Pasloe's actions are those the components' theorems are about.          *)

LEMMA ApiStep == ASSUME NEW r \in Events, A!Step(r) PROVE AP!Step(r)
BY DEF A!Step, A!Lookup, A!Insert, A!Conflict, A!Recheck, A!AnswerExisting, A!AnswerCreated,
    A!Commit, A!Goto, A!Keyed, A!Existing, A!Pending, A!Duplicates,
    AP!Step, AP!Lookup, AP!Insert, AP!Conflict, AP!Recheck, AP!AnswerExisting,
    AP!AnswerCreated, AP!Commit, AP!Goto, AP!Keyed, AP!Existing, AP!Pending, AP!Duplicates

LEMMA ApiFail == ASSUME NEW S \in SUBSET Events, A!Fail(S) PROVE AP!Fail(S)
BY DEF A!Fail, A!Torn, AP!Fail, AP!Torn

LEMMA CommitterCandidates ==
    ASSUME NEW table, NEW t, NEW limit
    PROVE  C!Queue!Candidates(table, t, limit) = CP!Queue!Candidates(table, t, limit)
BY DEF C!Queue!Candidates, C!Queue!Claimable, C!Queue!Unleased, C!Queue!Before,
       C!Queue!Cardinality, CP!Queue!Candidates, CP!Queue!Claimable, CP!Queue!Unleased,
       CP!Queue!Before, CP!Queue!Cardinality

LEMMA CommitterSteps ==
    ASSUME NEW p \in Processes
    PROVE  /\ C!Start(p) \/ C!Claim(p) \/ C!Process(p) => CP!Step(p)
           /\ C!MarkRetry(p) \/ C!Fail(p) \/ C!CommitUnheard(p) \/ C!Crash(p) => CP!Fault(p)
<1>1. C!Start(p) => CP!Start(p)
    BY DEF C!Start, C!Goto, C!db, CP!Start, CP!Goto, CP!db
<1>2. C!ClaimSelect(p) => CP!ClaimSelect(p)
    BY CommitterCandidates DEF C!ClaimSelect, C!Goto, C!db, CP!ClaimSelect, CP!Goto, CP!db
<1>3. C!ClaimUpdate(p) => CP!ClaimUpdate(p)
    BY DEF C!ClaimUpdate, C!RowBusy, C!HoldsRow, C!db, C!Queue!Before, C!Queue!First,
       C!Queue!StillClaimable, C!Queue!Unleased, CP!ClaimUpdate, CP!RowBusy, CP!HoldsRow,
       CP!db, CP!Queue!Before, CP!Queue!First, CP!Queue!StillClaimable, CP!Queue!Unleased
<1>4. C!ClaimCommit(p) => CP!ClaimCommit(p)
    BY DEF C!ClaimCommit, C!LeasesOf, C!Continue, C!Queue!Claimed, CP!ClaimCommit,
       CP!LeasesOf, CP!Continue, CP!Queue!Claimed
<1>5. C!Load(p) => CP!Load(p)
    BY DEF C!Load, C!Continue, C!Goto, C!db, C!Queue!Before, C!Queue!First, C!Queue!HeldBy,
       CP!Load, CP!Continue, CP!Goto, CP!db, CP!Queue!Before, CP!Queue!First,
       CP!Queue!HeldBy
<1>6. C!CheckSource(p) => CP!CheckSource(p)
    BY DEF C!CheckSource, C!Goto, C!db, CP!CheckSource, CP!Goto, CP!db
<1>7. C!InsertSource(p) => CP!InsertSource(p)
    BY DEF C!InsertSource, C!SourceBusy, C!Goto, C!db, CP!InsertSource, CP!SourceBusy,
       CP!Goto, CP!db
<1>8. C!SourceConflict(p) => CP!SourceConflict(p)
    BY DEF C!SourceConflict, C!Reset, C!db, CP!SourceConflict, CP!Reset, CP!db
<1>9. C!CheckEvent(p) => CP!CheckEvent(p)
    BY DEF C!CheckEvent, C!Goto, C!db, CP!CheckEvent, CP!Goto, CP!db
<1>10. C!InsertEvent(p) => CP!InsertEvent(p)
    BY DEF C!InsertEvent, C!EventBusy, C!Goto, C!db, CP!InsertEvent, CP!EventBusy, CP!Goto,
       CP!db
<1>11. C!EventConflict(p) => CP!EventConflict(p)
    BY DEF C!EventConflict, C!Reset, C!db, CP!EventConflict, CP!Reset, CP!db
<1>12. C!CloseAndEnqueue(p) => CP!CloseAndEnqueue(p)
    BY DEF C!CloseAndEnqueue, C!EnsureOutboxRow, C!RowBusy, C!HoldsRow, C!Goto, C!db,
       CP!CloseAndEnqueue, CP!EnsureOutboxRow, CP!RowBusy, CP!HoldsRow, CP!Goto, CP!db
<1>13. C!WriteDetail(p) => CP!WriteDetail(p)
    BY DEF C!WriteDetail, C!Goto, C!db, CP!WriteDetail, CP!Goto, CP!db
<1>14. C!Commit(p) => CP!Commit(p)
    BY SMTT(30) DEF C!Commit, C!Apply, C!With, C!Continue, C!Queue!Closed, C!Queue!Retried,
       C!Queue!RetryDelay, CP!Commit, CP!Apply, CP!With, CP!Continue, CP!Queue!Closed,
       CP!Queue!Retried, CP!Queue!RetryDelay
<1>15. C!MarkRetry(p) => CP!MarkRetry(p)
    BY DEF C!MarkRetry, C!RowBusy, C!HoldsRow, C!Goto, C!db, C!Queue!Retriable,
       CP!MarkRetry, CP!RowBusy, CP!HoldsRow, CP!Goto, CP!db, CP!Queue!Retriable
<1>16. C!Fail(p) => CP!Fail(p)
    BY DEF C!Fail, C!Busy, C!Reset, C!db, CP!Fail, CP!Busy, CP!Reset, CP!db
<1>17. C!CommitUnheard(p) => CP!CommitUnheard(p)
    BY DEF C!CommitUnheard, C!Apply, C!With, C!LeasesOf, C!Reset, C!Queue!Closed,
       C!Queue!Retried, C!Queue!RetryDelay, C!Queue!Claimed, CP!CommitUnheard, CP!Apply,
       CP!With, CP!LeasesOf, CP!Reset, CP!Queue!Closed, CP!Queue!Retried,
       CP!Queue!RetryDelay, CP!Queue!Claimed
<1>18. C!Crash(p) => CP!Crash(p)
    BY DEF C!Crash, C!Reset, C!db, CP!Crash, CP!Reset, CP!db
<1> QED
    BY <1>1, <1>2, <1>3, <1>4, <1>5, <1>6, <1>7, <1>8, <1>9, <1>10, <1>11, <1>12, <1>13, <1>14, <1>15, <1>16, <1>17, <1>18
       DEF C!Claim, C!Process, CP!Step, CP!Claim, CP!Process, CP!Fault

LEMMA CommitterTime == C!PacedTick => CP!Tick
BY DEF C!PacedTick, C!Tick, C!db, CP!Tick, CP!db

LEMMA CommitterAccepts == ASSUME NEW e \in Events, C!Accept(e) PROVE CP!Accept(e)
BY DEF C!Accept, C!Queue!Fresh, CP!Accept, CP!Queue!Fresh

LEMMA WebhookCandidates ==
    ASSUME NEW table, NEW t, NEW limit
    PROVE  W!Queue!Candidates(table, t, limit) = WP!Queue!Candidates(table, t, limit)
BY DEF W!Queue!Candidates, W!Queue!Claimable, W!Queue!Unleased, W!Queue!Before,
       W!Queue!Cardinality, WP!Queue!Candidates, WP!Queue!Claimable, WP!Queue!Unleased,
       WP!Queue!Before, WP!Queue!Cardinality

LEMMA WebhookSteps ==
    ASSUME NEW p \in Processes
    PROVE  /\ W!Start(p) \/ W!Claim(p) \/ W!Process(p) \/ W!PunctualDeliver(p) => WP!Step(p)
           /\ \/ W!Fail(p) \/ W!MarkUnheard(p) \/ W!Crash(p)
              \/ \E h \in Hooks : W!Refused(p, h)
              => WP!Fault(p)
<1>1. W!Start(p) => WP!Start(p)
    BY DEF W!Start, W!Goto, W!locals, WP!Start, WP!Goto, WP!locals
<1>2. W!ClaimSelect(p) => WP!ClaimSelect(p)
    BY WebhookCandidates DEF W!ClaimSelect, W!Goto, WP!ClaimSelect, WP!Goto
<1>3. W!ClaimUpdate(p) => WP!ClaimUpdate(p)
    BY DEF W!ClaimUpdate, W!RowBusy, W!Queue!Before, W!Queue!First, W!Queue!StillClaimable,
       W!Queue!Unleased, WP!ClaimUpdate, WP!RowBusy, WP!Queue!Before, WP!Queue!First,
       WP!Queue!StillClaimable, WP!Queue!Unleased
<1>4. W!ClaimCommit(p) => WP!ClaimCommit(p)
    BY DEF W!ClaimCommit, W!Continue, W!Goto, W!Silent, W!Idle, W!Queue!Claimed,
       WP!ClaimCommit, WP!Continue, WP!Goto, WP!Silent, WP!Idle, WP!Queue!Claimed
<1>5. W!Load(p) => WP!Load(p)
    BY DEF W!Load, W!Matches, W!Request, W!Idle, W!Silent, W!Continue, W!Goto,
       W!Queue!Before, W!Queue!First, W!Queue!HeldBy, WP!Load, WP!Matches, WP!Request,
       WP!Idle, WP!Silent, WP!Continue, WP!Goto, WP!Queue!Before, WP!Queue!First,
       WP!Queue!HeldBy
<1>6. W!Recheck(p) => WP!Recheck(p)
    BY DEF W!Recheck, W!Continue, W!Goto, W!Silent, W!Idle, W!Queue!HeldBy, WP!Recheck,
       WP!Continue, WP!Goto, WP!Silent, WP!Idle, WP!Queue!HeldBy
<1>7. W!Mark(p) => WP!Mark(p)
    BY DEF W!Mark, W!RowBusy, W!Settled, W!AllSucceeded, W!Continue, W!Goto, W!Silent,
       W!Idle, W!Queue!Closed, W!Queue!Retried, W!Queue!RetryDelay, W!Queue!Retriable,
       WP!Mark, WP!RowBusy, WP!Settled, WP!AllSucceeded, WP!Continue, WP!Goto, WP!Silent,
       WP!Idle, WP!Queue!Closed, WP!Queue!Retried, WP!Queue!RetryDelay, WP!Queue!Retriable
<1>8. W!Fail(p) => WP!Fail(p)
    BY DEF W!Fail, W!Reset, W!Goto, W!Silent, W!Idle, WP!Fail, WP!Reset, WP!Goto, WP!Silent,
       WP!Idle
<1>9. W!MarkUnheard(p) => WP!MarkUnheard(p)
    BY DEF W!MarkUnheard, W!RowBusy, W!Settled, W!AllSucceeded, W!Reset, W!Goto, W!Silent,
       W!Idle, W!Queue!Closed, W!Queue!Retried, W!Queue!RetryDelay, W!Queue!Retriable,
       WP!MarkUnheard, WP!RowBusy, WP!Settled, WP!AllSucceeded, WP!Reset, WP!Goto,
       WP!Silent, WP!Idle, WP!Queue!Closed, WP!Queue!Retried, WP!Queue!RetryDelay,
       WP!Queue!Retriable
<1>10. W!Crash(p) => WP!Crash(p)
    BY DEF W!Crash, W!Receive, W!Reset, W!Goto, W!Silent, W!Idle, WP!Crash, WP!Receive,
       WP!Reset, WP!Goto, WP!Silent, WP!Idle
<1>11. ASSUME NEW h \in Hooks, W!Answered(p, h) PROVE WP!Answered(p, h)
    BY <1>11 DEF W!Answered, W!Receive, W!Returned, WP!Answered, WP!Receive, WP!Returned
<1>12. ASSUME NEW h \in Hooks, W!TimedOut(p, h) PROVE WP!TimedOut(p, h)
    BY <1>12 DEF W!TimedOut, W!Unanswered, W!Sleep, W!Returned, W!Receive, WP!TimedOut,
       WP!Unanswered, WP!Sleep, WP!Returned, WP!Receive
<1>13. ASSUME NEW h \in Hooks, W!Refused(p, h) PROVE WP!Refused(p, h)
    BY <1>13 DEF W!Refused, W!Unanswered, W!Sleep, W!Returned, W!Receive, WP!Refused,
       WP!Unanswered, WP!Sleep, WP!Returned, WP!Receive
<1>14. ASSUME NEW h \in Hooks, W!Retry(p, h) PROVE WP!Retry(p, h)
    BY <1>14 DEF W!Retry, W!Request, WP!Retry, WP!Request
<1>15. W!RetryOverflows(p) => WP!RetryOverflows(p)
    BY DEF W!RetryOverflows, W!AllSucceeded, W!Reset, W!Goto, W!Silent, W!Idle,
       W!Queue!Retriable, WP!RetryOverflows, WP!AllSucceeded, WP!Reset, WP!Goto, WP!Silent,
       WP!Idle, WP!Queue!Retriable
<1> QED
    BY <1>1, <1>2, <1>3, <1>4, <1>5, <1>6, <1>7, <1>8, <1>9, <1>10, <1>11, <1>12, <1>13,
       <1>14, <1>15
       DEF W!Claim, W!Process, W!PunctualDeliver, WP!Step, WP!Claim, WP!Process, WP!Deliver, WP!Fault

LEMMA WebhookTime == W!PacedTick => WP!Tick
BY DEF W!PacedTick, W!Tick, W!Older, WP!Tick, WP!Older

LEMMA WebhookEnqueues == ASSUME NEW e \in Events, W!Enqueued(e) PROVE WP!Enqueued(e)
BY DEF W!Enqueued, W!Queue!Fresh, WP!Enqueued, WP!Queue!Fresh

-----------------------------------------------------------------------------
(* The invariant.                                                          *)

\* That of each component, with what the others rely on: who is in the table was told
\* so, and only what is in the outbox is delivered.
IInv ==
    /\ AP!IInv /\ AP!ToldInv
    /\ CP!IInv
    /\ WP!IInv /\ WP!EnqueuedInv

Accepted == {e \in Events : ingress[e].status # "absent"}

Enqueued == {e \in Events : outbox[e].status # "absent"}

LEMMA InitInv == Init => IInv
<1> SUFFICES ASSUME Init PROVE IInv
    OBVIOUS
<1>1. AP!Init /\ CP!Init /\ WP!Init
  <2>1. AP!Init
      BY DEF Init, A!Init, AP!Init, A!NoAnswer, AP!NoAnswer
  <2>2. CP!Init
      BY DEF Init, C!Init, CP!Init, C!Absent, CP!Absent, C!Queue!Fresh, CP!Queue!Fresh
  <2>3. WP!Init
      BY DEF Init, W!Init, WP!Init, W!Absent, WP!Absent, W!Queue!Fresh, WP!Queue!Fresh,
         W!Silent, WP!Silent, W!Idle, WP!Idle
  <2> QED
      BY <2>1, <2>2, <2>3
<1>2. AP!IInv
    BY <1>1, PasloeAssumption, AP!InitInv
<1>3. CP!IInv
    BY <1>1, PasloeAssumption, CP!InitInv
<1>4. WP!IInv
    BY <1>1, PasloeAssumption, WP!InitInv
<1>5. WP!EnqueuedInv
    BY <1>1, PasloeAssumption, WP!EnqueuedInit
<1>6. AP!ToldInv
    BY <1>1 DEF AP!Init, AP!ToldInv
<1> QED
    BY <1>2, <1>3, <1>4, <1>5, <1>6 DEF IInv

-----------------------------------------------------------------------------
(* What a step of Pasloe is to each component.                             *)

Counts == faults' = faults \/ (faults < MaxFaults /\ faults' = faults + 1)

LEMMA FaultsCount ==
    /\ \A r \in Events : AP!Step(r) => faults' = faults
    /\ \A S : AP!Fail(S) => Counts
    /\ \A p \in Processes : CP!Step(p) \/ CP!Fault(p) \/ WP!Step(p) \/ WP!Fault(p) => Counts
<1>1. \A r \in Events : AP!Step(r) => faults' = faults
    BY DEF AP!Step, AP!Lookup, AP!Insert, AP!Conflict, AP!Recheck, AP!AnswerExisting,
       AP!AnswerCreated, AP!Commit
<1>2. \A S : AP!Fail(S) => Counts
    BY DEF AP!Fail, Counts
<1>3. ASSUME NEW p \in Processes, CP!Step(p) PROVE Counts
    BY <1>3 DEF CP!Step, CP!Claim, CP!Process, CP!Start, CP!IdlePoll, CP!ClaimSelect,
       CP!ClaimUpdate, CP!ClaimCommit, CP!Load, CP!CheckSource, CP!InsertSource,
       CP!SourceConflict, CP!CheckEvent, CP!InsertEvent, CP!EventConflict,
       CP!CloseAndEnqueue, CP!WriteDetail, CP!Commit, CP!vars, Counts
<1>4. ASSUME NEW p \in Processes, CP!Fault(p) PROVE Counts
    BY <1>4 DEF CP!Fault, CP!MarkRetry, CP!Fail, CP!CommitUnheard, CP!Crash, Counts
<1>5. ASSUME NEW p \in Processes, WP!Step(p) PROVE Counts
    BY <1>5 DEF WP!Step, WP!Claim, WP!Process, WP!Deliver, WP!Start, WP!IdlePoll,
       WP!ClaimSelect, WP!ClaimUpdate, WP!ClaimCommit, WP!Load, WP!Recheck, WP!Mark,
       WP!RetryOverflows, WP!Answered, WP!Trickled, WP!TimedOut, WP!Retry, WP!vars, Counts
<1>6. ASSUME NEW p \in Processes, WP!Fault(p) PROVE Counts
    BY <1>6 DEF WP!Fault, WP!Fail, WP!MarkUnheard, WP!Crash, WP!Refused, Counts
<1> QED
    BY <1>1, <1>2, <1>3, <1>4, <1>5, <1>6

LEMMA CountsInBounds == IInv /\ Counts => faults' \in 0 .. MaxFaults
BY PasloeAssumption DEF IInv, AP!IInv, AP!TypeOK, Counts

\* Committers neither accept rows nor take them back, and webhook workers and time leave
\* every row of the outbox there.
LEMMA AcceptedStays ==
    ASSUME IInv, NEW p \in Processes, CP!Step(p) \/ CP!Fault(p)
    PROVE  Accepted' = Accepted
BY PasloeAssumption, CP!WorkerKeepsAccepted DEF IInv, Accepted, CP!AcceptedRows

Settles ==
    \/ \A e \in Events : outbox'[e].status = outbox[e].status
    \/ \E d \in Events :
        /\ outbox[d].status # "absent" /\ outbox'[d].status = "done"
        /\ \A e \in Events \ {d} : outbox'[e].status = outbox[e].status

LEMMA EnqueuedStays == Settles => Enqueued' = Enqueued
BY DEF Settles, Enqueued

LEMMA WebhookSettles ==
    ASSUME IInv, \/ WP!Tick
                 \/ \E p \in Processes : WP!Step(p) \/ WP!Fault(p)
    PROVE  Settles
<1>1. WP!Tick => WP!SameStatuses
    BY PasloeAssumption, WP!TickStatuses DEF IInv
<1>2. ASSUME NEW p \in Processes, WP!Step(p) \/ WP!Fault(p) PROVE WP!StatusStep
    BY <1>2, PasloeAssumption, WP!WorkerStatuses DEF IInv
<1> QED
    BY <1>1, <1>2 DEF Settles, WP!StatusStep, WP!SameStatuses

ApiSees ==
    \/ \E r \in Events : AP!Step(r)
    \/ \E S \in SUBSET AP!InFlight : AP!Fail(S)
    \/ Accepted' = Accepted /\ UNCHANGED requests /\ Counts

CommittersSee ==
    \/ CP!Next
    \/ Enqueued' = Enqueued /\ UNCHANGED committers /\ Counts

WebhooksSee ==
    \/ WP!Next
    \/ /\ UNCHANGED outbox \/ \E e \in Events : WP!Enqueued(e)
       /\ UNCHANGED webhookers /\ Counts

\* A request's handler, or the COMMIT of its row, which is what the committers see.
LEMMA RequestSteps ==
    ASSUME IInv, \E r \in Events : Handle(r) \/ FailRequest(r) \/ AcceptCommit(r)
    PROVE  ApiSees /\ CommittersSee /\ WebhooksSee
<1>1. PICK r \in Events : Handle(r) \/ FailRequest(r) \/ AcceptCommit(r)
    OBVIOUS
<1>2. CASE Handle(r)
  <2>1. AP!Step(r)
      BY <1>2, ApiStep DEF Handle
  <2>2. UNCHANGED <<committers, outbox, webhookers, faults>>
      BY <1>2, <2>1, FaultsCount DEF Handle
  <2>3. Enqueued' = Enqueued
      BY <2>2 DEF Enqueued
  <2> QED
      BY <2>1, <2>2, <2>3 DEF ApiSees, CommittersSee, WebhooksSee, Counts
<1>3. CASE FailRequest(r)
  <2>1. AP!Fail({r}) /\ {r} \in SUBSET AP!InFlight
      BY <1>3, ApiFail DEF FailRequest, AP!InFlight
  <2>2. UNCHANGED <<committers, outbox, webhookers>> /\ Counts
      BY <1>3, <2>1, FaultsCount DEF FailRequest
  <2>3. Enqueued' = Enqueued
      BY <2>2 DEF Enqueued
  <2> QED
      BY <2>1, <2>2, <2>3 DEF ApiSees, CommittersSee, WebhooksSee
<1>4. CASE AcceptCommit(r)
  <2>1. AP!Step(r)
      BY <1>4, ApiStep DEF AcceptCommit, A!Step
  <2>2. CP!Next
      BY <1>4, CommitterAccepts DEF AcceptCommit, CP!Next, CP!Api
  <2>3. UNCHANGED <<outbox, webhookers, faults>>
      BY <1>4, <2>1, FaultsCount DEF AcceptCommit
  <2> QED
      BY <2>1, <2>2, <2>3 DEF ApiSees, CommittersSee, WebhooksSee, Counts
<1> QED
    BY <1>1, <1>2, <1>3, <1>4

\* A committer, whose COMMIT may be what the webhook workers see, and its clock.
LEMMA CommitterTasks ==
    ASSUME IInv, \/ CommitterTick
                 \/ \E p \in Processes : CommitterStep(p) \/ CommitterFault(p) \/ EnqueueCommit(p)
    PROVE  ApiSees /\ CommittersSee /\ WebhooksSee
<1>1. CASE CommitterTick
  <2>1. CP!Next /\ Accepted' = Accepted /\ Counts
      BY <1>1, CommitterTime DEF CommitterTick, CP!Next, CP!Tick, CP!db, Accepted, Counts
  <2> QED
      BY <1>1, <2>1 DEF CommitterTick, ApiSees, CommittersSee, WebhooksSee
<1>2. ASSUME NEW p \in Processes, CommitterStep(p) \/ CommitterFault(p) \/ EnqueueCommit(p)
      PROVE  ApiSees /\ CommittersSee /\ WebhooksSee
  <2>1. CP!Step(p) \/ CP!Fault(p)
      BY <1>2, CommitterSteps
         DEF CommitterStep, CommitterFault, EnqueueCommit, C!Process
  <2>2. CP!Next /\ Accepted' = Accepted /\ Counts
      BY <2>1, AcceptedStays, FaultsCount DEF CP!Next
  <2>3. UNCHANGED outbox \/ \E e \in Events : WP!Enqueued(e)
    <3>1. CASE EnqueueCommit(p)
      <4>1. ccur[p] \in Events
          BY <3>1 DEF EnqueueCommit, IInv, CP!IInv, CP!TypeInv, CP!CurInv, CP!Processing
      <4> QED
          BY <3>1, <4>1, WebhookEnqueues DEF EnqueueCommit
    <3> QED
        BY <1>2, <3>1 DEF CommitterStep, CommitterFault
  <2> QED
      BY <1>2, <2>2, <2>3
         DEF CommitterStep, CommitterFault, EnqueueCommit, ApiSees, CommittersSee, WebhooksSee
<1> QED
    BY <1>1, <1>2

\* A webhook worker, and its clock.
LEMMA WebhookTasks ==
    ASSUME IInv, \/ WebhookTick
                 \/ \E p \in Processes : WebhookStep(p) \/ WebhookFault(p)
    PROVE  ApiSees /\ CommittersSee /\ WebhooksSee /\ Settles
<1>1. UNCHANGED <<requests, committers>>
    BY DEF WebhookTick, WebhookStep, WebhookFault
<1>2. WP!Tick \/ \E p \in Processes : WP!Step(p) \/ WP!Fault(p)
    BY WebhookTime, WebhookSteps DEF WebhookTick, WebhookStep, WebhookFault
<1>3. WP!Next
    BY <1>2 DEF WP!Next
<1>4. Counts
    BY <1>2, FaultsCount DEF WP!Tick, Counts
<1>5. Settles /\ Enqueued' = Enqueued
    BY <1>2, WebhookSettles, EnqueuedStays
<1>6. Accepted' = Accepted
    BY <1>1 DEF committers, Accepted
<1> QED
    BY <1>1, <1>3, <1>4, <1>5, <1>6 DEF ApiSees, CommittersSee, WebhooksSee

\* A process starts or dies with both its tasks and the requests it serves.
LEMMA ProcessSteps ==
    ASSUME IInv, \E p \in Processes : Start(p) \/ Crash(p)
    PROVE  ApiSees /\ CommittersSee /\ WebhooksSee /\ Settles
<1>1. PICK p \in Processes : Start(p) \/ Crash(p)
    OBVIOUS
<1>2. CP!Step(p) \/ CP!Fault(p)
    BY <1>1, CommitterSteps DEF Start, Crash
<1>3. WP!Step(p) \/ WP!Fault(p)
    BY <1>1, WebhookSteps DEF Start, Crash
<1>4. CP!Next /\ WP!Next /\ Counts /\ Accepted' = Accepted
    BY <1>2, <1>3, FaultsCount, AcceptedStays DEF CP!Next, WP!Next
<1>5. Settles
    BY <1>3, WebhookSettles
<1>6. ApiSees
  <2>1. CASE Start(p)
      BY <1>4, <2>1 DEF Start, ApiSees
  <2>2. CASE Crash(p)
    <3>1. PICK S \in SUBSET {r \in Events : rpc[r] # "done"} : A!Fail(S)
        BY <2>2 DEF Crash
    <3> QED
        BY <3>1, ApiFail DEF ApiSees, AP!InFlight
  <2> QED
      BY <1>1, <2>1, <2>2
<1> QED
    BY <1>4, <1>5, <1>6 DEF CommittersSee, WebhooksSee

LEMMA ComponentSteps == IInv /\ [Next]_vars => ApiSees /\ CommittersSee /\ WebhooksSee
<1> SUFFICES ASSUME IInv, [Next]_vars PROVE ApiSees /\ CommittersSee /\ WebhooksSee
    OBVIOUS
<1>1. CASE UNCHANGED vars
    BY <1>1 DEF vars, committers, ApiSees, CommittersSee, WebhooksSee, Counts, Accepted, Enqueued
<1>2. CASE Next
    BY <1>2, RequestSteps, CommitterTasks, WebhookTasks, ProcessSteps DEF Next, Fault
<1> QED
    BY <1>1, <1>2

-----------------------------------------------------------------------------
(* The invariant is inductive.                                             *)

LEMMA ApiNext == IInv /\ ApiSees => AP!IInv' /\ AP!ToldInv'
<1> SUFFICES ASSUME IInv, ApiSees PROVE AP!IInv' /\ AP!ToldInv'
    OBVIOUS
<1>1. Counts => faults' \in 0 .. MaxFaults
    BY CountsInBounds
<1>2. CASE \E r \in Events : AP!Step(r)
  <2>1. [AP!Next]_(AP!vars)
      BY <1>2 DEF AP!Next
  <2> QED
      BY <1>2, <2>1, PasloeAssumption, AP!NextInv, AP!ToldNext DEF IInv
<1>3. CASE \E S \in SUBSET AP!InFlight : AP!Fail(S)
  <2>1. PICK S \in SUBSET AP!InFlight : AP!Fail(S)
      BY <1>3
  <2>2. CASE S = {}
    <3>1. UNCHANGED <<rpc, answer, found>> /\ Accepted' = Accepted
        BY <2>1, <2>2 DEF AP!Fail, IInv, AP!IInv, AP!TypeOK, Accepted
    <3>2. faults' \in 0 .. MaxFaults
        BY <1>1, <2>1, FaultsCount
    <3> QED
        BY <3>1, <3>2, PasloeAssumption, AP!FaultElsewhere, AP!ToldNext DEF IInv, Accepted
  <2>3. CASE S # {}
    <3>1. [AP!Next]_(AP!vars)
        BY <2>1, <2>3 DEF AP!Next
    <3> QED
        BY <1>3, <3>1, PasloeAssumption, AP!NextInv, AP!ToldNext DEF IInv
  <2> QED
      BY <2>2, <2>3
<1>4. CASE Accepted' = Accepted /\ UNCHANGED requests /\ Counts
    BY <1>1, <1>4, PasloeAssumption, AP!FaultElsewhere, AP!ToldNext DEF IInv, Accepted, requests
<1> QED
    BY <1>2, <1>3, <1>4 DEF ApiSees

LEMMA CommitterNext == IInv /\ CommittersSee => CP!IInv'
<1> SUFFICES ASSUME IInv, CommittersSee PROVE CP!IInv'
    OBVIOUS
<1>1. CASE CP!Next
  <2>1. [CP!Next]_(CP!vars)
      BY <1>1
  <2> QED
      BY <2>1, PasloeAssumption, CP!NextInv DEF IInv
<1>2. CASE Enqueued' = Enqueued /\ UNCHANGED committers /\ Counts
  <2>1. faults' \in Nat
      BY <1>2, CountsInBounds, PasloeAssumption
  <2>2. UNCHANGED <<clock, CP!db, cpc, cnow, ctodo, cbatch, ccur, cseen, ctx>>
      BY <1>2 DEF committers, CP!db, Enqueued
  <2> QED
      BY <2>1, <2>2, PasloeAssumption, CP!FaultElsewhere DEF IInv
<1> QED
    BY <1>1, <1>2 DEF CommittersSee

LEMMA WebhookNext == IInv /\ WebhooksSee => WP!IInv' /\ WP!EnqueuedInv'
<1> SUFFICES ASSUME IInv, WebhooksSee PROVE WP!IInv' /\ WP!EnqueuedInv'
    OBVIOUS
<1>1. CASE WP!Next
  <2>1. [WP!Next]_(WP!vars)
      BY <1>1
  <2> QED
      BY <2>1, PasloeAssumption, WP!NextInv, WP!EnqueuedNext DEF IInv
<1>2. CASE /\ UNCHANGED outbox \/ \E e \in Events : WP!Enqueued(e)
           /\ UNCHANGED webhookers /\ Counts
  <2>1. WP!Elsewhere
      BY <1>2, CountsInBounds DEF WP!Elsewhere, webhookers, WP!locals
  <2> QED
      BY <2>1, PasloeAssumption, WP!ElsewhereStep, WP!EnqueuedElsewhere DEF IInv
<1> QED
    BY <1>1, <1>2 DEF WebhooksSee

\* Every step of Pasloe keeps the invariants of all its components.
THEOREM Invariance == Spec => []IInv
<1>1. IInv /\ [Next]_vars => IInv'
    BY ComponentSteps, ApiNext, CommitterNext, WebhookNext DEF IInv
<1> QED
    BY <1>1, InitInv, PTL DEF Spec

-----------------------------------------------------------------------------
(* The theorems.                                                           *)

\* What is delivered has its row in the outbox, hence its event, hence a row in the
\* ingest log.
LEMMA CopiesAccepted ==
    ASSUME IInv, NEW e \in Events, NEW h \in Hooks, copies[e, h] > 0
    PROVE  e \in events /\ e \in Accepted
<1>1. e \in Enqueued
    BY DEF IInv, WP!EnqueuedInv, Enqueued
<1>2. CP!CommitAtomic
    BY DEF IInv, CP!IInv
<1>3. e \in events /\ ingress[e].status = "committed"
    BY <1>1, <1>2 DEF CP!CommitAtomic, Enqueued
<1> QED
    BY <1>3 DEF Accepted

\* No receiver hears of an event that GET /events does not return, or before its request
\* was answered with its id: from the 202 of append_event to the request of
\* deliver_to_webhook, through every crash and stale lease in between.
THEOREM Visibility == Spec => []DeliveredIsVisible
<1>1. IInv => DeliveredIsVisible
    BY CopiesAccepted DEF DeliveredIsVisible, IInv, AP!ToldInv, Accepted
<1> QED
    BY <1>1, Invariance, PTL

\* Of the events of one idempotency key receivers hear of one, at most.
THEOREM OncePerKey == Spec => []OneEventPerKey
<1>1. ASSUME IInv, NEW d \in Events, NEW e \in Events, NEW h \in Hooks, A!Duplicates(d, e),
             copies[d, h] > 0, copies[e, h] > 0
      PROVE  FALSE
  <2>1. AP!Duplicates(d, e) /\ d \in Accepted /\ e \in Accepted
      BY <1>1, CopiesAccepted DEF A!Duplicates, AP!Duplicates
  <2>2. AP!KeyInv
      BY <1>1 DEF IInv, AP!IInv
  <2> QED
      BY <2>1, <2>2 DEF AP!KeyInv, AP!Holds, Accepted
<1>2. ASSUME IInv, NEW e \in Events, NEW h \in Hooks
      PROVE  copies[e, h] = 0 \/ copies[e, h] > 0
  <2>1. copies \in [Events \X Hooks -> 0 .. MaxCopies]
      BY <1>2 DEF IInv, WP!IInv, WP!TypeOK
  <2>2. copies[<<e, h>>] \in 0 .. MaxCopies
      BY <2>1
  <2>3. \A n \in 0 .. MaxCopies : n = 0 \/ n > 0
      BY PasloeAssumption
  <2> QED
      BY <2>2, <2>3
<1>3. IInv => OneEventPerKey
    BY <1>1, <1>2 DEF OneEventPerKey
<1> QED
    BY <1>3, Invariance, PTL

-----------------------------------------------------------------------------
(* The refinement.                                                         *)

LEMMA StoreInit == Init => Store!Init
<1> SUFFICES ASSUME Init PROVE Store!Init
    OBVIOUS
<1>1. /\ ingress = [e \in Events |-> C!Absent]
      /\ outbox = [e \in Events |-> W!Absent]
      /\ events = {}
    BY DEF Init, C!Init, W!Init
<1>2. C!Absent.status = "absent" /\ W!Absent.status = "absent"
    BY DEF C!Absent, C!Queue!Fresh, W!Absent, W!Queue!Fresh
<1> QED
    BY <1>1, <1>2 DEF Store!Init

\* The abstract variable for the outbox.
Debt == [e \in Events |-> IF outbox[e].status = "absent" THEN "none" ELSE outbox[e].status]

LEMMA StoreStutter ==
    ASSUME Accepted' = Accepted, UNCHANGED <<events, outbox>>
    PROVE  UNCHANGED Store!vars
BY DEF Accepted, Store!vars

\* The COMMIT of a request accepts its event.
LEMMA StoreAccept == ASSUME NEW r \in Events, AcceptCommit(r) PROVE Store!Accept(r)
<1>1. r \notin Accepted /\ Accepted' = Accepted \union {r}
    BY DEF AcceptCommit, C!Accept, A!Commit, Accepted
<1>2. UNCHANGED <<events, outbox>>
    BY DEF AcceptCommit, C!Accept
<1> QED
    BY <1>1, <1>2 DEF Store!Accept, Accepted

\* As long as the outbox gets no new row, no event becomes visible.
LEMMA EventsFollow == IInv /\ IInv' /\ Enqueued' = Enqueued => UNCHANGED events
<1> SUFFICES ASSUME IInv, IInv', Enqueued' = Enqueued PROVE events' = events
    OBVIOUS
<1>1. events \subseteq Events /\ events' \subseteq Events
    BY DEF IInv, CP!IInv, CP!TypeInv, CP!TypeOK
<1>2. \A e \in Events : (e \in Enqueued <=> e \in events) /\ (e \in Enqueued' <=> e \in events')
    BY DEF IInv, CP!IInv, CP!CommitAtomic, Enqueued
<1> QED
    BY <1>1, <1>2

\* The COMMIT of a committer that adds to the outbox makes the event visible with it.
LEMMA StoreCommit ==
    ASSUME IInv, IInv', NEW p \in Processes, EnqueueCommit(p), NEW e \in Events, e = ccur[p]
    PROVE  Store!Commit(e)
<1>1. /\ ingress[e].status # "absent"
      /\ outbox[e].status = "absent"
      /\ outbox' = [outbox EXCEPT ![e] = W!Queue!Fresh(Now)]
    BY DEF EnqueueCommit, W!Enqueued, IInv, CP!IInv, CP!TypeInv, CP!CurInv, CP!TxInv,
       CP!TxReady, CP!Processing
<1>2. /\ outbox'[e].status = "pending"
      /\ \A d \in Events \ {e} : outbox'[d] = outbox[d]
    BY <1>1 DEF W!Queue!Fresh, IInv, WP!IInv, WP!TypeOK
<1>3. Accepted' = Accepted
  <2>1. CP!Step(p) \/ CP!Fault(p)
      BY CommitterSteps DEF EnqueueCommit, C!Process
  <2> QED
      BY <2>1, AcceptedStays
<1>4. e \notin events /\ events' = events \union {e}
  <2>1. events \subseteq Events /\ events' \subseteq Events
      BY DEF IInv, CP!IInv, CP!TypeInv, CP!TypeOK
  <2>2. \A d \in Events : /\ outbox[d].status # "absent" <=> d \in events
                          /\ outbox'[d].status # "absent" <=> d \in events'
      BY DEF IInv, CP!IInv, CP!CommitAtomic
  <2> QED
      BY <1>1, <1>2, <2>1, <2>2
<1>5. Debt[e] = "none" /\ Debt' = [Debt EXCEPT ![e] = "pending"]
    BY <1>1, <1>2 DEF Debt
<1> QED
    BY <1>1, <1>3, <1>4, <1>5 DEF Store!Commit, Accepted, Debt

\* A mark settles the debt, or finds it settled.
LEMMA StoreSettle ==
    ASSUME IInv, IInv', UNCHANGED ingress, Settles
    PROVE  [Store!Next]_(Store!vars)
<1>1. Accepted' = Accepted /\ UNCHANGED events
    BY EventsFollow, EnqueuedStays DEF Accepted
<1>2. CASE \A e \in Events : outbox'[e].status = outbox[e].status
  <2>1. Debt' = Debt
      BY <1>2 DEF Debt
  <2> QED
      BY <1>1, <2>1 DEF Store!vars, Accepted, Debt
<1>3. ASSUME NEW d \in Events, outbox[d].status # "absent", outbox'[d].status = "done",
             \A e \in Events \ {d} : outbox'[e].status = outbox[e].status
      PROVE  [Store!Next]_(Store!vars)
  <2>1. outbox[d].status \in {"pending", "done"}
      BY <1>3 DEF IInv, WP!IInv, WP!TypeOK, WP!Row
  <2>2. Debt' = [Debt EXCEPT ![d] = "done"]
      BY <1>3 DEF Debt
  <2>3. CASE outbox[d].status = "pending"
    <3>1. Store!Settle(d)
        BY <1>1, <2>2, <2>3 DEF Store!Settle, Accepted, Debt
    <3> QED
        BY <3>1 DEF Store!Next
  <2>4. CASE outbox[d].status = "done"
    <3>1. Debt' = Debt
        BY <2>2, <2>4 DEF Debt
    <3> QED
        BY <1>1, <3>1 DEF Store!vars, Accepted, Debt
  <2> QED
      BY <2>1, <2>3, <2>4
<1> QED
    BY <1>2, <1>3 DEF Settles

LEMMA StoreNext == IInv /\ IInv' /\ [Next]_vars => [Store!Next]_(Store!vars)
<1> SUFFICES ASSUME IInv, IInv', [Next]_vars PROVE [Store!Next]_(Store!vars)
    OBVIOUS
<1>1. CASE UNCHANGED vars \/ \E r \in Events : Handle(r) \/ FailRequest(r)
    BY <1>1, StoreStutter DEF vars, committers, Handle, FailRequest, Accepted
<1>2. CASE \E r \in Events : AcceptCommit(r)
    BY <1>2, StoreAccept DEF Store!Next
<1>3. CASE \E p \in Processes : EnqueueCommit(p)
  <2>1. PICK p \in Processes : EnqueueCommit(p)
      BY <1>3
  <2>2. ccur[p] \in Events
      BY <2>1 DEF EnqueueCommit, IInv, CP!IInv, CP!TypeInv, CP!CurInv, CP!Processing
  <2>3. PICK e \in Events : e = ccur[p]
      BY <2>2
  <2>4. Store!Commit(e)
      BY <2>1, <2>3, StoreCommit
  <2> QED
      BY <2>4 DEF Store!Next
<1>4. CASE CommitterTick \/ \E p \in Processes : CommitterStep(p) \/ CommitterFault(p)
  <2>1. UNCHANGED outbox
      BY <1>4 DEF CommitterTick, CommitterStep, CommitterFault
  <2>2. Accepted' = Accepted
    <3>1. CASE CommitterTick
        BY <3>1, CommitterTime DEF CommitterTick, CP!Tick, CP!db, Accepted
    <3>2. ASSUME NEW p \in Processes, CommitterStep(p) \/ CommitterFault(p)
          PROVE  Accepted' = Accepted
        BY <3>2, CommitterSteps, AcceptedStays DEF CommitterStep, CommitterFault
    <3> QED
        BY <1>4, <3>1, <3>2
  <2>3. UNCHANGED events
      BY <2>1, EventsFollow DEF Enqueued
  <2> QED
      BY <2>1, <2>2, <2>3, StoreStutter
<1>5. CASE WebhookTick \/ \E p \in Processes : WebhookStep(p) \/ WebhookFault(p)
  <2>1. Settles
      BY <1>5, WebhookTasks
  <2>2. UNCHANGED ingress
      BY <1>5 DEF WebhookTick, WebhookStep, WebhookFault, committers
  <2> QED
      BY <2>1, <2>2, StoreSettle
<1>6. CASE \E p \in Processes : Start(p) \/ Crash(p)
  <2>1. Settles
      BY <1>6, ProcessSteps
  <2>2. UNCHANGED ingress
      BY <1>6 DEF Start, Crash, C!Start, C!Crash, C!db
  <2> QED
      BY <2>1, <2>2, StoreSettle
<1> QED
    BY <1>1, <1>2, <1>3, <1>4, <1>5, <1>6 DEF Next, Fault

\* The whole system implements the event store: whatever any number of requests and
\* processes do and suffer, events are accepted once, become visible once and together
\* with their debt, and each debt is settled once.
THEOREM Refinement == Spec => RefinesEventStore
<1>1. Spec => Store!Init /\ [][Store!Next]_(Store!vars)
    BY StoreInit, StoreNext, Invariance, PTL DEF Spec
<1> QED
    BY <1>1 DEF RefinesEventStore, Store!Spec
=============================================================================
