-------------------------- MODULE WebhookLiveProofs --------------------------
(***************************************************************************)
(* The batches of the webhook workers: BatchSize bounds a claim, claims do *)
(* not deadlock, and when lease_seconds is enough for a whole batch of     *)
(* webhooks that time out, a receiver that answers is told once, as long   *)
(* as nothing has failed.  For any number of workers, rows and webhooks.   *)
(***************************************************************************)
EXTENDS WebhookLive, WebhookProofs, FiniteSetTheorems, WellFoundedInduction

-----------------------------------------------------------------------------
(* WebhookLive is WebhookWorker with a slower clock and punctual answers.  *)

LEMMA LiveNextNext == [LiveNext]_vars => [Next]_vars
BY DEF LiveNext, LiveStep, PunctualDeliver, PacedTick, Next, Step, Deliver

\* What is proved of the worker of _webhook_loop at any speed holds when statements
\* take no time.
THEOREM LiveImplementsSpec == LiveSpec => Spec
BY LiveNextNext, PTL DEF LiveSpec, Spec

-----------------------------------------------------------------------------
(* The size of a batch.                                                    *)

\* The rows of outbox_events.
Table == {e \in Rows : outbox[e].status # "absent"}

\* What a claim has taken and what it still means to take is a batch.
BatchInv ==
    \A w \in Workers :
        /\ IsFiniteSet(batch[w] \union todo[w])
        /\ Cardinality(batch[w] \union todo[w]) <= BatchSize

\* A set is at most as large as one that contains it.
LEMMA AtMost ==
    ASSUME NEW S, NEW T, T \subseteq S, IsFiniteSet(S), NEW n \in Nat, Cardinality(S) <= n
    PROVE  IsFiniteSet(T) /\ Cardinality(T) <= n /\ Cardinality(T) \in Nat
<1>1. T \in SUBSET S
    OBVIOUS
<1>2. IsFiniteSet(T) /\ Cardinality(T) <= Cardinality(S)
    BY <1>1, FS_Subset
<1>3. Cardinality(S) \in Nat /\ Cardinality(T) \in Nat
    BY <1>2, FS_CardinalityType
<1> QED
    BY <1>2, <1>3

\* So is a part of a batch.
LEMMA BatchPart ==
    ASSUME BatchInv, NEW w \in Workers, NEW T, T \subseteq batch[w] \union todo[w]
    PROVE  IsFiniteSet(T) /\ Cardinality(T) <= BatchSize
<1> DEFINE S == batch[w] \union todo[w]
<1>1. T \subseteq S /\ IsFiniteSet(S) /\ Cardinality(S) <= BatchSize
    BY DEF BatchInv
<1>2. BatchSize \in Nat
    BY NumbersAssumption
<1> HIDE DEF S
<1> QED
    BY <1>1, <1>2, AtMost

\* ORDER BY created_at, id orders the rows one after the other.
LEMMA RowOrder ==
    ASSUME TypeOK, NEW c \in Rows, NEW d \in Rows, NEW e \in Rows
    PROVE  /\ ~Queue!Before(outbox, d, d)
           /\ d # e => Queue!Before(outbox, d, e) \/ Queue!Before(outbox, e, d)
           /\ Queue!Before(outbox, c, d) /\ Queue!Before(outbox, d, e)
                => Queue!Before(outbox, c, e)
<1>1. outbox[c].at \in Nat /\ outbox[d].at \in Nat /\ outbox[e].at \in Nat
    BY DEF TypeOK, Row
<1> QED
    BY <1>1, HooksAssumption DEF Queue!Before

LEMMA SameCardinality == \A S : Queue!Cardinality(S) = Cardinality(S)
BY DEF Queue!Cardinality, Cardinality

\* LIMIT: of finitely many rows that are due, fewer than the limit precede each
\* candidate, a different number for each.
LEMMA CandidatesLimited ==
    ASSUME TypeOK, IsFiniteSet(Table), NEW t
    PROVE  /\ IsFiniteSet(Queue!Candidates(outbox, t, BatchSize))
           /\ Cardinality(Queue!Candidates(outbox, t, BatchSize)) <= BatchSize
<1> DEFINE due == {e \in Rows : Queue!Claimable(outbox[e], t)}
           earlier(e) == {d \in due : Queue!Before(outbox, d, e)}
           C == {e \in due : Cardinality(earlier(e)) < BatchSize}
           position == [e \in C |-> Cardinality(earlier(e))]
<1>1. Queue!Candidates(outbox, t, BatchSize) = C
  <2>1. DOMAIN outbox = Rows
      BY DEF TypeOK
  <2>2. \A e : Queue!Cardinality(earlier(e)) = Cardinality(earlier(e))
      BY SameCardinality
  <2> HIDE DEF earlier
  <2>3. C = {e \in due : Queue!Cardinality(earlier(e)) < BatchSize}
      BY <2>2
  <2> USE DEF earlier
  <2> QED
      BY <2>1, <2>3, Zenon DEF Queue!Candidates
<1>2. IsFiniteSet(due)
  <2>1. due \in SUBSET Table
      BY DEF Table, Queue!Claimable
  <2> QED
      BY <2>1, FS_Subset
<1>3. ASSUME NEW e \in due
      PROVE  IsFiniteSet(earlier(e)) /\ Cardinality(earlier(e)) \in Nat
  <2>1. earlier(e) \in SUBSET due
      OBVIOUS
  <2>2. IsFiniteSet(earlier(e))
      BY <1>2, <2>1, FS_Subset
  <2> QED
      BY <2>2, FS_CardinalityType
<1>4. ASSUME NEW d \in due, NEW e \in due, Queue!Before(outbox, d, e)
      PROVE  Cardinality(earlier(d)) # Cardinality(earlier(e))
  <2>1. earlier(d) \in SUBSET earlier(e)
      BY <1>4, RowOrder
  <2>2. d \in earlier(e) /\ d \notin earlier(d)
      BY <1>4, RowOrder
  <2> QED
      BY <1>3, <2>1, <2>2, FS_Subset
<1>5. BatchSize - 1 \in Int /\ BatchSize \in Nat
    BY NumbersAssumption
<1>6. position \in Injection(C, 0 .. BatchSize - 1)
  <2>1. \A e \in C : e \in due /\ Cardinality(earlier(e)) < BatchSize
      OBVIOUS
  <2>2. \A e \in C : Cardinality(earlier(e)) \in 0 .. BatchSize - 1
      BY <1>3, <1>5, <2>1
  <2>3. position \in [C -> 0 .. BatchSize - 1]
      BY <2>2
  <2>4. ASSUME NEW d \in C, NEW e \in C, d # e
        PROVE  position[d] # position[e]
      BY <1>4, <2>1, <2>4, RowOrder
  <2> HIDE DEF position
  <2> QED
      BY <2>3, <2>4 DEF Injection, IsInjective
<1>7. IsFiniteSet(0 .. BatchSize - 1) /\ Cardinality(0 .. BatchSize - 1) = BatchSize
  <2>1. IsFiniteSet(0 .. BatchSize - 1)
      BY <1>5, FS_Interval
  <2>2. Cardinality(0 .. BatchSize - 1) =
          IF 0 > BatchSize - 1 THEN 0 ELSE BatchSize - 1 - 0 + 1
      BY <1>5, FS_Interval
  <2> QED
      BY <1>5, <2>1, <2>2
<1> HIDE DEF C, position
<1> QED
    BY <1>1, <1>6, <1>7, FS_Injection

\* The batch changes by a claim that is new or by what is taken from it.
LEMMA BatchStep ==
    ASSUME IInv, [Next]_vars, NEW v \in Workers
    PROVE  \/ batch'[v] \union todo'[v] \subseteq batch[v] \union todo[v]
           \/ batch'[v] \union todo'[v] = Queue!Candidates(outbox, Now, BatchSize)
<1> USE DEF IInv, TypeOK
<1>1. CASE Tick \/ Env \/ UNCHANGED vars
    BY <1>1 DEF Tick, Env, ChangeHooks, Enqueue, vars, locals
<1>2. ASSUME NEW w \in Workers,
             \/ \E label \in {"idle", "dead"} : Reset(w, label)
             \/ \E rest \in SUBSET batch[w] : Continue(w, rest)
      PROVE  batch'[v] \union todo'[v] \subseteq batch[v] \union todo[v]
  <2>1. CASE \E label \in {"idle", "dead"} : Reset(w, label)
      BY <2>1 DEF Reset
  <2>2. ASSUME NEW rest \in SUBSET batch[w], Continue(w, rest)
        PROVE  batch'[v] \union todo'[v] \subseteq batch[v] \union todo[v]
    <3>1. batch' = [batch EXCEPT ![w] = rest] /\ UNCHANGED todo
        BY <2>2 DEF Continue
    <3> QED
        BY <3>1
  <2> QED
      BY <1>2, <2>1, <2>2
<1>3. ASSUME NEW w \in Workers,
             \/ ClaimCommit(w) \/ Mark(w) \/ RetryOverflows(w)
             \/ MarkUnheard(w) \/ Fail(w) \/ Crash(w)
      PROVE  batch'[v] \union todo'[v] \subseteq batch[v] \union todo[v]
    BY <1>2, <1>3 DEF ClaimCommit, Mark, RetryOverflows, MarkUnheard, Fail, Crash
<1>4. ASSUME NEW w \in Workers, Load(w)
      PROVE  batch'[v] \union todo'[v] \subseteq batch[v] \union todo[v]
  <2>1. PICK e \in batch[w] :
          \/ batch' = [batch EXCEPT ![w] = @ \ {e}] /\ UNCHANGED todo
          \/ Continue(w, batch[w] \ {e})
      BY <1>4 DEF Load
  <2> QED
      BY <1>2, <2>1
<1>5. ASSUME NEW w \in Workers, Recheck(w)
      PROVE  batch'[v] \union todo'[v] \subseteq batch[v] \union todo[v]
    BY <1>2, <1>5 DEF Recheck
<1>6. ASSUME NEW w \in Workers, ClaimSelect(w)
      PROVE  \/ batch'[v] \union todo'[v] \subseteq batch[v] \union todo[v]
             \/ batch'[v] \union todo'[v] = Queue!Candidates(outbox, Now, BatchSize)
  <2>1. CASE v = w
      BY <1>6, <2>1 DEF ClaimSelect, ClaimInv
  <2>2. CASE v # w
      BY <1>6, <2>2 DEF ClaimSelect
  <2> QED
      BY <2>1, <2>2
<1>7. ASSUME NEW w \in Workers, ClaimUpdate(w)
      PROVE  batch'[v] \union todo'[v] \subseteq batch[v] \union todo[v]
  <2>1. PICK e \in todo[w] :
          /\ todo' = [todo EXCEPT ![w] = @ \ {e}]
          /\ batch' \in {batch, [batch EXCEPT ![w] = @ \union {e}]}
      BY <1>7 DEF ClaimUpdate
  <2> QED
      BY <2>1
<1>8. ASSUME NEW w \in Workers,
             Start(w) \/ IdlePoll(w) \/ Deliver(w) \/ \E h \in Hooks : Refused(w, h)
      PROVE  batch'[v] \union todo'[v] \subseteq batch[v] \union todo[v]
    BY <1>8 DEF Start, IdlePoll, Deliver, Answered, Trickled, TimedOut, Retry, Refused,
       vars, locals
<1> HIDE DEF IInv, TypeOK
<1> QED
    BY <1>1, <1>3, <1>4, <1>5, <1>6, <1>7, <1>8 DEF Next, Step, Fault, Claim, Process

\* Rows come into the table one by one.
LEMMA TableStep ==
    ASSUME IInv, EnqueuedInv, [Next]_vars, IsFiniteSet(Table)
    PROVE  IsFiniteSet(Table')
<1>1. PICK d : Table' \subseteq Table \union {d}
  <2>1. CASE UNCHANGED outbox \/ StatusStep
      BY <2>1 DEF StatusStep, SameStatuses, Table
  <2>2. ASSUME NEW e \in Rows, Enqueue(e)
        PROVE  Table' \subseteq Table \union {e}
      BY <2>2 DEF Enqueue, Enqueued, Table, IInv, TypeOK
  <2> QED
      BY <2>1, <2>2, TickStatuses, WorkerStatuses
         DEF Next, Env, ChangeHooks, vars, StatusStep
<1>2. IsFiniteSet(Table \union {d})
    BY FS_AddElement
<1>3. Table' \in SUBSET (Table \union {d})
    BY <1>1
<1> QED
    BY <1>2, <1>3, FS_Subset

SizeInv == IsFiniteSet(Table) /\ BatchInv

LEMMA SizeInit == Init => SizeInv
<1> SUFFICES ASSUME Init PROVE SizeInv
    OBVIOUS
<1>1. Table = {}
    BY NewRows DEF Init, Table
<1>2. \A w \in Workers : batch[w] \union todo[w] = {}
    BY DEF Init
<1> QED
    BY <1>1, <1>2, FS_EmptySet, NumbersAssumption DEF SizeInv, BatchInv

LEMMA SizeNext == IInv /\ EnqueuedInv /\ SizeInv /\ [Next]_vars => SizeInv'
<1> SUFFICES ASSUME IInv, EnqueuedInv, SizeInv, [Next]_vars PROVE SizeInv'
    OBVIOUS
<1>1. IsFiniteSet(Table')
    BY TableStep DEF SizeInv
<1>2. ASSUME NEW v \in Workers
      PROVE  /\ IsFiniteSet(batch'[v] \union todo'[v])
             /\ Cardinality(batch'[v] \union todo'[v]) <= BatchSize
  <2>1. CASE batch'[v] \union todo'[v] \subseteq batch[v] \union todo[v]
      BY <2>1, BatchPart DEF SizeInv
  <2>2. CASE batch'[v] \union todo'[v] = Queue!Candidates(outbox, Now, BatchSize)
      BY <2>2, CandidatesLimited DEF SizeInv, IInv
  <2> QED
      BY <2>1, <2>2, BatchStep
<1> QED
    BY <1>1, <1>2 DEF SizeInv, BatchInv

\* The sizes hold throughout.
THEOREM SizeInvariance == Spec => [](IInv /\ EnqueuedInv /\ SizeInv)
BY Invariance, EnqueuedInit, EnqueuedNext, SizeInit, SizeNext, PTL DEF Spec

\* A worker never has more rows than PipelineConfig.batch_size to deliver, although
\* the LIMIT stands in one statement of claim_outbox_batch and the UPDATEs are others.
THEOREM BatchLimit == Spec => [](\A w \in Workers : Cardinality(batch[w]) <= BatchSize)
<1>1. SizeInv => \A w \in Workers : Cardinality(batch[w]) <= BatchSize
    BY BatchPart DEF SizeInv
<1> QED
    BY <1>1, SizeInvariance, PTL

-----------------------------------------------------------------------------
(* Claims do not deadlock, however many workers there are.                 *)

\* A set of naturals has a least element.
LEMMA LeastNumber ==
    ASSUME NEW S \in SUBSET Nat, S # {}
    PROVE  \E m \in S : \A n \in S : m <= n
<1> DEFINE R == OpToRel(<, Nat)
<1>1. \A m, n \in Nat : <<n, m>> \in R <=> n < m
    BY DEF OpToRel
<1>2. IsWellFoundedOn(R, Nat)
    BY NatLessThanWellFounded
<1> HIDE DEF R
<1>3. PICK m \in S : \A n \in S : ~(<<n, m>> \in R)
    BY <1>2, WFMin
<1>4. \A n \in S : ~(n < m)
    BY <1>1, <1>3
<1> QED
    BY <1>4

\* A claim holds rows of the table that come before all it has yet to lock.
OrderInv ==
    \A w \in Workers : pc[w] = "claim" =>
        /\ batch[w] \union todo[w] \subseteq Table
        /\ \A d \in batch[w], e \in todo[w] : Queue!Before(outbox, d, e)

\* Claims, marks and time keep a row's place.
LEMMA PlaceKept ==
    ASSUME NEW row \in Row, NEW w, NEW a, NEW n
    PROVE  /\ Queue!Claimed(row, w, n).at = row.at
           /\ Queue!Retried(row, a, n).at = row.at
           /\ Queue!Closed(row, "done").at = row.at
BY DEF Row, Queue!Claimed, Queue!Retried, Queue!Closed

\* No step moves a row of the table, or takes it out.
LEMMA PlacesStay ==
    ASSUME IInv, EnqueuedInv, [Next]_vars, NEW e \in Table
    PROVE  e \in Table' /\ outbox'[e].at = outbox[e].at
<1>1. e \in Rows /\ outbox[e].status # "absent" /\ outbox[e] \in Row
    BY DEF Table, IInv, TypeOK
<1>2. CASE UNCHANGED outbox
    BY <1>2 DEF Table
<1>3. ASSUME NEW d \in Rows, Enqueue(d)
      PROVE  outbox'[e] = outbox[e]
    BY <1>1, <1>3 DEF Enqueue, Enqueued, IInv, TypeOK
<1>4. StatusStep => outbox'[e].status # "absent"
    BY <1>1 DEF StatusStep, SameStatuses
<1>5. CASE Tick
  <2>1. outbox'[e] =
          [outbox[e] EXCEPT !.next_attempt_at = Older(@, 0),
                            !.lease_until = IF @ = Null THEN Null ELSE Older(@, 0)]
      BY <1>1, <1>5 DEF Tick
  <2>2. outbox'[e].at = outbox[e].at
      BY <1>1, <2>1 DEF Row
  <2> QED
      BY <1>1, <1>4, <1>5, <2>2, TickStatuses DEF Table, StatusStep
<1>6. ASSUME NEW w \in Workers, Settled(w), cur[w] \in Rows
      PROVE  outbox'[e].at = outbox[e].at
  <2> DEFINE new == IF AllSucceeded(w) THEN Queue!Closed(outbox[cur[w]], "done")
                    ELSE Queue!Retried(outbox[cur[w]], seen[w], Now)
  <2>1. outbox' = [outbox EXCEPT ![cur[w]] = new]
      BY <1>6 DEF Settled
  <2>2. e = cur[w] => new.at = outbox[e].at
      BY <1>1, PlaceKept
  <2> HIDE DEF new
  <2> QED
      BY <1>1, <2>1, <2>2 DEF IInv, TypeOK
<1>7. ASSUME NEW w \in Workers, Step(w) \/ Fault(w)
      PROVE  e \in Table' /\ outbox'[e].at = outbox[e].at
  <2>1. CASE Start(w) \/ IdlePoll(w) \/ ClaimSelect(w) \/ ClaimUpdate(w)
      BY <1>2, <2>1 DEF Start, IdlePoll, ClaimSelect, ClaimUpdate, vars
  <2>2. CASE Load(w) \/ Recheck(w) \/ RetryOverflows(w) \/ Fail(w) \/ Crash(w)
      BY <1>2, <2>2 DEF Load, Recheck, RetryOverflows, Fail, Crash
  <2>3. CASE Deliver(w) \/ \E h \in Hooks : Refused(w, h)
      BY <1>2, <2>3 DEF Deliver, Answered, Trickled, TimedOut, Retry, Refused
  <2>4. outbox'[e].status # "absent"
      BY <1>4, <1>7, WorkerStatuses
  <2>5. CASE Mark(w) \/ MarkUnheard(w)
    <3>1. Settled(w) /\ cur[w] \in Rows
        BY <2>5 DEF Mark, MarkUnheard, IInv, CallInv, Delivering
    <3> QED
        BY <1>1, <1>6, <2>4, <3>1 DEF Table
  <2>6. CASE ClaimCommit(w)
    <3>1. outbox'[e] = IF e \in batch[w] THEN Queue!Claimed(outbox[e], w, now[w])
                       ELSE outbox[e]
        BY <1>1, <2>6 DEF ClaimCommit
    <3>2. outbox'[e].at = outbox[e].at
        BY <1>1, <3>1, PlaceKept
    <3> QED
        BY <1>1, <2>4, <3>2 DEF Table
  <2> QED
      BY <1>7, <2>1, <2>2, <2>3, <2>5, <2>6 DEF Step, Fault, Claim, Process
<1>8. CASE Env \/ UNCHANGED vars
  <2>1. ASSUME NEW d \in Rows, Enqueue(d)
        PROVE  e \in Table' /\ outbox'[e].at = outbox[e].at
      BY <1>1, <1>3, <2>1 DEF Table
  <2> QED
      BY <1>2, <1>8, <2>1 DEF Env, ChangeHooks, vars
<1> QED
    BY <1>5, <1>7, <1>8 DEF Next

\* Who is at a claim after a step has just selected, is at its next UPDATE, or has done
\* nothing.
LEMMA ClaimMoves ==
    ASSUME IInv, [Next]_vars, NEW v \in Workers, pc'[v] = "claim"
    PROVE  \/ /\ batch'[v] = {}
              /\ todo'[v] = Queue!Candidates(outbox, Now, BatchSize)
           \/ pc[v] = "claim" /\ batch'[v] = batch[v] /\ todo'[v] = todo[v]
           \/ ClaimUpdate(v)
<1> USE DEF IInv, TypeOK
<1>1. CASE Tick \/ Env \/ UNCHANGED vars
    BY <1>1 DEF Tick, Env, ChangeHooks, Enqueue, vars, locals
<1>2. ASSUME NEW w \in Workers, Step(w) \/ Fault(w), v # w
      PROVE  pc'[v] = pc[v] /\ batch'[v] = batch[v] /\ todo'[v] = todo[v]
    BY <1>2 DEF Step, Fault, Claim, Process, Deliver, Start, IdlePoll, ClaimSelect,
       ClaimUpdate, ClaimCommit, Load, Recheck, Mark, RetryOverflows, Answered, Trickled,
       TimedOut, Retry, Refused, Fail, MarkUnheard, Crash, Reset, Continue, Goto, vars, locals
<1>3. CASE ClaimSelect(v)
    BY <1>3 DEF ClaimSelect, ClaimInv
<1>4. CASE IdlePoll(v) \/ Deliver(v) \/ \E h \in Hooks : Refused(v, h)
    BY <1>4 DEF IdlePoll, Deliver, Answered, Trickled, TimedOut, Retry, Refused, vars, locals
<1>5. CASE \/ Start(v) \/ ClaimCommit(v) \/ Mark(v) \/ RetryOverflows(v)
           \/ Fail(v) \/ MarkUnheard(v) \/ Crash(v)
    BY <1>5 DEF Start, ClaimCommit, Mark, RetryOverflows, Fail, MarkUnheard, Crash,
       Reset, Continue, Goto
<1>6. CASE Load(v)
  <2>1. PICK e \in batch[v] :
          IF Queue!HeldBy(outbox[e], v, Now) THEN Goto(v, "deliver")
          ELSE Continue(v, batch[v] \ {e})
      BY <1>6 DEF Load
  <2> QED
      BY <2>1 DEF Continue, Goto
<1>7. CASE Recheck(v)
    BY <1>7 DEF Recheck, Continue, Goto
<1> HIDE DEF IInv, TypeOK
<1> QED
    BY <1>1, <1>2, <1>3, <1>4, <1>5, <1>6, <1>7 DEF Next, Step, Fault, Claim, Process

LEMMA OrderNext == IInv /\ EnqueuedInv /\ OrderInv /\ [Next]_vars => OrderInv'
<1> SUFFICES ASSUME IInv, EnqueuedInv, OrderInv, [Next]_vars,
                    NEW v \in Workers, pc'[v] = "claim"
             PROVE  /\ batch'[v] \union todo'[v] \subseteq Table'
                    /\ \A d \in batch'[v], e \in todo'[v] : Queue!Before(outbox', d, e)
    BY DEF OrderInv, Queue!Before
<1>1. \A e \in Table : e \in Table' /\ outbox'[e].at = outbox[e].at
    BY PlacesStay
<1>2. CASE batch'[v] = {} /\ todo'[v] = Queue!Candidates(outbox, Now, BatchSize)
  <2>1. todo'[v] \subseteq Table
      BY <1>2 DEF Queue!Candidates, Queue!Claimable, Table, IInv, TypeOK
  <2> QED
      BY <1>1, <1>2, <2>1
<1>3. CASE pc[v] = "claim" /\ batch'[v] = batch[v] /\ todo'[v] = todo[v]
    BY <1>1, <1>3 DEF OrderInv, Queue!Before
<1>4. CASE ClaimUpdate(v)
  <2>1. PICK e \in todo[v] :
          /\ Queue!First(outbox, todo[v], e)
          /\ todo' = [todo EXCEPT ![v] = @ \ {e}]
          /\ batch' \in {batch, [batch EXCEPT ![v] = @ \union {e}]}
      BY <1>4 DEF ClaimUpdate, IInv, TypeOK
  <2>2. /\ todo'[v] = todo[v] \ {e} /\ batch'[v] \subseteq batch[v] \union {e}
        /\ outbox' = outbox /\ pc[v] = "claim"
      BY <1>4, <2>1 DEF ClaimUpdate, IInv, TypeOK
  <2> QED
      BY <1>1, <2>1, <2>2 DEF OrderInv, Queue!First
<1> QED
    BY <1>2, <1>3, <1>4, ClaimMoves

\* Rows of the table that come after e.
After(e) == {d \in Table : Queue!Before(outbox, e, d)}

\* Of finitely many rows, fewer come after a later one.
LEMMA FewerAfter ==
    ASSUME TypeOK, IsFiniteSet(Table), NEW d \in Table, NEW e \in Table,
           Queue!Before(outbox, d, e)
    PROVE  /\ Cardinality(After(d)) \in Nat /\ Cardinality(After(e)) \in Nat
           /\ Cardinality(After(e)) < Cardinality(After(d))
<1>1. IsFiniteSet(After(d)) /\ IsFiniteSet(After(e))
  <2>1. After(d) \in SUBSET Table /\ After(e) \in SUBSET Table
      BY DEF After
  <2> QED
      BY <2>1, FS_Subset
<1>2. Table \subseteq Rows
    BY DEF Table
<1>3. After(e) \subseteq After(d)
    BY <1>2, RowOrder DEF After
<1>4. e \in After(d) /\ e \notin After(e)
    BY <1>2, RowOrder DEF After
<1>5. Cardinality(After(d)) \in Nat /\ Cardinality(After(e)) \in Nat
    BY <1>1, FS_CardinalityType
<1>6. /\ Cardinality(After(e)) <= Cardinality(After(d))
      /\ Cardinality(After(d)) = Cardinality(After(e)) => After(d) = After(e)
    BY <1>1, <1>3, FS_Subset
<1> QED
    BY <1>4, <1>5, <1>6

\* With the locks in that order, among any set of workers one can go on: a claim waits
\* for claims only, and one of those that wait for the last row would have to wait for
\* a later one.
LEMMA SomeoneGoesOn ==
    ASSUME IInv, OrderInv, IsFiniteSet(Table)
    PROVE  NoLockCycle
<1> SUFFICES ASSUME NEW S \in SUBSET Workers, S # {},
                    \A w \in S : \E v \in S \ {w} : Waits(w, v)
             PROVE  FALSE
    BY DEF NoLockCycle
<1> DEFINE Awaited == {e \in Table : \E v \in S : pc[v] = "claim" /\ e \in batch[v]}
           T == {Cardinality(After(e)) : e \in Awaited}
<1>1. PICK first \in S : pc[first] = "claim"
    BY DEF Waits
<1>2. ASSUME NEW w \in S, pc[w] = "claim"
      PROVE  \E e \in todo[w] : e \in Awaited
  <2>1. PICK v \in S : Waits(w, v)
      OBVIOUS
  <2>2. PICK e \in todo[w] : pc[v] = "claim" /\ e \in batch[v]
      BY <1>2, <2>1 DEF Waits
  <2> QED
      BY <2>2 DEF OrderInv
<1>3. Awaited # {}
    BY <1>1, <1>2
<1>4. \A d \in Awaited : \E e \in Awaited : Queue!Before(outbox, d, e)
    BY <1>2 DEF OrderInv
<1>5. Awaited \subseteq Table
    OBVIOUS
<1> HIDE DEF Awaited
<1>6. T \subseteq Nat /\ T # {}
    BY <1>3, <1>4, <1>5, FewerAfter DEF IInv
<1>7. PICK m \in T : \A n \in T : m <= n
    BY <1>6, LeastNumber
<1>8. PICK d \in Awaited : m = Cardinality(After(d))
    BY <1>7
<1>9. PICK e \in Awaited : Queue!Before(outbox, d, e)
    BY <1>4
<1>10. Cardinality(After(e)) < Cardinality(After(d)) /\ Cardinality(After(e)) \in Nat
       /\ Cardinality(After(d)) \in Nat
    BY <1>5, <1>9, FewerAfter DEF IInv
<1> QED
    BY <1>7, <1>8, <1>9, <1>10

\* No set of webhook workers waits for each other: the UPDATEs of claim_outbox_batch
\* follow ORDER BY created_at, id, whatever the size of the table and of the batches.
THEOREM NoDeadlock == Spec => []NoLockCycle
<1>1. Init => OrderInv
    BY DEF Init, OrderInv
<1>2. IInv /\ SizeInv /\ OrderInv => NoLockCycle
    BY SomeoneGoesOn DEF SizeInv
<1> QED
    BY <1>1, <1>2, OrderNext, SizeInvariance, PTL DEF Spec

-----------------------------------------------------------------------------
(* Leases that cover a batch.                                              *)

\* From its n-th request on, a delivery to a webhook that hangs ends within rest[n]:
\* its time-outs, and its sleeps in between.
LastsAtMost(rest) ==
    /\ rest \in [1 .. MaxTries -> Nat]
    /\ rest[MaxTries] >= Timeout
    /\ \A n \in 1 .. MaxTries - 1 : rest[n] >= Timeout + Backoff * 2^(n - 1) + rest[n + 1]

Holding(w) == pc[w] = "work" \/ Delivering(w)

\* What a claim has updated, or the rows a worker still has to settle.
Mine(w) == batch[w] \union (IF Delivering(w) THEN {cur[w]} ELSE {})

\* w may work on the row for another t.
Lease(row, w, t) ==
    /\ row.status = "pending"
    /\ row.lease_owner = w
    /\ row.lease_until # Null
    /\ row.lease_until >= Now + t

\* The time it takes to deliver rows that are not begun.
Cost(rest, S) == Cardinality(S) * rest[1]

\* The time a delivery takes that is under way.
Remaining(rest, call) ==
    IF call.is = "request" THEN call.left + (rest[call.tries] - Timeout)
    ELSE IF call.is = "sleep" THEN call.left + rest[call.tries + 1]
    ELSE 0

\* Leases cover what is left to do, and no row is left to do twice.
LeaseInv(rest, w) ==
    /\ Delivering(w) => cur[w] \notin batch[w]
    /\ Holding(w) => \A e \in Mine(w) :
          /\ Lease(outbox[e], w, Cost(rest, batch[w]))
          /\ pc[w] = "deliver" => \A h \in Hooks :
                Lease(outbox[e], w, Cost(rest, batch[w]) + Remaining(rest, calls[w][h]))

\* A claim takes no time, and what it has updated is free until it commits.
FreeInv(w) ==
    pc[w] = "claim" =>
        /\ now[w] = Now
        /\ \A e \in batch[w] : Queue!StillClaimable(outbox[e], Now)

\* Webhooks that answer accept; all have returned when the outcome is written.
AnswerInv(w) ==
    /\ pc[w] = "mark" => \A h \in Hooks : calls[w][h].is \in {"idle", "ok", "failed"}
    /\ Delivering(w) /\ Healthy(cur[w]) => \A h \in Hooks :
          /\ calls[w][h].is \in {"idle", "request", "ok"}
          /\ calls[w][h].is # "idle" => cur[w] \in Subscribes[h]

WorkerInv(rest, w) == LeaseInv(rest, w) /\ FreeInv(w) /\ AnswerInv(w)

\* A receiver that answers has been told once, and its row is done or about to be.
ToldInv ==
    \A e \in Rows, h \in Hooks : Healthy(e) /\ copies[e, h] > 0 =>
        /\ copies[e, h] = 1
        /\ \/ outbox[e].status = "done"
           \/ \E w \in Workers : Delivering(w) /\ cur[w] = e /\ calls[w][h].is = "ok"

PacedInv(rest) == (\A w \in Workers : WorkerInv(rest, w)) /\ ClaimsApart /\ ToldInv

\* What the steps are taken from.
Paced(rest) ==
    /\ LastsAtMost(rest)
    /\ BatchSize * rest[1] <= LeaseSeconds
    /\ IInv /\ BatchInv /\ PacedInv(rest)

\* There are such bounds: each from the next, and the last is a time-out.
LEMMA LastsExist == \E rest : LastsAtMost(rest)
<1> DEFINE Pause(n) == Backoff * 2^(n - 1)
           Covers(f, n) == f[n] >= Timeout + Pause(n) + f[n + 1]
           From(f, k) == f[MaxTries] >= Timeout /\ \A n \in k .. MaxTries - 1 : Covers(f, n)
           K == {k \in 1 .. MaxTries : \E f \in [1 .. MaxTries -> Nat] : From(f, k)}
<1>1. MaxTries \in Nat /\ MaxTries > 0 /\ Timeout \in Nat
    BY NumbersAssumption
<1>2. \A n \in 1 .. MaxTries : Pause(n) \in Nat
    BY BackoffAssumption
<1> HIDE DEF Pause
<1>3. MaxTries \in K
  <2> DEFINE f == [n \in 1 .. MaxTries |-> Timeout]
  <2>1. f \in [1 .. MaxTries -> Nat] /\ f[MaxTries] = Timeout
      BY <1>1
  <2>2. MaxTries .. MaxTries - 1 = {}
      BY <1>1
  <2> HIDE DEF f, Covers
  <2>3. From(f, MaxTries)
      BY <1>1, <2>1, <2>2
  <2> QED
      BY <1>1, <2>1, <2>3
<1>4. PICK k \in K : \A j \in K : k <= j
  <2> HIDE DEF From
  <2>1. K \in SUBSET Nat /\ K # {}
      BY <1>1, <1>3
  <2> QED
      BY <2>1, LeastNumber
<1>5. PICK f \in [1 .. MaxTries -> Nat] : From(f, k)
    BY <1>4
<1>6. k \in 1 .. MaxTries
    BY <1>4
<1>7. k = 1
  <2> SUFFICES ASSUME k # 1 PROVE FALSE
      OBVIOUS
  <2>1. k - 1 \in 1 .. MaxTries /\ k - 1 # MaxTries
      BY <1>1, <1>6
  <2>2. Pause(k - 1) \in Nat /\ f[k] \in Nat
      BY <1>2, <1>6, <2>1
  <2> DEFINE most == Timeout + Pause(k - 1) + f[k]
             g == [f EXCEPT ![k - 1] = most]
  <2>3. most \in Nat
      BY <1>1, <2>2
  <2>4. /\ g \in [1 .. MaxTries -> Nat] /\ g[k - 1] = most
        /\ \A n \in 1 .. MaxTries : n # k - 1 => g[n] = f[n]
    <3> HIDE DEF most
    <3> QED
        BY <2>1, <2>3
  <2> HIDE DEF g
  <2>5. Covers(g, k - 1)
    <3>1. (k - 1) + 1 = k /\ g[k] = f[k]
        BY <1>1, <1>6, <2>4
    <3> QED
        BY <2>3, <2>4, <3>1
  <2>6. ASSUME NEW n \in k .. MaxTries - 1
        PROVE  Covers(g, n)
    <3>1. Covers(f, n)
        BY <1>5
    <3>2. n \in 1 .. MaxTries /\ n + 1 \in 1 .. MaxTries /\ n # k - 1 /\ n + 1 # k - 1
        BY <1>1, <1>6
    <3>3. g[n] = f[n] /\ g[n + 1] = f[n + 1]
        BY <2>4, <3>2
    <3> QED
        BY <3>1, <3>3
  <2>7. From(g, k - 1)
    <3>1. g[MaxTries] >= Timeout
        BY <1>1, <1>5, <2>1, <2>4
    <3>2. \A n \in k - 1 .. MaxTries - 1 : n = k - 1 \/ n \in k .. MaxTries - 1
        BY <1>1, <1>6
    <3> HIDE DEF Covers
    <3> QED
        BY <2>5, <2>6, <3>1, <3>2
  <2> HIDE DEF From
  <2>8. k - 1 \in K
      BY <2>1, <2>4, <2>7
  <2> HIDE DEF K
  <2> QED
      BY <1>4, <1>6, <2>8
<1> QED
    BY <1>5, <1>7 DEF LastsAtMost, Pause

LEMMA Times ==
    \A a, b, c \in Nat :
        a * c \in Nat /\ (a <= b => a * c <= b * c) /\ (a + 1) * c = a * c + c
OBVIOUS

\* The time of a batch: of each of its rows the time of a delivery.
LEMMA Costs ==
    ASSUME NEW rest, LastsAtMost(rest), NEW S, IsFiniteSet(S)
    PROVE  /\ Cost(rest, S) \in Nat /\ rest[1] \in Nat
           /\ \A e \in S : Cost(rest, S) = Cost(rest, S \ {e}) + rest[1]
           /\ Cardinality(S) <= BatchSize => Cost(rest, S) <= BatchSize * rest[1]
<1>1. rest[1] \in Nat /\ BatchSize \in Nat
    BY NumbersAssumption DEF LastsAtMost
<1>2. Cardinality(S) \in Nat
    BY FS_CardinalityType
<1>3. ASSUME NEW e \in S
      PROVE  Cost(rest, S) = Cost(rest, S \ {e}) + rest[1]
  <2>1. IsFiniteSet(S \ {e}) /\ Cardinality(S \ {e}) = Cardinality(S) - 1
      BY FS_RemoveElement
  <2>2. Cardinality(S \ {e}) \in Nat
      BY <2>1, FS_CardinalityType
  <2>3. Cardinality(S) = Cardinality(S \ {e}) + 1
      BY <1>2, <2>1
  <2> QED
      BY <1>1, <2>2, <2>3, Times DEF Cost
<1> QED
    BY <1>1, <1>2, <1>3, Times DEF Cost

\* From every request on there is a time-out to wait for.
LEMMA Rests ==
    ASSUME NEW rest, LastsAtMost(rest), NEW n \in 1 .. MaxTries
    PROVE  /\ rest[n] \in Nat /\ rest[n] >= Timeout
           /\ n < MaxTries => /\ n + 1 \in 1 .. MaxTries
                              /\ rest[n] >= Timeout + Backoff * 2^(n - 1) + rest[n + 1]
<1>1. rest[n] \in Nat /\ (n < MaxTries => n + 1 \in 1 .. MaxTries /\ n \in 1 .. MaxTries - 1)
    BY NumbersAssumption DEF LastsAtMost
<1>2. CASE n = MaxTries
    BY <1>1, <1>2, NumbersAssumption DEF LastsAtMost
<1>3. CASE n < MaxTries
  <2>1. rest[n + 1] \in Nat /\ Backoff * 2^(n - 1) \in Nat
      BY <1>1, <1>3, BackoffAssumption DEF LastsAtMost
  <2>2. rest[n] >= Timeout + Backoff * 2^(n - 1) + rest[n + 1]
      BY <1>1, <1>3 DEF LastsAtMost
  <2> DEFINE pause == Backoff * 2^(n - 1)
  <2>3. pause \in Nat /\ rest[n] >= Timeout + pause + rest[n + 1]
      BY <2>1, <2>2
  <2> HIDE DEF pause
  <2>4. rest[n] >= Timeout
      BY <1>1, <2>1, <2>3, NumbersAssumption
  <2> QED
      BY <1>1, <1>3, <2>2, <2>4
<1> QED
    BY <1>2, <1>3, NumbersAssumption

\* What remains of a delivery shrinks as its timer runs.
LEMMA Remains ==
    ASSUME NEW rest, LastsAtMost(rest), NEW call \in Call,
           call.is \in {"request", "sleep"} => call.tries > 0,
           call.is = "sleep" => call.tries < MaxTries
    PROVE  LET older == [call EXCEPT !.left = Older(@, 0)]
           IN  /\ Remaining(rest, call) \in Nat /\ Remaining(rest, older) \in Nat
               /\ Pausing(call) => Remaining(rest, older) = Remaining(rest, call) - 1
               /\ call.is \notin {"request", "sleep"} => Remaining(rest, older) = 0
<1> DEFINE left == Older(call.left, 0)
           older == [call EXCEPT !.left = left]
<1>1. /\ call.left \in Nat /\ call.tries \in 0 .. MaxTries
      /\ left \in Nat /\ (call.left > 0 => left = call.left - 1)
    BY DEF Call, Older
<1> HIDE DEF left
<1>2. older.is = call.is /\ older.tries = call.tries /\ older.left = left
    BY DEF Call
<1> HIDE DEF older
<1>3. CASE call.is = "request"
  <2>1. call.tries \in 1 .. MaxTries
      BY <1>1, <1>3, NumbersAssumption
  <2>2. rest[call.tries] \in Nat /\ rest[call.tries] >= Timeout
      BY <2>1, Rests
  <2>3. /\ Remaining(rest, call) = call.left + (rest[call.tries] - Timeout)
        /\ Remaining(rest, older) = left + (rest[call.tries] - Timeout)
      BY <1>2, <1>3 DEF Remaining
  <2>4. /\ Remaining(rest, call) \in Nat /\ Remaining(rest, older) \in Nat
        /\ call.left > 0 => Remaining(rest, older) = Remaining(rest, call) - 1
      BY <1>1, <2>2, <2>3, NumbersAssumption
  <2> QED
      BY <1>3, <2>4 DEF Pausing, older, left
<1>4. CASE call.is = "sleep"
  <2>1. call.tries \in 1 .. MaxTries /\ call.tries < MaxTries
      BY <1>1, <1>4, NumbersAssumption
  <2>2. call.tries + 1 \in 1 .. MaxTries
      BY <2>1, NumbersAssumption
  <2>3. rest[call.tries + 1] \in Nat
      BY <2>2 DEF LastsAtMost
  <2>4. /\ Remaining(rest, call) = call.left + rest[call.tries + 1]
        /\ Remaining(rest, older) = left + rest[call.tries + 1]
      BY <1>2, <1>4 DEF Remaining
  <2>5. /\ Remaining(rest, call) \in Nat /\ Remaining(rest, older) \in Nat
        /\ call.left > 0 => Remaining(rest, older) = Remaining(rest, call) - 1
      BY <1>1, <2>3, <2>4
  <2> QED
      BY <1>4, <2>5 DEF Pausing, older, left
<1>5. CASE call.is \notin {"request", "sleep"}
  <2>1. Remaining(rest, call) = 0 /\ Remaining(rest, older) = 0
      BY <1>2, <1>5 DEF Remaining
  <2> QED
      BY <1>5, <2>1 DEF Pausing, older, left
<1> QED
    BY <1>3, <1>4, <1>5

\* A lease that lasts longer lasts long enough, and stands now.
LEMMA Leases ==
    ASSUME NEW row \in Row, NEW w, NEW s \in Nat, Lease(row, w, s)
    PROVE  /\ \A t \in Nat : t <= s => Lease(row, w, t)
           /\ Queue!HeldBy(row, w, Now) /\ ~Queue!Unleased(row, Now)
<1>1. row.lease_until \in Nat
    BY DEF Row, Lease
<1> QED
    BY <1>1, NumbersAssumption DEF Lease, Queue!HeldBy, Queue!Unleased

\* Whose batch stands: a claim under way, or a holder of leases.
Bound(w) == pc[w] = "claim" \/ Holding(w)

LEMMA MineRows ==
    ASSUME IInv, NEW w \in Workers
    PROVE  Mine(w) \subseteq Rows /\ \A e \in Mine(w) : outbox[e] \in Row
BY DEF IInv, TypeOK, CallInv, Mine

\* What stands of a batch, in numbers.
LEMMA BatchCost ==
    ASSUME NEW rest, Paced(rest), NEW w \in Workers
    PROVE  /\ Cost(rest, batch[w]) \in Nat /\ rest[1] \in Nat
           /\ Cost(rest, batch[w]) <= LeaseSeconds
           /\ \A e \in batch[w] :
                /\ Cost(rest, batch[w] \ {e}) \in Nat
                /\ Cost(rest, batch[w]) = Cost(rest, batch[w] \ {e}) + rest[1]
<1>1. IsFiniteSet(batch[w]) /\ Cardinality(batch[w]) <= BatchSize
    BY BatchPart DEF Paced
<1>2. Cost(rest, batch[w]) \in Nat /\ rest[1] \in Nat /\ LastsAtMost(rest)
    BY <1>1, Costs DEF Paced
<1>3. BatchSize * rest[1] \in Nat
    BY <1>2, Times, NumbersAssumption
<1>4. Cost(rest, batch[w]) <= LeaseSeconds
    BY <1>1, <1>2, <1>3, Costs, NumbersAssumption DEF Paced
<1>5. \A e \in batch[w] : IsFiniteSet(batch[w] \ {e})
    BY <1>1, FS_RemoveElement
<1> QED
    BY <1>1, <1>2, <1>4, <1>5, Costs

\* The leases of a holder stand.
LEMMA HeldNow ==
    ASSUME NEW rest, Paced(rest), NEW w \in Workers, Holding(w), NEW e \in Mine(w)
    PROVE  /\ Queue!HeldBy(outbox[e], w, Now) /\ ~Queue!Unleased(outbox[e], Now)
           /\ outbox[e].status = "pending" /\ outbox[e].lease_owner = w
<1>1. outbox[e] \in Row /\ Cost(rest, batch[w]) \in Nat
    BY MineRows, BatchCost DEF Paced
<1>2. Lease(outbox[e], w, Cost(rest, batch[w]))
    BY DEF Paced, PacedInv, WorkerInv, LeaseInv
<1> QED
    BY <1>1, <1>2, Leases DEF Lease

\* A row is one worker's: leases have one owner, and claims take what is free.
LEMMA Apart ==
    ASSUME NEW rest, Paced(rest), NEW v \in Workers, NEW w \in Workers, v # w,
           Bound(v), Bound(w)
    PROVE  Mine(v) \intersect Mine(w) = {}
<1>1. ASSUME NEW u \in Workers, pc[u] = "claim", NEW e \in Mine(u)
      PROVE  e \in batch[u] /\ Queue!Unleased(outbox[e], Now)
    BY <1>1 DEF Paced, PacedInv, WorkerInv, FreeInv, Mine, Delivering, Queue!StillClaimable
<1>2. CASE pc[v] = "claim" /\ pc[w] = "claim"
    BY <1>1, <1>2 DEF Paced, PacedInv, ClaimsApart
<1>3. CASE Holding(v) /\ Holding(w)
    BY <1>3, HeldNow
<1>4. CASE pc[v] = "claim" /\ Holding(w)
    BY <1>1, <1>4, HeldNow
<1>5. CASE Holding(v) /\ pc[w] = "claim"
    BY <1>1, <1>5, HeldNow
<1> QED
    BY <1>2, <1>3, <1>4, <1>5 DEF Bound

\* A worker that does not move, and whose rows do not, stays within its leases.
LEMMA Framed ==
    ASSUME NEW rest, NEW v \in Workers, WorkerInv(rest, v),
           pc'[v] = pc[v], now'[v] = now[v], batch'[v] = batch[v], cur'[v] = cur[v],
           calls'[v] = calls[v],
           Bound(v) => \A e \in Mine(v) : outbox'[e] = outbox[e]
    PROVE  WorkerInv(rest, v)'
<1>1. Delivering(v)' = Delivering(v) /\ Holding(v)' = Holding(v) /\ Mine(v)' = Mine(v)
    BY DEF Delivering, Holding, Mine
<1>2. LeaseInv(rest, v)'
    BY <1>1 DEF WorkerInv, LeaseInv, Bound
<1>3. FreeInv(v)'
    BY DEF WorkerInv, FreeInv, Bound, Mine
<1>4. AnswerInv(v)'
    BY <1>1 DEF WorkerInv, AnswerInv
<1> QED
    BY <1>2, <1>3, <1>4 DEF WorkerInv

\* No claim takes more.
LEMMA ApartStays ==
    ASSUME ClaimsApart,
           \A v \in Workers : pc'[v] = "claim" =>
              batch'[v] = {} \/ (pc[v] = "claim" /\ batch'[v] \subseteq batch[v])
    PROVE  ClaimsApart'
<1> SUFFICES ASSUME NEW v \in Workers, NEW w \in Workers,
                    v # w, pc'[v] = "claim", pc'[w] = "claim"
             PROVE  batch'[v] \intersect batch'[w] = {}
    BY DEF ClaimsApart
<1> QED
    BY DEF ClaimsApart

\* Nobody is told anything, and who was told is remembered.
LEMMA ToldStays ==
    ASSUME ToldInv, UNCHANGED copies,
           \A e \in Rows : outbox[e].status = "done" => outbox'[e].status = "done",
           \A v \in Workers, h \in Hooks :
              Delivering(v) /\ Healthy(cur[v]) /\ calls[v][h].is = "ok" =>
                 \/ outbox'[cur[v]].status = "done"
                 \/ Delivering(v)' /\ cur'[v] = cur[v] /\ calls'[v][h].is = "ok"
    PROVE  ToldInv'
<1> SUFFICES ASSUME NEW e \in Rows, NEW h \in Hooks, Healthy(e), copies[e, h] > 0
             PROVE  /\ copies[e, h] = 1
                    /\ \/ outbox'[e].status = "done"
                       \/ \E w \in Workers :
                            Delivering(w)' /\ cur'[w] = e /\ calls'[w][h].is = "ok"
    BY ZenonT(40) DEF ToldInv
<1>1. copies[e, h] = 1
    BY DEF ToldInv
<1>2. CASE outbox[e].status = "done"
    BY <1>1, <1>2
<1>3. CASE outbox[e].status # "done"
  <2>1. PICK w \in Workers : Delivering(w) /\ cur[w] = e /\ calls[w][h].is = "ok"
      BY <1>3 DEF ToldInv
  <2> QED
      BY <1>1, <2>1
<1> QED
    BY <1>2, <1>3

\* Only w moves, and only what is w's in the table.
MovesOnly(w) ==
    \A v \in Workers \ {w} :
        /\ pc'[v] = pc[v] /\ now'[v] = now[v] /\ batch'[v] = batch[v] /\ cur'[v] = cur[v]
        /\ calls'[v] = calls[v]
        /\ Bound(v) => \A e \in Mine(v) : outbox'[e] = outbox[e]

\* The others are not concerned.
LEMMA OthersStay ==
    ASSUME NEW rest, Paced(rest), NEW w \in Workers, MovesOnly(w), WorkerInv(rest, w)'
    PROVE  (\A v \in Workers : WorkerInv(rest, v))'
<1>1. ASSUME NEW v \in Workers \ {w}
      PROVE  WorkerInv(rest, v)'
  <2>1. /\ WorkerInv(rest, v) /\ pc'[v] = pc[v] /\ now'[v] = now[v] /\ batch'[v] = batch[v]
        /\ cur'[v] = cur[v] /\ calls'[v] = calls[v]
        /\ Bound(v) => \A e \in Mine(v) : outbox'[e] = outbox[e]
      BY <1>1 DEF Paced, PacedInv, MovesOnly
  <2> QED
      BY <2>1, Framed
<1> QED
    BY <1>1

-----------------------------------------------------------------------------
(* The steps.                                                              *)

\* A worker without a batch that concerns it.
LEMMA Unbound ==
    ASSUME NEW rest, NEW w \in Workers, ~Bound(w)'
    PROVE  WorkerInv(rest, w)'
BY DEF Bound, Holding, Delivering, WorkerInv, LeaseInv, FreeInv, AnswerInv

\* Polls and claims up to their COMMIT.
LEMMA ClaimPaced ==
    ASSUME NEW rest, Paced(rest), NEW w \in Workers,
           Start(w) \/ IdlePoll(w) \/ ClaimSelect(w) \/ ClaimUpdate(w)
    PROVE  PacedInv(rest)'
<1> USE DEF TypeOK
<1>1. TypeOK /\ ClaimInv /\ ToldInv /\ ClaimsApart /\ WorkerInv(rest, w)
    BY DEF Paced, PacedInv, IInv
<1>2. /\ UNCHANGED <<outbox, copies, cur, calls>>
      /\ \A v \in Workers \ {w} : pc'[v] = pc[v] /\ now'[v] = now[v] /\ batch'[v] = batch[v]
      /\ ~Delivering(w)
    BY <1>1 DEF Start, IdlePoll, ClaimSelect, ClaimUpdate, Goto, Delivering, vars, locals
<1>3. MovesOnly(w)
    BY <1>2 DEF MovesOnly
<1>4. ToldInv'
  <2>1. ASSUME NEW v \in Workers, Delivering(v)
        PROVE  Delivering(v)' /\ cur'[v] = cur[v] /\ calls'[v] = calls[v]
      BY <1>2, <2>1 DEF Delivering
  <2> QED
      BY <1>1, <1>2, <2>1, ToldStays
<1>5. CASE Start(w) \/ IdlePoll(w)
  <2>1. pc'[w] = "idle"
      BY <1>1, <1>5 DEF Start, IdlePoll, Goto, vars
  <2>2. WorkerInv(rest, w)'
      BY <2>1, Unbound DEF Bound, Holding, Delivering
  <2>3. ClaimsApart'
      BY <1>1, <1>2, <2>1, ApartStays
  <2> QED
      BY <1>3, <1>4, <2>2, <2>3, OthersStay DEF PacedInv
<1>6. CASE ClaimSelect(w)
  <2>1. pc'[w] = "claim" /\ now'[w] = Now /\ batch'[w] = {}
      BY <1>1, <1>6 DEF ClaimSelect, Goto, ClaimInv
  <2>2. WorkerInv(rest, w)'
      BY <2>1 DEF WorkerInv, LeaseInv, FreeInv, AnswerInv, Holding, Delivering
  <2>3. ClaimsApart'
      BY <1>1, <1>2, <2>1, ApartStays
  <2> QED
      BY <1>3, <1>4, <2>2, <2>3, OthersStay DEF PacedInv
<1>7. CASE ClaimUpdate(w)
  <2>1. PICK e \in todo[w] :
          /\ ~RowBusy(w, e)
          /\ batch' = [batch EXCEPT ![w] =
                          IF Queue!StillClaimable(outbox[e], now[w])
                          THEN @ \union {e} ELSE @]
      BY <1>7 DEF ClaimUpdate
  <2>2. pc[w] = "claim" /\ pc' = pc /\ now' = now
      BY <1>7 DEF ClaimUpdate
  <2>3. /\ batch'[w] \subseteq batch[w] \union {e}
        /\ e \in batch'[w] => e \in batch[w] \/ Queue!StillClaimable(outbox[e], now[w])
      BY <1>1, <2>1
  <2>4. FreeInv(w)'
      BY <1>1, <1>2, <2>2, <2>3 DEF WorkerInv, FreeInv
  <2>5. WorkerInv(rest, w)'
      BY <2>2, <2>4 DEF WorkerInv, LeaseInv, AnswerInv, Holding, Delivering
  <2>6. ClaimsApart'
      BY <1>1, <1>2, <2>1, <2>2, <2>3 DEF ClaimsApart, RowBusy
  <2> QED
      BY <1>3, <1>4, <2>5, <2>6, OthersStay DEF PacedInv
<1> QED
    BY <1>5, <1>6, <1>7

\* lease_seconds from the start of the claim is time enough for the batch.
LEMMA CommitPaced ==
    ASSUME NEW rest, Paced(rest), NEW w \in Workers, ClaimCommit(w)
    PROVE  PacedInv(rest)'
<1>1. TypeOK /\ ClaimInv /\ ToldInv /\ ClaimsApart /\ WorkerInv(rest, w)
    BY DEF Paced, PacedInv, IInv
<1>2. pc[w] = "claim" /\ now[w] = Now /\ Bound(w) /\ ~Delivering(w)
    BY <1>1 DEF ClaimCommit, WorkerInv, FreeInv, Bound, Delivering
<1>3. /\ \A e \in Rows : outbox'[e] = IF e \in batch[w] THEN Queue!Claimed(outbox[e], w, Now)
                                      ELSE outbox[e]
      /\ UNCHANGED copies
    BY <1>2 DEF ClaimCommit
<1>4. /\ pc'[w] \in {"idle", "work"} /\ batch'[w] = batch[w]
      /\ \A v \in Workers \ {w} :
            /\ pc'[v] = pc[v] /\ now'[v] = now[v] /\ batch'[v] = batch[v]
            /\ cur'[v] = cur[v] /\ calls'[v] = calls[v]
    BY <1>1 DEF ClaimCommit, Continue, Goto, TypeOK
<1>5. MovesOnly(w)
  <2>1. ASSUME NEW v \in Workers \ {w}, Bound(v), NEW e \in Mine(v)
        PROVE  outbox'[e] = outbox[e]
    <3>1. e \in Rows /\ e \notin Mine(w)
        BY <1>2, <2>1, Apart, MineRows DEF Paced
    <3> QED
        BY <1>3, <3>1 DEF Mine
  <2> QED
      BY <1>4, <2>1 DEF MovesOnly
<1>6. ASSUME NEW e \in batch[w]
      PROVE  Lease(outbox'[e], w, Cost(rest, batch[w]))
  <2>1. e \in Rows /\ outbox[e] \in Row /\ outbox[e].status = "pending"
      BY <1>1, <1>2 DEF TypeOK, ClaimInv
  <2> DEFINE until == Now + LeaseSeconds
  <2>2. outbox'[e] = [outbox[e] EXCEPT !.lease_owner = w, !.lease_until = until]
      BY <1>3, <2>1 DEF Queue!Claimed
  <2>3. until \in Nat /\ until # Null /\ until >= Now + Cost(rest, batch[w])
      BY BatchCost, NumbersAssumption, HooksAssumption
  <2> HIDE DEF until
  <2> QED
      BY <2>1, <2>2, <2>3 DEF Lease, Row
<1>7. WorkerInv(rest, w)'
  <2>1. Mine(w)' = batch[w] /\ ~Delivering(w)' /\ pc'[w] # "claim"
      BY <1>4 DEF Mine, Delivering
  <2>2. LeaseInv(rest, w)'
      BY <1>4, <1>6, <2>1 DEF LeaseInv, Delivering
  <2> QED
      BY <2>1, <2>2 DEF WorkerInv, FreeInv, AnswerInv, Delivering
<1>8. ClaimsApart'
    BY <1>1, <1>4, ApartStays
<1>9. ToldInv'
  <2>1. \A e \in Rows : outbox[e].status = "done" => outbox'[e] = outbox[e]
      BY <1>1, <1>2, <1>3 DEF ClaimInv
  <2>2. ASSUME NEW v \in Workers, Delivering(v)
        PROVE  Delivering(v)' /\ cur'[v] = cur[v] /\ calls'[v] = calls[v]
      BY <1>2, <1>4, <2>2 DEF Delivering
  <2> QED
      BY <1>1, <1>3, <2>1, <2>2, ToldStays
<1> QED
    BY <1>5, <1>7, <1>8, <1>9, OthersStay DEF PacedInv

\* A row that is loaded takes its share of the budget.
LEMMA LoadPaced ==
    ASSUME NEW rest, Paced(rest), NEW w \in Workers, Load(w)
    PROVE  PacedInv(rest)'
<1>1. TypeOK /\ ToldInv /\ ClaimsApart /\ WorkerInv(rest, w) /\ LastsAtMost(rest)
    BY DEF Paced, PacedInv, IInv
<1>2. pc[w] = "work" /\ Holding(w) /\ ~Delivering(w) /\ UNCHANGED <<outbox, copies>>
    BY DEF Load, Holding, Delivering
<1>3. PICK e \in batch[w] :
        IF Queue!HeldBy(outbox[e], w, Now)
        THEN /\ Goto(w, "deliver")
             /\ batch' = [batch EXCEPT ![w] = @ \ {e}]
             /\ cur' = [cur EXCEPT ![w] = e]
             /\ calls' = [calls EXCEPT ![w] =
                  [h \in Hooks |-> IF h \in Matches(e) THEN Request(1) ELSE Idle]]
             /\ UNCHANGED <<now, todo, seen>>
        ELSE Continue(w, batch[w] \ {e})
    BY DEF Load
<1>4. Queue!HeldBy(outbox[e], w, Now) /\ e \in Rows
    BY <1>1, <1>2, HeldNow DEF Mine, TypeOK
<1>5. /\ pc'[w] = "deliver" /\ cur'[w] = e /\ batch'[w] = batch[w] \ {e}
      /\ \A h \in Hooks : calls'[w][h] = IF h \in Matches(e) THEN Request(1) ELSE Idle
      /\ \A v \in Workers \ {w} :
            /\ pc'[v] = pc[v] /\ now'[v] = now[v] /\ batch'[v] = batch[v]
            /\ cur'[v] = cur[v] /\ calls'[v] = calls[v]
    BY <1>1, <1>3, <1>4 DEF TypeOK, Goto
<1>6. MovesOnly(w)
    BY <1>2, <1>5 DEF MovesOnly
<1>7. ASSUME NEW h \in Hooks
      PROVE  /\ Remaining(rest, calls'[w][h]) \in {0, rest[1]}
             /\ calls'[w][h].is = IF h \in Matches(e) THEN "request" ELSE "idle"
  <2>1. 1 \in 1 .. MaxTries /\ Timeout \in Nat
      BY NumbersAssumption
  <2>2. Request(1).is = "request" /\ Request(1).tries = 1 /\ Request(1).left = Timeout
      BY DEF Request
  <2>3. rest[1] \in Nat
      BY <1>1, <2>1, Rests
  <2>4. Remaining(rest, Request(1)) = rest[1] /\ Remaining(rest, Idle) = 0 /\ Idle.is = "idle"
      BY <2>1, <2>2, <2>3 DEF Remaining, Idle
  <2> QED
      BY <1>5, <2>2, <2>4
<1>8. WorkerInv(rest, w)'
  <2>1. Mine(w)' \subseteq Mine(w)
      BY <1>2, <1>5 DEF Mine, Delivering
  <2>2. ASSUME NEW d \in Mine(w)'
        PROVE  /\ Lease(outbox'[d], w, Cost(rest, batch'[w]))
               /\ \A h \in Hooks :
                    Lease(outbox'[d], w, Cost(rest, batch'[w]) + Remaining(rest, calls'[w][h]))
    <3>1. outbox[d] \in Row /\ outbox'[d] = outbox[d]
        BY <1>2, <2>1, <2>2, MineRows DEF Paced
    <3>2. Lease(outbox[d], w, Cost(rest, batch[w]))
        BY <1>1, <1>2, <2>1, <2>2 DEF WorkerInv, LeaseInv
    <3>3. /\ Cost(rest, batch[w]) \in Nat /\ Cost(rest, batch'[w]) \in Nat /\ rest[1] \in Nat
          /\ Cost(rest, batch[w]) = Cost(rest, batch'[w]) + rest[1]
        BY <1>5, BatchCost
    <3>4. ASSUME NEW n \in {0, rest[1]}
          PROVE  Lease(outbox[d], w, Cost(rest, batch'[w]) + n)
      <4>1. /\ Cost(rest, batch'[w]) + n \in Nat
            /\ Cost(rest, batch'[w]) + n <= Cost(rest, batch[w])
          BY <3>3
      <4> QED
          BY <3>1, <3>2, <3>3, <4>1, Leases
    <3>5. Cost(rest, batch'[w]) + 0 = Cost(rest, batch'[w])
        BY <3>3
    <3>6. Lease(outbox[d], w, Cost(rest, batch'[w]))
        BY <3>4, <3>5
    <3> QED
        BY <1>7, <3>1, <3>4, <3>6
  <2>3. LeaseInv(rest, w)'
      BY <1>5, <2>2 DEF LeaseInv
  <2>4. FreeInv(w)' /\ AnswerInv(w)'
      BY <1>5, <1>7 DEF FreeInv, AnswerInv, Matches
  <2> QED
      BY <2>3, <2>4 DEF WorkerInv
<1>9. ClaimsApart'
    BY <1>1, <1>5, ApartStays
<1>10. ToldInv'
  <2>1. ASSUME NEW v \in Workers, Delivering(v)
        PROVE  Delivering(v)' /\ cur'[v] = cur[v] /\ calls'[v] = calls[v]
      BY <1>2, <1>5, <2>1 DEF Delivering
  <2> QED
      BY <1>1, <1>2, <2>1, ToldStays
<1> QED
    BY <1>6, <1>8, <1>9, <1>10, OthersStay DEF PacedInv

\* A delivery that goes on takes no more time than it had, and one to a webhook that
\* answers goes on to its answer.
LEMMA CallPaced ==
    ASSUME NEW rest, Paced(rest), NEW w \in Workers, NEW h \in Hooks, NEW c \in Call,
           calls[w][h].is \in {"request", "sleep"},
           calls' = [calls EXCEPT ![w][h] = c],
           c.is # "idle",
           Remaining(rest, c) \in Nat,
           Remaining(rest, c) <= Remaining(rest, calls[w][h]),
           c.is \in {"request", "ok"} \/ h \in Hanging,
           UNCHANGED <<outbox, hooks, pc, now, todo, batch, cur, seen>>
    PROVE  /\ \A v \in Workers : WorkerInv(rest, v)'
           /\ ClaimsApart'
           /\ pc[w] = "deliver" /\ cur[w] \in Rows
           /\ Healthy(cur[w]) => calls[w][h].is = "request" /\ h \notin Hanging
<1>1. IInv /\ TypeOK /\ CallInv /\ ClaimsApart /\ WorkerInv(rest, w) /\ LastsAtMost(rest)
    BY DEF Paced, PacedInv, IInv
<1>2. Delivering(w) /\ pc[w] = "deliver" /\ cur[w] \in Rows
  <2>1. Delivering(w)
      BY <1>1 DEF CallInv
  <2>2. pc[w] # "mark"
      BY <1>1 DEF WorkerInv, AnswerInv
  <2> QED
      BY <1>1, <2>1, <2>2 DEF Delivering, CallInv
<1>3. Healthy(cur[w]) => calls[w][h].is = "request" /\ h \notin Hanging
  <2>1. Healthy(cur[w]) => /\ calls[w][h].is \in {"idle", "request", "ok"}
                           /\ cur[w] \in Subscribes[h]
      BY <1>1, <1>2 DEF WorkerInv, AnswerInv
  <2> QED
      BY <2>1 DEF Healthy
<1>4. \A v \in Workers, g \in Hooks :
         calls'[v][g] = IF v = w /\ g = h THEN c ELSE calls[v][g]
    BY <1>1 DEF TypeOK
<1>5. MovesOnly(w)
    BY <1>1 DEF MovesOnly, TypeOK
<1>6. LeaseInv(rest, w)'
  <2>1. ASSUME NEW e \in Mine(w), NEW g \in Hooks
        PROVE  Lease(outbox[e], w, Cost(rest, batch[w]) + Remaining(rest, calls'[w][g]))
    <3>1. Lease(outbox[e], w, Cost(rest, batch[w]) + Remaining(rest, calls[w][g]))
        BY <1>1, <1>2 DEF WorkerInv, LeaseInv, Holding
    <3>2. CASE g # h
        BY <1>4, <3>1, <3>2
    <3>3. CASE g = h
      <4>1. outbox[e] \in Row /\ Cost(rest, batch[w]) \in Nat
          BY <1>1, MineRows, BatchCost
      <4>2. calls[w][h] \in Call
          BY <1>1 DEF TypeOK
      <4>3. Remaining(rest, calls[w][h]) \in Nat
          BY <1>1, <4>2, Remains DEF CallInv
      <4>4. /\ Cost(rest, batch[w]) + Remaining(rest, calls[w][h]) \in Nat
            /\ Cost(rest, batch[w]) + Remaining(rest, c) \in Nat
            /\ Cost(rest, batch[w]) + Remaining(rest, c)
                 <= Cost(rest, batch[w]) + Remaining(rest, calls[w][h])
          BY <4>1, <4>3
      <4>5. Lease(outbox[e], w, Cost(rest, batch[w]) + Remaining(rest, c))
          BY <3>1, <3>3, <4>1, <4>4, Leases
      <4> QED
          BY <1>4, <3>3, <4>5
    <3> QED
        BY <3>2, <3>3
  <2>2. Delivering(w)' = Delivering(w) /\ Holding(w)' = Holding(w) /\ Mine(w)' = Mine(w)
      BY DEF Holding, Delivering, Mine
  <2> QED
      BY <1>1, <2>1, <2>2 DEF WorkerInv, LeaseInv
<1>7. FreeInv(w)' /\ AnswerInv(w)'
  <2>1. FreeInv(w)'
      BY <1>2 DEF FreeInv
  <2>2. ASSUME Healthy(cur[w]), NEW g \in Hooks
        PROVE  /\ calls'[w][g].is \in {"idle", "request", "ok"}
               /\ calls'[w][g].is # "idle" => cur[w] \in Subscribes[g]
    <3>1. /\ calls[w][g].is \in {"idle", "request", "ok"}
          /\ calls[w][g].is # "idle" => cur[w] \in Subscribes[g]
        BY <1>1, <1>2, <2>2 DEF WorkerInv, AnswerInv
    <3>2. CASE g = h
        BY <1>3, <1>4, <2>2, <3>1, <3>2
    <3>3. CASE g # h
        BY <1>4, <3>1, <3>3
    <3> QED
        BY <3>2, <3>3
  <2> QED
      BY <1>2, <2>1, <2>2 DEF AnswerInv, Delivering
<1>8. \A v \in Workers : WorkerInv(rest, v)'
    BY <1>5, <1>6, <1>7, OthersStay DEF WorkerInv
<1>9. ClaimsApart'
    BY <1>1, ApartStays
<1> QED
    BY <1>2, <1>3, <1>8, <1>9

\* An answer is the first the receiver gave.
LEMMA AnsweredPaced ==
    ASSUME NEW rest, Paced(rest), NEW w \in Workers, NEW h \in Hooks, Answered(w, h)
    PROVE  PacedInv(rest)'
<1>1. IInv /\ TypeOK /\ CallInv /\ ToldInv /\ LastsAtMost(rest)
    BY DEF Paced, PacedInv, IInv
<1>2. Returned("ok") \in Call /\ Returned("ok").is = "ok"
    BY Calls
<1>3. /\ calls[w][h].is = "request" /\ calls[w][h] \in Call
      /\ calls' = [calls EXCEPT ![w][h] = Returned("ok")]
      /\ UNCHANGED <<outbox, hooks, pc, now, todo, batch, cur, seen>>
    BY <1>1 DEF Answered, TypeOK
<1>4. PICK c \in Call :
        /\ calls' = [calls EXCEPT ![w][h] = c] /\ c.is = "ok"
        /\ Remaining(rest, c) = 0 /\ Remaining(rest, calls[w][h]) \in Nat
  <2>1. Remaining(rest, Returned("ok")) = 0
      BY <1>2 DEF Remaining
  <2>2. Remaining(rest, calls[w][h]) \in Nat
      BY <1>1, <1>3, Remains DEF CallInv
  <2> QED
      BY <1>2, <1>3, <2>1, <2>2
<1>5. /\ \A v \in Workers : WorkerInv(rest, v)'
      /\ ClaimsApart'
      /\ pc[w] = "deliver" /\ cur[w] \in Rows
  <2>1. Remaining(rest, c) \in Nat /\ Remaining(rest, c) <= Remaining(rest, calls[w][h])
      BY <1>4
  <2> QED
      BY <1>3, <1>4, <2>1, CallPaced
<1>6. Delivering(w) /\ Holding(w) /\ cur[w] \in Mine(w)
    BY <1>5 DEF Delivering, Holding, Mine
<1>7. ToldInv'
  <2>1. Healthy(cur[w]) => ~(copies[cur[w], h] > 0)
    <3>1. ASSUME Healthy(cur[w]), copies[cur[w], h] > 0
          PROVE  FALSE
      <4>1. outbox[cur[w]].status # "done"
          BY <1>6, HeldNow
      <4>2. PICK v \in Workers : Delivering(v) /\ cur[v] = cur[w] /\ calls[v][h].is = "ok"
          BY <1>1, <1>5, <3>1, <4>1 DEF ToldInv
      <4>3. v # w
          BY <1>3, <4>2
      <4>4. Holding(v) /\ cur[w] \in Mine(v)
          BY <4>2 DEF Holding, Mine
      <4> QED
          BY <1>6, <4>3, <4>4, Apart DEF Bound
    <3> QED
        BY <3>1
  <2>2. copies[<<cur[w], h>>] \in 0 .. MaxCopies /\ MaxCopies \in Nat /\ MaxCopies > 0
      BY <1>1, <1>5, NumbersAssumption DEF TypeOK
  <2>3. Healthy(cur[w]) => copies'[cur[w], h] = 1
    <3> DEFINE had == copies[<<cur[w], h>>]
    <3>1. Healthy(cur[w]) => ~(had > 0)
        BY <2>1
    <3>2. had \in 0 .. MaxCopies
        BY <2>2
    <3>3. copies'[<<cur[w], h>>] = IF had < MaxCopies THEN had + 1 ELSE had
        BY <1>1, <1>5 DEF Answered, Receive, TypeOK
    <3> HIDE DEF had
    <3>4. Healthy(cur[w]) => had = 0
        BY <2>2, <3>1, <3>2
    <3>5. Healthy(cur[w]) => copies'[<<cur[w], h>>] = 1
        BY <2>2, <3>3, <3>4
    <3> QED
        BY <3>5
  <2>4. \A e \in Rows, g \in Hooks :
           ~(e = cur[w] /\ g = h) => copies'[e, g] = copies[e, g]
      BY <1>1, <1>5 DEF Answered, Receive, TypeOK
  <2>5. /\ calls'[w][h].is = "ok"
        /\ \A v \in Workers, g \in Hooks :
              calls[v][g].is = "ok" => calls'[v][g] = calls[v][g]
      BY <1>1, <1>3, <1>4 DEF TypeOK
  <2>6. \A v \in Workers : Delivering(v)' = Delivering(v) /\ cur'[v] = cur[v]
      BY <1>3 DEF Delivering
  <2>7. ASSUME NEW e \in Rows, NEW g \in Hooks, Healthy(e), copies'[e, g] > 0
        PROVE  /\ copies'[e, g] = 1
               /\ \/ outbox'[e].status = "done"
                  \/ \E v \in Workers : Delivering(v)' /\ cur'[v] = e /\ calls'[v][g].is = "ok"
    <3>1. CASE e = cur[w] /\ g = h
        BY <1>6, <2>3, <2>5, <2>6, <2>7, <3>1
    <3>2. CASE ~(e = cur[w] /\ g = h)
      <4>1. copies[e, g] > 0 /\ copies'[e, g] = copies[e, g]
          BY <2>4, <2>7, <3>2
      <4>2. /\ copies[e, g] = 1
            /\ \/ outbox[e].status = "done"
               \/ \E v \in Workers : Delivering(v) /\ cur[v] = e /\ calls[v][g].is = "ok"
          BY <1>1, <2>7, <4>1 DEF ToldInv
      <4> QED
          BY <1>3, <2>5, <2>6, <4>1, <4>2
    <3> QED
        BY <3>1, <3>2
  <2> QED
      BY <2>7 DEF ToldInv
<1> QED
    BY <1>5, <1>7 DEF PacedInv

\* Time-outs and further requests concern rows with a webhook that hangs.
LEMMA RetriesPaced ==
    ASSUME NEW rest, Paced(rest), NEW w \in Workers, NEW h \in Hooks,
           Retry(w, h) \/ (h \in Hanging /\ TimedOut(w, h))
    PROVE  PacedInv(rest)'
<1>1. IInv /\ TypeOK /\ CallInv /\ ToldInv /\ LastsAtMost(rest)
    BY DEF Paced, PacedInv, IInv
<1> DEFINE n == calls[w][h].tries
<1>2. /\ calls[w][h].is \in {"request", "sleep"} /\ calls[w][h] \in Call
      /\ calls[w][h].left = 0 /\ n \in 1 .. MaxTries
      /\ calls[w][h].is = "sleep" => n < MaxTries
      /\ UNCHANGED <<outbox, hooks, pc, now, todo, batch, cur, seen>>
  <2>1. /\ calls[w][h].is \in {"request", "sleep"} /\ calls[w][h].left = 0
        /\ UNCHANGED <<outbox, hooks, pc, now, todo, batch, cur, seen>>
      BY DEF Retry, TimedOut
  <2>2. calls[w][h] \in Call
      BY <1>1 DEF TypeOK
  <2>3. n \in 0 .. MaxTries /\ n > 0 /\ (calls[w][h].is = "sleep" => n < MaxTries)
      BY <1>1, <2>1, <2>2 DEF CallInv, Call
  <2> QED
      BY <2>1, <2>2, <2>3, NumbersAssumption
<1>3. PICK c \in Call :
        /\ calls' = [calls EXCEPT ![w][h] = c]
        /\ c.is \notin {"idle", "ok"}
        /\ Remaining(rest, c) \in Nat
        /\ Remaining(rest, c) <= Remaining(rest, calls[w][h])
        /\ c.is = "request" \/ h \in Hanging
  <2>1. CASE Retry(w, h)
    <3>1. n < MaxTries /\ n + 1 \in 1 .. MaxTries /\ calls[w][h].is = "sleep"
        BY <1>2, <2>1, NumbersAssumption DEF Retry
    <3>2. /\ Request(n + 1) \in Call /\ Request(n + 1).is = "request"
          /\ Request(n + 1).tries = n + 1 /\ Request(n + 1).left = Timeout
        BY <3>1, Calls DEF Request
    <3>3. rest[n + 1] \in Nat
        BY <1>1, <3>1, Rests
    <3>4. Remaining(rest, Request(n + 1)) = Timeout + (rest[n + 1] - Timeout)
        BY <3>2 DEF Remaining
    <3>5. Remaining(rest, calls[w][h]) = 0 + rest[n + 1]
        BY <1>2, <3>1 DEF Remaining
    <3>6. /\ Remaining(rest, Request(n + 1)) \in Nat
          /\ Remaining(rest, Request(n + 1)) <= Remaining(rest, calls[w][h])
        BY <3>3, <3>4, <3>5, NumbersAssumption
    <3>7. calls' = [calls EXCEPT ![w][h] = Request(n + 1)]
        BY <2>1 DEF Retry
    <3> QED
        BY <3>2, <3>6, <3>7
  <2>2. CASE h \in Hanging /\ TimedOut(w, h) /\ n < MaxTries
    <3> DEFINE pause == Backoff * 2^(n - 1)
    <3>1. pause \in Nat
        BY <1>2, BackoffAssumption
    <3>2. /\ Sleep(n) \in Call /\ Sleep(n).is = "sleep" /\ Sleep(n).tries = n
          /\ Sleep(n).left = pause
        BY <1>2, Calls DEF Sleep
    <3>3. rest[n] \in Nat /\ n + 1 \in 1 .. MaxTries /\ rest[n] >= Timeout + pause + rest[n + 1]
        BY <1>1, <1>2, <2>2, Rests
    <3>4. calls' = [calls EXCEPT ![w][h] = Sleep(n)]
        BY <2>2 DEF TimedOut, Unanswered
    <3>5. calls[w][h].is = "request"
        BY <2>2 DEF TimedOut
    <3> HIDE DEF pause
    <3>6. rest[n + 1] \in Nat
        BY <1>1, <3>3, Rests
    <3>7. Remaining(rest, Sleep(n)) = pause + rest[n + 1]
        BY <3>2 DEF Remaining
    <3>8. Remaining(rest, calls[w][h]) = 0 + (rest[n] - Timeout)
        BY <1>2, <3>5 DEF Remaining
    <3>9. /\ Remaining(rest, Sleep(n)) \in Nat
          /\ Remaining(rest, Sleep(n)) <= Remaining(rest, calls[w][h])
        BY <3>1, <3>3, <3>6, <3>7, <3>8, NumbersAssumption
    <3> QED
        BY <2>2, <3>2, <3>4, <3>9
  <2>3. CASE h \in Hanging /\ TimedOut(w, h) /\ ~(n < MaxTries)
    <3>1. Returned("failed") \in Call /\ Returned("failed").is = "failed"
        BY Calls
    <3>2. calls' = [calls EXCEPT ![w][h] = Returned("failed")]
        BY <2>3 DEF TimedOut, Unanswered
    <3>3. Remaining(rest, Returned("failed")) = 0
        BY <3>1 DEF Remaining
    <3>4. Remaining(rest, calls[w][h]) \in Nat
        BY <1>1, <1>2, Remains DEF CallInv
    <3>5. /\ Remaining(rest, Returned("failed")) \in Nat
          /\ Remaining(rest, Returned("failed")) <= Remaining(rest, calls[w][h])
        BY <3>3, <3>4
    <3> QED
        BY <2>3, <3>1, <3>2, <3>5
  <2> QED
      BY <2>1, <2>2, <2>3
<1>4. /\ \A v \in Workers : WorkerInv(rest, v)'
      /\ ClaimsApart'
      /\ cur[w] \in Rows
      /\ Healthy(cur[w]) => calls[w][h].is = "request" /\ h \notin Hanging
    BY <1>2, <1>3, CallPaced
<1>5. ~Healthy(cur[w])
    BY <1>4 DEF Retry
<1>6. \A v \in Workers, g \in Hooks :
         calls[v][g].is = "ok" => calls'[v][g] = calls[v][g]
    BY <1>1, <1>2, <1>3 DEF TypeOK
<1>7. \A v \in Workers : Delivering(v)' = Delivering(v) /\ cur'[v] = cur[v]
    BY <1>2 DEF Delivering
<1>8. \A e \in Rows, g \in Hooks : Healthy(e) => copies'[e, g] = copies[e, g]
    BY <1>1, <1>4, <1>5 DEF Retry, TimedOut, Receive, TypeOK
<1>9. ToldInv'
  <2>1. ASSUME NEW e \in Rows, NEW g \in Hooks, Healthy(e), copies'[e, g] > 0
        PROVE  /\ copies'[e, g] = 1
               /\ \/ outbox'[e].status = "done"
                  \/ \E v \in Workers : Delivering(v)' /\ cur'[v] = e /\ calls'[v][g].is = "ok"
    <3>1. copies[e, g] > 0 /\ copies'[e, g] = copies[e, g]
        BY <1>8, <2>1
    <3>2. /\ copies[e, g] = 1
          /\ \/ outbox[e].status = "done"
             \/ \E v \in Workers : Delivering(v) /\ cur[v] = e /\ calls[v][g].is = "ok"
        BY <1>1, <2>1, <3>1 DEF ToldInv
    <3> QED
        BY <1>2, <1>6, <1>7, <3>1, <3>2
  <2> QED
      BY <2>1 DEF ToldInv
<1> QED
    BY <1>4, <1>9 DEF PacedInv

\* The second look finds the lease.
LEMMA RecheckPaced ==
    ASSUME NEW rest, Paced(rest), NEW w \in Workers, Recheck(w)
    PROVE  PacedInv(rest)'
<1>1. TypeOK /\ ToldInv /\ ClaimsApart /\ WorkerInv(rest, w)
    BY DEF Paced, PacedInv, IInv
<1>2. pc[w] = "deliver" /\ Delivering(w) /\ Holding(w) /\ cur[w] \in Mine(w)
    BY DEF Recheck, Delivering, Holding, Mine
<1>3. Queue!HeldBy(outbox[cur[w]], w, Now)
    BY <1>2, HeldNow
<1>4. /\ pc' = [pc EXCEPT ![w] = "mark"]
      /\ UNCHANGED <<outbox, copies, now, batch, cur, calls>>
      /\ \A h \in Hooks : calls[w][h].is \in {"idle", "ok", "failed"}
    BY <1>3 DEF Recheck, Goto
<1>5. MovesOnly(w) /\ pc'[w] = "mark"
    BY <1>1, <1>4 DEF MovesOnly, TypeOK
<1>6. Delivering(w)' /\ Holding(w)' /\ Mine(w)' = Mine(w)
    BY <1>2, <1>4, <1>5 DEF Delivering, Holding, Mine
<1>7. LeaseInv(rest, w)'
    BY <1>1, <1>2, <1>4, <1>5, <1>6 DEF WorkerInv, LeaseInv
<1>8. FreeInv(w)' /\ AnswerInv(w)'
    BY <1>1, <1>2, <1>4, <1>5 DEF WorkerInv, FreeInv, AnswerInv
<1>9. ClaimsApart'
    BY <1>1, <1>4, <1>5, ApartStays DEF MovesOnly
<1>10. ToldInv'
  <2>1. \A v \in Workers : Delivering(v) => Delivering(v)'
      BY <1>5, <1>6 DEF MovesOnly, Delivering
  <2> QED
      BY <1>1, <1>4, <2>1, ToldStays
<1> QED
    BY <1>5, <1>7, <1>8, <1>9, <1>10, OthersStay DEF PacedInv, WorkerInv

\* A row whose webhooks answer is settled by its first round.
LEMMA MarkPaced ==
    ASSUME NEW rest, Paced(rest), NEW w \in Workers, Mark(w)
    PROVE  PacedInv(rest)'
<1>1. IInv /\ TypeOK /\ ToldInv /\ ClaimsApart /\ WorkerInv(rest, w)
    BY DEF Paced, PacedInv, IInv
<1>2. pc[w] = "mark" /\ Delivering(w) /\ Holding(w) /\ cur[w] \in Mine(w) /\ cur[w] \in Rows
    BY <1>1 DEF Mark, Delivering, Holding, Mine, IInv, CallInv
<1>3. /\ \A e \in Rows \ {cur[w]} : outbox'[e] = outbox[e]
      /\ AllSucceeded(w) => outbox'[cur[w]] = Queue!Closed(outbox[cur[w]], "done")
      /\ UNCHANGED copies
    BY <1>1, <1>2 DEF Mark, Settled, TypeOK
<1>4. /\ pc'[w] \in {"idle", "work"} /\ batch'[w] = batch[w]
      /\ \A v \in Workers \ {w} :
            /\ pc'[v] = pc[v] /\ now'[v] = now[v] /\ batch'[v] = batch[v]
            /\ cur'[v] = cur[v] /\ calls'[v] = calls[v]
    BY <1>1 DEF Mark, Continue, Goto, TypeOK
<1>5. MovesOnly(w)
  <2>1. ASSUME NEW v \in Workers \ {w}, Bound(v), NEW e \in Mine(v)
        PROVE  outbox'[e] = outbox[e]
    <3>1. e \in Rows /\ e # cur[w]
        BY <1>1, <1>2, <2>1, Apart, MineRows DEF Bound
    <3> QED
        BY <1>3, <3>1
  <2> QED
      BY <1>4, <2>1 DEF MovesOnly
<1>6. WorkerInv(rest, w)'
  <2>1. Mine(w)' = batch[w] /\ ~Delivering(w)' /\ pc'[w] # "claim"
      BY <1>4 DEF Mine, Delivering
  <2>2. ASSUME NEW e \in batch[w]
        PROVE  Lease(outbox'[e], w, Cost(rest, batch[w])) \/ e = cur[w]
    <3>1. Lease(outbox[e], w, Cost(rest, batch[w])) /\ e \in Rows
        BY <1>1, <1>2 DEF WorkerInv, LeaseInv, Mine, TypeOK
    <3> QED
        BY <1>3, <3>1
  <2>3. cur[w] \notin batch[w]
      BY <1>1, <1>2 DEF WorkerInv, LeaseInv
  <2>4. LeaseInv(rest, w)'
      BY <1>4, <2>1, <2>2, <2>3 DEF LeaseInv, Delivering
  <2> QED
      BY <2>1, <2>4 DEF WorkerInv, FreeInv, AnswerInv, Delivering
<1>7. ClaimsApart'
    BY <1>1, <1>4, ApartStays
<1>8. ToldInv'
  <2>1. Queue!Closed(outbox[cur[w]], "done").status = "done"
      BY <1>1, <1>2, ClosedRow DEF TypeOK
  <2>2. Healthy(cur[w]) => AllSucceeded(w)
      BY <1>1, <1>2 DEF WorkerInv, AnswerInv, AllSucceeded
  <2>3. \A e \in Rows : outbox[e].status = "done" => outbox'[e].status = "done"
    <3>1. outbox[cur[w]].status # "done"
        BY <1>2, HeldNow
    <3> QED
        BY <1>3, <3>1
  <2>4. ASSUME NEW v \in Workers, Delivering(v), Healthy(cur[v])
        PROVE  \/ outbox'[cur[v]].status = "done"
               \/ Delivering(v)' /\ cur'[v] = cur[v] /\ calls'[v] = calls[v]
    <3>1. CASE v = w
        BY <1>3, <2>1, <2>2, <2>4, <3>1
    <3>2. CASE v # w
        BY <1>4, <2>4, <3>2 DEF Delivering
    <3> QED
        BY <3>1, <3>2
  <2> QED
      BY <1>1, <1>3, <2>3, <2>4, ToldStays
<1> QED
    BY <1>5, <1>6, <1>7, <1>8, OthersStay DEF PacedInv

\* A row that cannot be backed off any more has a webhook that hangs, and the rows
\* that are abandoned with it have not been begun.
LEMMA OverflowPaced ==
    ASSUME NEW rest, Paced(rest), NEW w \in Workers, RetryOverflows(w)
    PROVE  PacedInv(rest)'
<1>1. TypeOK /\ ToldInv /\ ClaimsApart /\ WorkerInv(rest, w)
    BY DEF Paced, PacedInv, IInv
<1>2. pc[w] = "mark" /\ Delivering(w) /\ UNCHANGED <<outbox, copies>>
    BY DEF RetryOverflows, Delivering
<1>3. /\ pc'[w] = "idle"
      /\ \A v \in Workers \ {w} :
            /\ pc'[v] = pc[v] /\ now'[v] = now[v] /\ batch'[v] = batch[v]
            /\ cur'[v] = cur[v] /\ calls'[v] = calls[v]
    BY <1>1 DEF RetryOverflows, Reset, Goto, TypeOK
<1>4. MovesOnly(w)
    BY <1>2, <1>3 DEF MovesOnly
<1>5. WorkerInv(rest, w)'
    BY <1>3, Unbound DEF Bound, Holding, Delivering
<1>6. ClaimsApart'
    BY <1>1, <1>3, ApartStays
<1>7. ToldInv'
  <2>1. ~Healthy(cur[w])
      BY <1>1, <1>2 DEF RetryOverflows, WorkerInv, AnswerInv, AllSucceeded
  <2>2. ASSUME NEW v \in Workers, Delivering(v), Healthy(cur[v])
        PROVE  Delivering(v)' /\ cur'[v] = cur[v] /\ calls'[v] = calls[v]
      BY <1>3, <2>1, <2>2 DEF Delivering
  <2> QED
      BY <1>1, <1>2, <2>2, ToldStays
<1> QED
    BY <1>4, <1>5, <1>6, <1>7, OthersStay DEF PacedInv

\* Time goes on for somebody who waits with time left.
LEMMA TickPaced ==
    ASSUME NEW rest, Paced(rest), PacedTick
    PROVE  PacedInv(rest)'
<1>1. /\ IInv /\ TypeOK /\ CallInv /\ ToldInv /\ LastsAtMost(rest)
      /\ \A w \in Workers : WorkerInv(rest, w)
    BY DEF Paced, PacedInv, IInv
<1>2. /\ Tick /\ UNCHANGED <<copies, pc, batch, cur>>
      /\ \A w \in Workers : Waiting(w)
    BY DEF PacedTick, Tick
<1>3. \A v \in Workers : Delivering(v)' = Delivering(v) /\ Holding(v)' = Holding(v)
                         /\ Mine(v)' = Mine(v)
    BY <1>2 DEF Delivering, Holding, Mine
<1>4. ASSUME NEW v \in Workers, NEW h \in Hooks
      PROVE  /\ calls'[v][h] = [calls[v][h] EXCEPT !.left = Older(@, 0)]
             /\ calls'[v][h].is = calls[v][h].is
             /\ calls[v][h] \in Call
  <2>1. calls[v][h] \in Call
      BY <1>1 DEF TypeOK
  <2>2. calls'[v][h] = [calls[v][h] EXCEPT !.left = Older(@, 0)]
      BY <1>2 DEF Tick
  <2> QED
      BY <2>1, <2>2, OlderCall
<1>5. ASSUME NEW e \in Rows
      PROVE  /\ outbox[e] \in Row
             /\ outbox'[e].status = outbox[e].status
             /\ \A w \in Workers, n \in Nat :
                  Lease(outbox[e], w, n + 1) => Lease(outbox'[e], w, n)
  <2> DEFINE next == Older(outbox[e].next_attempt_at, 0)
             until == IF outbox[e].lease_until = Null THEN Null
                      ELSE Older(outbox[e].lease_until, 0)
  <2>1. outbox[e] \in Row
      BY <1>1 DEF TypeOK
  <2>2. outbox'[e] = [outbox[e] EXCEPT !.next_attempt_at = next, !.lease_until = until]
      BY <1>2 DEF Tick
  <2>3. ASSUME outbox[e].lease_until # Null
        PROVE  until # Null /\ until \in Nat /\ until >= outbox[e].lease_until - 1
    <3>1. outbox[e].lease_until \in Nat
        BY <2>1, <2>3 DEF Row
    <3> QED
        BY <2>3, <3>1, HooksAssumption DEF Older
  <2> HIDE DEF next, until
  <2>4. /\ outbox'[e].status = outbox[e].status
        /\ outbox'[e].lease_owner = outbox[e].lease_owner
        /\ outbox'[e].lease_until = until
      BY <2>1, <2>2 DEF Row
  <2>5. ASSUME NEW w \in Workers, NEW n \in Nat, Lease(outbox[e], w, n + 1)
        PROVE  Lease(outbox'[e], w, n)
    <3>1. outbox[e].lease_until \in Nat /\ outbox[e].lease_until >= Now + (n + 1)
        BY <2>1, <2>5 DEF Lease, Row
    <3>2. until \in Nat /\ until # Null /\ until >= outbox[e].lease_until - 1
        BY <2>3, <2>5 DEF Lease
    <3>3. until >= Now + n
        BY <3>1, <3>2, NumbersAssumption
    <3> QED
        BY <2>4, <2>5, <3>2, <3>3 DEF Lease
  <2> QED
      BY <2>1, <2>4, <2>5

<1>6. ASSUME NEW w \in Workers
      PROVE  WorkerInv(rest, w)'
  <2>1. CASE pc[w] # "deliver"
    <3>1. pc'[w] \in {"idle", "dead"}
        BY <1>2, <2>1 DEF Waiting
    <3> QED
        BY <3>1, Unbound DEF Bound, Holding, Delivering
  <2>2. CASE pc[w] = "deliver"
    <3>1. PICK g \in Hooks : Pausing(calls[w][g])
        BY <1>2, <2>2 DEF Waiting
    <3>2. \A h \in Hooks : calls[w][h].is \in {"request", "sleep"} => Pausing(calls[w][h])
        BY <1>2, <2>2 DEF Waiting
    <3>3. Holding(w) /\ Delivering(w) /\ Cost(rest, batch[w]) \in Nat
        BY <2>2, BatchCost DEF Holding, Delivering
    <3>4. ASSUME NEW h \in Hooks
          PROVE  /\ Remaining(rest, calls[w][h]) \in Nat /\ Remaining(rest, calls'[w][h]) \in Nat
                 /\ Pausing(calls[w][h]) =>
                      Remaining(rest, calls'[w][h]) = Remaining(rest, calls[w][h]) - 1
                 /\ ~Pausing(calls[w][h]) => Remaining(rest, calls'[w][h]) = 0
      <4>1. /\ calls[w][h] \in Call
            /\ calls[w][h].is \in {"request", "sleep"} => calls[w][h].tries > 0
            /\ calls[w][h].is = "sleep" => calls[w][h].tries < MaxTries
          BY <1>1, <1>4 DEF CallInv
      <4>2. calls'[w][h] = [calls[w][h] EXCEPT !.left = Older(@, 0)]
          BY <1>4
      <4> QED
          BY <1>1, <3>2, <4>1, <4>2, Remains
    <3>5. ASSUME NEW e \in Mine(w)
          PROVE  /\ Lease(outbox'[e], w, Cost(rest, batch[w]))
                 /\ \A h \in Hooks :
                      Lease(outbox'[e], w, Cost(rest, batch[w]) + Remaining(rest, calls'[w][h]))
      <4>1. e \in Rows
          BY <1>1, MineRows
      <4>2. \A h \in Hooks :
              Lease(outbox[e], w, Cost(rest, batch[w]) + Remaining(rest, calls[w][h]))
          BY <1>1, <2>2, <3>3 DEF WorkerInv, LeaseInv
      <4>3. ASSUME NEW h \in Hooks, Pausing(calls[w][h])
            PROVE  Lease(outbox'[e], w, Cost(rest, batch[w]) + Remaining(rest, calls'[w][h]))
        <5> DEFINE n == Cost(rest, batch[w]) + Remaining(rest, calls'[w][h])
        <5>1. n \in Nat /\ n + 1 = Cost(rest, batch[w]) + Remaining(rest, calls[w][h])
            BY <3>3, <3>4, <4>3
        <5>2. Lease(outbox[e], w, n + 1)
            BY <4>2, <5>1
        <5> HIDE DEF n
        <5>3. Lease(outbox'[e], w, n)
            BY <1>5, <4>1, <5>1, <5>2
        <5> QED
            BY <5>3 DEF n
      <4>4. Lease(outbox'[e], w, Cost(rest, batch[w]))
        <5> DEFINE n == Cost(rest, batch[w])
        <5>1. /\ Remaining(rest, calls[w][g]) \in Nat
              /\ Remaining(rest, calls[w][g]) - 1 \in Nat
            BY <3>1, <3>4
        <5>2. /\ n \in Nat /\ n + 1 \in Nat
              /\ n + Remaining(rest, calls[w][g]) \in Nat
              /\ n + 1 <= n + Remaining(rest, calls[w][g])
            BY <3>3, <5>1
        <5>3. Lease(outbox[e], w, n + Remaining(rest, calls[w][g])) /\ outbox[e] \in Row
            BY <1>5, <4>1, <4>2
        <5> HIDE DEF n
        <5>4. Lease(outbox[e], w, n + 1)
            BY <5>2, <5>3, Leases
        <5>5. Lease(outbox'[e], w, n)
            BY <1>5, <4>1, <5>2, <5>4
        <5> QED
            BY <5>5 DEF n
      <4>5. ASSUME NEW h \in Hooks, ~Pausing(calls[w][h])
            PROVE  Lease(outbox'[e], w, Cost(rest, batch[w]) + Remaining(rest, calls'[w][h]))
        <5>1. Cost(rest, batch[w]) + Remaining(rest, calls'[w][h]) = Cost(rest, batch[w])
            BY <3>3, <3>4, <4>5
        <5> QED
            BY <4>4, <5>1
      <4> QED
          BY <4>3, <4>4, <4>5
    <3>6. LeaseInv(rest, w)'
        BY <1>1, <1>2, <1>3, <3>3, <3>5 DEF WorkerInv, LeaseInv
    <3>7. FreeInv(w)' /\ AnswerInv(w)'
      <4>1. pc'[w] = "deliver" /\ cur'[w] = cur[w] /\ AnswerInv(w)
          BY <1>1, <1>2, <2>2 DEF WorkerInv
      <4>2. \A h \in Hooks : calls'[w][h].is = calls[w][h].is
          BY <1>4
      <4> QED
          BY <3>3, <4>1, <4>2 DEF FreeInv, AnswerInv
    <3> QED
        BY <3>6, <3>7 DEF WorkerInv
  <2> QED
      BY <2>1, <2>2
<1>7. ClaimsApart'
    BY <1>2, ApartStays DEF Paced, PacedInv
<1>8. ToldInv'
    BY <1>1, <1>2, <1>3, <1>4, <1>5, ToldStays
<1> QED
    BY <1>6, <1>7, <1>8 DEF PacedInv

\* The committer's rows are new, and webhooks concern whoever loads a row next.
LEMMA EnvPaced ==
    ASSUME NEW rest, Paced(rest), Env
    PROVE  PacedInv(rest)'
<1>1. /\ IInv /\ TypeOK /\ ClaimInv /\ ToldInv /\ ClaimsApart
      /\ \A w \in Workers : WorkerInv(rest, w)
    BY DEF Paced, PacedInv, IInv
<1>2. UNCHANGED <<copies, pc, now, batch, cur, calls>>
    BY DEF Env, ChangeHooks, Enqueue, locals
<1>3. \A e \in Rows : outbox[e].status # "absent" => outbox'[e] = outbox[e]
    BY <1>1 DEF Env, ChangeHooks, Enqueue, Enqueued, TypeOK
<1>4. ASSUME NEW w \in Workers
      PROVE  WorkerInv(rest, w)'
  <2>1. ASSUME Bound(w), NEW e \in Mine(w)
        PROVE  outbox'[e] = outbox[e]
    <3>1. e \in Rows
        BY <1>1, <2>1, MineRows
    <3>2. outbox[e].status = "pending"
      <4>1. CASE pc[w] = "claim"
          BY <1>1, <2>1, <4>1 DEF ClaimInv, Mine, Delivering
      <4>2. CASE Holding(w)
          BY <2>1, <4>2, HeldNow
      <4> QED
          BY <2>1, <4>1, <4>2 DEF Bound
    <3> QED
        BY <1>3, <3>1, <3>2
  <2>2. WorkerInv(rest, w)
      BY <1>1
  <2> QED
      BY <1>2, <2>1, <2>2, Framed
<1>5. ClaimsApart'
    BY <1>1, <1>2, ApartStays
<1>6. ToldInv'
  <2>1. \A w \in Workers : Delivering(w)' = Delivering(w)
      BY <1>2 DEF Delivering
  <2> QED
      BY <1>1, <1>2, <1>3, <2>1, ToldStays
<1> QED
    BY <1>4, <1>5, <1>6 DEF PacedInv

-----------------------------------------------------------------------------
(* The theorem.                                                            *)

LEMMA PacedInit == \A rest : Init => PacedInv(rest)
<1> SUFFICES ASSUME NEW rest, Init PROVE PacedInv(rest)
    OBVIOUS
<1>1. \A w \in Workers : pc[w] = "off"
    BY DEF Init
<1>2. \A w \in Workers : WorkerInv(rest, w)
    BY <1>1 DEF WorkerInv, LeaseInv, FreeInv, AnswerInv, Holding, Delivering
<1>3. ClaimsApart
    BY <1>1 DEF ClaimsApart
<1>4. ToldInv
  <2>1. \A n \in {0} : ~(n > 0)
      OBVIOUS
  <2>2. ASSUME NEW e \in Rows, NEW h \in Hooks
        PROVE  copies[e, h] \in {0}
      BY DEF Init
  <2>3. \A e \in Rows, h \in Hooks : ~(copies[e, h] > 0)
      BY <2>1, <2>2, Zenon
  <2> QED
      BY <2>3, Zenon DEF ToldInv
<1> QED
    BY <1>2, <1>3, <1>4 DEF PacedInv

LEMMA PacedNext ==
    ASSUME NEW rest, LastsAtMost(rest), BatchSize * rest[1] <= LeaseSeconds,
           IInv, SizeInv, faults = 0 => PacedInv(rest), [LiveNext]_vars, faults' = 0
    PROVE  PacedInv(rest)'
<1>1. faults \in Nat
    BY DEF IInv, TypeOK
<1>2. ASSUME NEW w \in Workers, Fault(w)
      PROVE  FALSE
  <2>1. faults' = faults + 1
      BY <1>2 DEF Fault, Fail, MarkUnheard, Crash, Refused
  <2> QED
      BY <1>1, <2>1
<1>3. CASE UNCHANGED vars
  <2>1. PacedInv(rest)
      BY <1>3 DEF vars
  <2>2. UNCHANGED <<outbox, copies, pc, now, batch, cur, calls>>
      BY <1>3 DEF vars, locals
  <2>3. \A w \in Workers : WorkerInv(rest, w)'
      BY <2>1, <2>2, Framed DEF PacedInv
  <2>4. ClaimsApart'
      BY <2>1, <2>2 DEF PacedInv, ClaimsApart
  <2>5. ToldInv'
      BY <2>1, <2>2, ToldStays DEF PacedInv, Delivering
  <2> QED
      BY <2>3, <2>4, <2>5 DEF PacedInv
<1>4. ASSUME faults = 0
      PROVE  Paced(rest)
    BY <1>4 DEF Paced, SizeInv
<1>5. CASE PacedTick
    BY <1>4, <1>5, TickPaced DEF PacedTick, Tick
<1>6. CASE Env
    BY <1>4, <1>6, EnvPaced DEF Env, ChangeHooks, Enqueue
<1>7. ASSUME NEW w \in Workers, LiveStep(w)
      PROVE  PacedInv(rest)'
  <2>1. CASE Start(w) \/ IdlePoll(w) \/ ClaimSelect(w) \/ ClaimUpdate(w)
    <3>1. faults = 0
        BY <2>1 DEF Start, IdlePoll, ClaimSelect, ClaimUpdate, vars
    <3> QED
        BY <1>4, <2>1, <3>1, ClaimPaced
  <2>2. CASE ClaimCommit(w)
      BY <1>4, <2>2, CommitPaced DEF ClaimCommit
  <2>3. CASE Load(w)
      BY <1>4, <2>3, LoadPaced DEF Load
  <2>4. CASE Recheck(w)
      BY <1>4, <2>4, RecheckPaced DEF Recheck
  <2>5. CASE Mark(w)
      BY <1>4, <2>5, MarkPaced DEF Mark
  <2>6. ASSUME NEW h \in Hooks, Answered(w, h)
        PROVE  PacedInv(rest)'
      BY <1>4, <2>6, AnsweredPaced DEF Answered
  <2>7. ASSUME NEW h \in Hooks, Retry(w, h) \/ (h \in Hanging /\ TimedOut(w, h))
        PROVE  PacedInv(rest)'
    <3>1. faults = 0
        BY <2>7 DEF Retry, TimedOut
    <3> QED
        BY <1>4, <2>7, <3>1, RetriesPaced
  <2>8. CASE RetryOverflows(w)
      BY <1>4, <2>8, OverflowPaced DEF RetryOverflows
  <2> QED
      BY <1>7, <2>1, <2>2, <2>3, <2>4, <2>5, <2>6, <2>7, <2>8
         DEF LiveStep, Claim, Process, PunctualDeliver
<1> QED
    BY <1>2, <1>3, <1>5, <1>6, <1>7 DEF LiveNext

\* As long as nothing fails, no row of webhooks that answer is delivered twice,
\* however long the webhooks of other rows hang, if lease_seconds covers a batch of
\* webhooks that all time out: _MAX_ATTEMPTS time-outs and the back-offs of
\* deliver_to_webhook, for each of the batch_size rows.
THEOREM NobodyToldTwice ==
    ASSUME NEW rest, LastsAtMost(rest), BatchSize * rest[1] <= LeaseSeconds
    PROVE  LiveSpec => []OnceWithoutFaults
<1> DEFINE Inv == faults = 0 => PacedInv(rest)
<1>1. Init => Inv
    BY PacedInit
<1>2. IInv /\ SizeInv /\ Inv /\ [LiveNext]_vars => Inv'
    BY PacedNext
<1>3. IInv /\ Inv => OnceWithoutFaults
  <2> SUFFICES ASSUME IInv, faults = 0, PacedInv(rest),
                      NEW e \in Rows, NEW h \in Hooks, Healthy(e)
               PROVE  copies[e, h] <= 1
      BY DEF OnceWithoutFaults
  <2> DEFINE n == copies[<<e, h>>]
  <2>1. n \in Nat
      BY DEF IInv, TypeOK
  <2>2. n > 0 => n = 1
      BY DEF PacedInv, ToldInv
  <2> HIDE DEF n
  <2>3. n <= 1
      BY <2>1, <2>2
  <2> QED
      BY <2>3 DEF n
<1> HIDE DEF Inv
<1>4. LiveSpec => [](IInv /\ SizeInv)
    BY LiveImplementsSpec, SizeInvariance, PTL
<1> QED
    BY <1>1, <1>2, <1>3, <1>4, PTL DEF LiveSpec
=============================================================================
