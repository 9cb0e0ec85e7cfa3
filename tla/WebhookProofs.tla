----------------------------- MODULE WebhookProofs -----------------------------
(***************************************************************************)
(* The theorems about WebhookWorker, for any number of rows, workers and   *)
(* webhooks: a row is settled only if it was delivered, and for good.      *)
(***************************************************************************)
EXTENDS WebhookWorker, TLAPS

Delivering(w) == pc[w] \in {"deliver", "mark"}

\* Only a worker at its deliveries has any, of a row of the table, and they count
\* their tries.
CallInv ==
    \A w \in Workers :
        /\ Delivering(w) => cur[w] \in Rows
        /\ \A h \in Hooks :
            /\ ~Delivering(w) => calls[w][h].is = "idle"
            /\ calls[w][h].is \in {"request", "sleep"} => calls[w][h].tries > 0
            /\ calls[w][h].is = "sleep" => calls[w][h].tries < MaxTries

Steady == Registered \ Volatile

\* A webhook that was there all the time is among those a worker delivers to, and
\* what it takes for a success was received.
PaidInv ==
    /\ Steady \subseteq hooks
    /\ \A w \in Workers : Delivering(w) =>
        \A h \in Steady : cur[w] \in Subscribes[h] =>
            /\ calls[w][h].is # "idle"
            /\ calls[w][h].is = "ok" => copies[cur[w], h] > 0

\* What a claim has updated stays pending until the claim commits: marks wait.  A
\* claim starts from nothing.
ClaimInv ==
    \A w \in Workers :
        /\ pc[w] = "claim" => \A e \in batch[w] : outbox[e].status = "pending"
        /\ pc[w] \in {"off", "idle"} => batch[w] = {}

\* A row that is done is not leased.
DoneInv == \A e \in Rows : outbox[e].status = "done" => outbox[e].lease_owner = Null

\* The invariant that makes the properties inductive.
IInv == TypeOK /\ CallInv /\ PaidInv /\ ClaimInv /\ DoneInv /\ DoneDelivered

-----------------------------------------------------------------------------
(* The operators.                                                          *)

\* Back-offs are naturals.
LEMMA DelayNat == \A a \in Int : Queue!RetryDelay(a) \in Nat
BY NumbersAssumption DEF Queue!RetryDelay

\* An absent row and a fresh one are rows, and not done.
LEMMA NewRows ==
    /\ Absent \in Row /\ Absent.status = "absent"
    /\ Queue!Fresh(Now) \in Row /\ Queue!Fresh(Now).status = "pending"
BY NumbersAssumption DEF Row, Queue!Fresh, Absent

\* A claim changes the lease and nothing else.
LEMMA ClaimedRow ==
    ASSUME NEW row \in Row, NEW w \in Workers, NEW n \in Nat
    PROVE  /\ Queue!Claimed(row, w, n) \in Row
           /\ Queue!Claimed(row, w, n).status = row.status
<1> DEFINE until == n + LeaseSeconds
<1>1. until \in Nat
    BY NumbersAssumption
<1>2. Queue!Claimed(row, w, n) = [row EXCEPT !.lease_owner = w, !.lease_until = until]
    BY DEF Queue!Claimed
<1> HIDE DEF until
<1> QED
    BY <1>1, <1>2 DEF Row

\* A retry gives the lease up and leaves the status alone.
LEMMA RetriedRow ==
    ASSUME NEW row \in Row, NEW a \in Int, a + 1 \in 0 .. MaxExponent + 1
    PROVE  /\ Queue!Retried(row, a, Now) \in Row
           /\ Queue!Retried(row, a, Now).status = row.status
           /\ Queue!Retried(row, a, Now).lease_owner = Null
<1> DEFINE next == Now + Queue!RetryDelay(a + 1)
           tried == a + 1
<1>1. next \in Nat /\ tried \in 0 .. MaxExponent + 1
    BY DelayNat, NumbersAssumption
<1>2. Queue!Retried(row, a, Now) =
        [row EXCEPT !.attempts = tried, !.next_attempt_at = next,
                    !.lease_owner = Null, !.lease_until = Null]
    BY DEF Queue!Retried
<1> HIDE DEF next, tried
<1> QED
    BY <1>1, <1>2 DEF Row

\* Closing a row sets its status and clears its lease.
LEMMA ClosedRow ==
    ASSUME NEW row \in Row
    PROVE  /\ Queue!Closed(row, "done") \in Row
           /\ Queue!Closed(row, "done").status = "done"
           /\ Queue!Closed(row, "done").lease_owner = Null
BY DEF Row, Queue!Closed

\* A row that grows older stays what it is.
LEMMA OlderRow ==
    ASSUME NEW row \in Row
    PROVE  LET older == [row EXCEPT !.next_attempt_at = Older(@, 0),
                                    !.lease_until = IF @ = Null THEN Null ELSE Older(@, 0)]
           IN  /\ older \in Row
               /\ older.status = row.status
               /\ older.lease_owner = row.lease_owner
<1> DEFINE next == Older(row.next_attempt_at, 0)
           until == IF row.lease_until = Null THEN Null ELSE Older(row.lease_until, 0)
<1>1. next \in Nat /\ until \in Nat \union {Null}
    BY DEF Row, Older
<1> HIDE DEF next, until
<1>2. [row EXCEPT !.next_attempt_at = next, !.lease_until = until] \in Row
    BY <1>1 DEF Row
<1>3. LET older == [row EXCEPT !.next_attempt_at = next, !.lease_until = until]
      IN  older.status = row.status /\ older.lease_owner = row.lease_owner
    BY DEF Row
<1> QED
    BY <1>2, <1>3 DEF next, until

\* The states of a delivery.
LEMMA Calls ==
    /\ Idle \in Call /\ Idle.is = "idle"
    /\ \A n \in 1 .. MaxTries :
        /\ Request(n) \in Call /\ Request(n).is = "request" /\ Request(n).tries = n
        /\ Sleep(n) \in Call /\ Sleep(n).is = "sleep" /\ Sleep(n).tries = n
    /\ \A result \in {"ok", "failed"} :
        Returned(result) \in Call /\ Returned(result).is = result
<1> USE NumbersAssumption
<1>1. Idle \in Call /\ Idle.is = "idle"
    BY DEF Idle, Call
<1>2. ASSUME NEW n \in 1 .. MaxTries
      PROVE  Request(n) \in Call /\ Request(n).is = "request" /\ Request(n).tries = n
    BY DEF Request, Call
<1>3. ASSUME NEW n \in 1 .. MaxTries
      PROVE  Sleep(n) \in Call /\ Sleep(n).is = "sleep" /\ Sleep(n).tries = n
  <2> DEFINE pause == Backoff * 2^(n - 1)
  <2>1. pause \in Nat
      BY BackoffAssumption
  <2>2. Sleep(n) = [is |-> "sleep", tries |-> n, left |-> pause]
      BY DEF Sleep
  <2> HIDE DEF pause
  <2> QED
      BY <2>1, <2>2 DEF Call
<1>4. ASSUME NEW result \in {"ok", "failed"}
      PROVE  Returned(result) \in Call /\ Returned(result).is = result
    BY DEF Returned, Call
<1> QED
    BY <1>1, <1>2, <1>3, <1>4

\* A timer that runs on.
LEMMA OlderCall ==
    ASSUME NEW call \in Call
    PROVE  /\ [call EXCEPT !.left = Older(@, 0)] \in Call
           /\ [call EXCEPT !.left = Older(@, 0)].is = call.is
           /\ [call EXCEPT !.left = Older(@, 0)].tries = call.tries
<1> DEFINE left == Older(call.left, 0)
<1>1. left \in Nat
    BY DEF Call, Older
<1> HIDE DEF left
<1>2. /\ [call EXCEPT !.left = left] \in Call
      /\ [call EXCEPT !.left = left].is = call.is
      /\ [call EXCEPT !.left = left].tries = call.tries
    BY <1>1 DEF Call
<1> QED
    BY <1>2 DEF left

-----------------------------------------------------------------------------
(* The steps, in groups.                                                   *)

\* What receivers got they keep.
CopiesGrow ==
    /\ copies' \in [Rows \X Hooks -> 0 .. MaxCopies]
    /\ \A e \in Rows, h \in Hooks : copies[e, h] > 0 => copies'[e, h] > 0

\* A row keeps its status, or is settled by w, with every webhook's receipt and no
\* claim in its way; one that is done is not leased.
OutboxStep(w) ==
    /\ outbox' \in [Rows -> Row]
    /\ \A e \in Rows :
        \/ outbox'[e].status = outbox[e].status
        \/ /\ outbox'[e].status = "done"
           /\ ~RowBusy(w, e)
           /\ \A h \in Steady : e \in Subscribes[h] => copies[e, h] > 0
    /\ DoneInv'

\* Counting a copy.
LEMMA ReceiveGrows ==
    ASSUME TypeOK, NEW e \in Rows, NEW h \in Hooks, Receive(e, h)
    PROVE  CopiesGrow /\ copies'[e, h] > 0
<1> DEFINE more == IF copies[e, h] < MaxCopies THEN copies[e, h] + 1 ELSE copies[e, h]
<1>1. copies[<<e, h>>] \in 0 .. MaxCopies
    BY DEF TypeOK
<1>2. more \in 0 .. MaxCopies /\ more > 0
  <2>1. \A n \in 0 .. MaxCopies :
          LET m == IF n < MaxCopies THEN n + 1 ELSE n IN m \in 0 .. MaxCopies /\ m > 0
      BY NumbersAssumption
  <2> QED
      BY <1>1, <2>1
<1>3. copies' = [copies EXCEPT ![<<e, h>>] = more]
    BY DEF Receive
<1> HIDE DEF more
<1> QED
    BY <1>2, <1>3 DEF TypeOK, CopiesGrow

\* Nothing received, nothing lost.
LEMMA CopiesStay == TypeOK /\ UNCHANGED copies => CopiesGrow
BY DEF TypeOK, CopiesGrow

\* A worker whose session is closed, or that goes on to the next row, leaves nothing
\* behind but what it did to the tables.
LEMMA EndInv ==
    ASSUME IInv, NEW w \in Workers,
           \/ \E label \in {"idle", "dead"} : Reset(w, label)
           \/ \E rest \in SUBSET Rows : Continue(w, rest),
           faults' \in 0 .. MaxFaults, UNCHANGED hooks, CopiesGrow, OutboxStep(w)
    PROVE  IInv'
<1> USE DEF IInv
<1>0. 0 \in 0 .. Now /\ 0 \in 0 .. MaxExponent + 1
    BY NumbersAssumption
<1>1. /\ pc' \in [Workers -> {"off", "idle", "claim", "work", "deliver", "mark", "dead"}]
      /\ now' \in [Workers -> 0 .. Now] /\ todo' \in [Workers -> SUBSET Rows]
      /\ batch' \in [Workers -> SUBSET Rows]
      /\ cur' \in [Workers -> Rows \union {Null}]
      /\ seen' \in [Workers -> 0 .. MaxExponent + 1]
  <2>1. CASE \E label \in {"idle", "dead"} : Reset(w, label)
      BY <1>0, <2>1 DEF TypeOK, Reset, Goto
  <2>2. CASE \E rest \in SUBSET Rows : Continue(w, rest)
      BY <1>0, <2>2 DEF TypeOK, Continue, Goto
  <2> QED
      BY <2>1, <2>2
<1>2. Silent \in [Hooks -> Call] /\ \A h \in Hooks : Silent[h].is = "idle"
    BY Calls DEF Silent
<1>3. calls' = [calls EXCEPT ![w] = Silent]
    BY DEF Reset, Continue
<1>4. /\ pc'[w] \in {"idle", "dead", "work"}
      /\ \A v \in Workers \ {w} :
            /\ pc'[v] = pc[v] /\ cur'[v] = cur[v] /\ batch'[v] = batch[v]
            /\ calls'[v] = calls[v]
    BY <1>3 DEF TypeOK, Reset, Continue, Goto
<1>5. calls' \in [Workers -> [Hooks -> Call]] /\ calls'[w] = Silent
    BY <1>2, <1>3 DEF TypeOK
<1>6. TypeOK'
    BY <1>1, <1>5 DEF TypeOK, OutboxStep, CopiesGrow
<1>7. CallInv'
    BY <1>2, <1>4, <1>5 DEF CallInv, Delivering
<1>8. PaidInv'
  <2>1. ASSUME NEW v \in Workers, Delivering(v)', NEW h \in Steady, cur'[v] \in Subscribes[h]
        PROVE  /\ calls'[v][h].is # "idle"
               /\ calls'[v][h].is = "ok" => copies'[cur'[v], h] > 0
    <3>1. v # w /\ Delivering(v)
        BY <1>4, <2>1 DEF Delivering
    <3>2. cur[v] \in Rows /\ h \in Hooks
        BY <3>1, HooksAssumption DEF CallInv, Steady
    <3> QED
        BY <1>4, <2>1, <3>1, <3>2 DEF PaidInv, CopiesGrow
  <2> QED
      BY <2>1 DEF PaidInv, Steady
<1>9. ClaimInv'
  <2>1. ASSUME NEW v \in Workers, pc'[v] = "claim", NEW e \in batch'[v]
        PROVE  outbox'[e].status = "pending"
    <3>1. v # w /\ pc[v] = "claim" /\ e \in batch[v] /\ e \in Rows
        BY <1>4, <2>1 DEF TypeOK
    <3> QED
        BY <3>1 DEF ClaimInv, OutboxStep, RowBusy
  <2>2. ASSUME NEW v \in Workers, pc'[v] \in {"off", "idle"}
        PROVE  batch'[v] = {}
    <3>1. CASE v = w
        BY <2>2, <3>1 DEF TypeOK, Reset, Continue, Goto
    <3>2. CASE v # w
        BY <1>4, <2>2, <3>2 DEF ClaimInv
    <3> QED
        BY <3>1, <3>2
  <2> QED
      BY <2>1, <2>2 DEF ClaimInv
<1>10. DoneDelivered'
  <2>1. ASSUME NEW e \in Rows, NEW h \in Registered \ Volatile,
               outbox'[e].status = "done", e \in Subscribes[h]
        PROVE  copies'[e, h] > 0
    <3>1. copies[e, h] > 0
        BY <2>1 DEF DoneDelivered, OutboxStep, Steady
    <3> QED
        BY <3>1, HooksAssumption DEF CopiesGrow
  <2> QED
      BY <2>1 DEF DoneDelivered
<1> QED
    BY <1>6, <1>7, <1>8, <1>9, <1>10 DEF OutboxStep

\* The table stays as it is.
LEMMA OutboxStays ==
    ASSUME IInv, NEW w \in Workers, UNCHANGED outbox
    PROVE  OutboxStep(w)
BY DEF IInv, TypeOK, DoneInv, OutboxStep

\* One delivery goes on.
LEMMA DeliveryInv ==
    ASSUME IInv, NEW w \in Workers, NEW h \in Hooks, NEW c \in Call,
           calls[w][h].is \in {"request", "sleep"},
           calls' = [calls EXCEPT ![w][h] = c],
           c.is # "idle",
           c.is \in {"request", "sleep"} => c.tries > 0,
           c.is = "sleep" => c.tries < MaxTries,
           CopiesGrow, c.is = "ok" => copies'[cur[w], h] > 0,
           faults' \in 0 .. MaxFaults,
           UNCHANGED <<outbox, hooks, pc, now, todo, batch, cur, seen>>
    PROVE  IInv'
<1> USE DEF IInv
<1>1. /\ calls' \in [Workers -> [Hooks -> Call]]
      /\ \A v \in Workers, g \in Hooks :
            calls'[v][g] = IF v = w /\ g = h THEN c ELSE calls[v][g]
    BY DEF TypeOK
<1>2. TypeOK'
    BY <1>1 DEF TypeOK, CopiesGrow
<1>3. Delivering(w) /\ \A v \in Workers : Delivering(v)' = Delivering(v)
    BY DEF CallInv, Delivering
<1>4. CallInv'
  <2>1. ASSUME NEW v \in Workers, NEW g \in Hooks
        PROVE  /\ ~Delivering(v) => calls'[v][g].is = "idle"
               /\ calls'[v][g].is \in {"request", "sleep"} => calls'[v][g].tries > 0
               /\ calls'[v][g].is = "sleep" => calls'[v][g].tries < MaxTries
    <3>1. CASE v = w /\ g = h
        BY <1>1, <1>3, <3>1
    <3>2. CASE ~(v = w /\ g = h)
        BY <1>1, <3>2 DEF CallInv
    <3> QED
        BY <3>1, <3>2
  <2>2. \A v \in Workers : Delivering(v) => cur'[v] \in Rows
      BY DEF CallInv
  <2> QED
      BY <1>3, <2>1, <2>2 DEF CallInv
<1>5. PaidInv'
  <2>1. ASSUME NEW v \in Workers, Delivering(v), NEW g \in Steady, cur[v] \in Subscribes[g]
        PROVE  /\ calls'[v][g].is # "idle"
               /\ calls'[v][g].is = "ok" => copies'[cur[v], g] > 0
    <3>1. cur[v] \in Rows /\ g \in Hooks
        BY <2>1, HooksAssumption DEF CallInv, Steady
    <3>2. /\ calls[v][g].is # "idle"
          /\ calls[v][g].is = "ok" => copies'[cur[v], g] > 0
        BY <2>1, <3>1 DEF PaidInv, CopiesGrow
    <3> QED
        BY <1>1, <3>1, <3>2
  <2> QED
      BY <1>3, <2>1 DEF PaidInv, Steady
<1>6. ClaimInv' /\ DoneInv'
    BY DEF ClaimInv, DoneInv
<1>7. DoneDelivered'
    BY HooksAssumption DEF DoneDelivered, CopiesGrow
<1> QED
    BY <1>2, <1>4, <1>5, <1>6, <1>7

LEMMA InitInv == Init => IInv
<1> SUFFICES ASSUME Init PROVE IInv
    OBVIOUS
<1>1. Silent \in [Hooks -> Call] /\ \A h \in Hooks : Silent[h].is = "idle"
    BY Calls DEF Silent
<1>2. TypeOK
    BY <1>1, NewRows, HooksAssumption, NumbersAssumption DEF Init, TypeOK
<1>3. CallInv /\ PaidInv /\ ClaimInv
    BY <1>1 DEF Init, CallInv, PaidInv, ClaimInv, Delivering, Steady
<1>4. DoneInv /\ DoneDelivered
    BY NewRows DEF Init, DoneInv, DoneDelivered
<1> QED
    BY <1>2, <1>3, <1>4 DEF IInv

\* A failure counts.
LEMMA FaultCounts ==
    ASSUME TypeOK, faults < MaxFaults, faults' = faults + 1
    PROVE  faults' \in 0 .. MaxFaults
BY NumbersAssumption DEF TypeOK

\* A claim leases pending rows.
LEMMA ClaimCommitRows ==
    ASSUME IInv, NEW w \in Workers, ClaimCommit(w)
    PROVE  OutboxStep(w)
<1> USE DEF IInv
<1>1. now[w] \in Nat /\ pc[w] = "claim"
    BY NumbersAssumption DEF ClaimCommit, TypeOK
<1>2. ASSUME NEW e \in Rows
      PROVE  /\ outbox'[e] \in Row /\ outbox'[e].status = outbox[e].status
             /\ outbox[e].status = "done" => outbox'[e] = outbox[e]
  <2>1. outbox[e] \in Row
      BY DEF TypeOK
  <2>2. outbox'[e] = IF e \in batch[w] THEN Queue!Claimed(outbox[e], w, now[w]) ELSE outbox[e]
      BY DEF ClaimCommit
  <2>3. e \in batch[w] => outbox[e].status = "pending"
      BY <1>1 DEF ClaimInv
  <2> QED
      BY <1>1, <2>1, <2>2, <2>3, ClaimedRow
<1>3. outbox' = [e \in Rows |-> outbox'[e]]
    BY DEF ClaimCommit
<1>4. outbox' \in [Rows -> Row]
    BY <1>2, <1>3
<1>5. DoneInv'
    BY <1>2 DEF DoneInv
<1> QED
    BY <1>2, <1>4, <1>5 DEF OutboxStep

\* A row is settled when every delivery returned with success, backed off otherwise;
\* a status it has got meanwhile it keeps.
LEMMA MarkRows ==
    ASSUME IInv, NEW w \in Workers, pc[w] = "mark", ~RowBusy(w, cur[w]), Settled(w)
    PROVE  OutboxStep(w)
<1> USE DEF IInv
<1>1. cur[w] \in Rows /\ outbox[cur[w]] \in Row /\ seen[w] \in 0 .. MaxExponent + 1
    BY DEF CallInv, Delivering, TypeOK
<1> DEFINE new == IF AllSucceeded(w) THEN Queue!Closed(outbox[cur[w]], "done")
                  ELSE Queue!Retried(outbox[cur[w]], seen[w], Now)
<1>2. ~AllSucceeded(w) => seen[w] \in Int /\ seen[w] + 1 \in 0 .. MaxExponent + 1
    BY <1>1, NumbersAssumption DEF Settled, Queue!Retriable
<1>3. outbox' = [outbox EXCEPT ![cur[w]] = new]
    BY DEF Settled
<1>4. /\ new \in Row /\ new.lease_owner = Null
      /\ AllSucceeded(w) => new.status = "done"
      /\ ~AllSucceeded(w) => new.status = outbox[cur[w]].status
    BY <1>1, <1>2, ClosedRow, RetriedRow
<1> HIDE DEF new
<1>5. outbox' \in [Rows -> Row]
    BY <1>1, <1>3, <1>4 DEF TypeOK
<1>6. outbox'[cur[w]] = new /\ \A e \in Rows \ {cur[w]} : outbox'[e] = outbox[e]
    BY <1>1, <1>3 DEF TypeOK
<1>7. ASSUME AllSucceeded(w), NEW h \in Steady, cur[w] \in Subscribes[h]
      PROVE  copies[cur[w], h] > 0
  <2>1. calls[w][h].is \in {"idle", "ok"}
      BY <1>7, HooksAssumption DEF AllSucceeded, Steady
  <2> QED
      BY <1>7, <2>1 DEF PaidInv, Delivering
<1>8. DoneInv'
    BY <1>4, <1>6 DEF DoneInv
<1> QED
    BY <1>4, <1>5, <1>6, <1>7, <1>8 DEF OutboxStep

\* The steps after which a worker is at the next row, at the next poll, or gone.
LEMMA EndSteps ==
    ASSUME IInv, NEW w \in Workers,
           \/ ClaimCommit(w) \/ Mark(w) \/ RetryOverflows(w)
           \/ Fail(w) \/ MarkUnheard(w) \/ Crash(w)
    PROVE  IInv'
<1> USE DEF IInv
<1>1. faults \in 0 .. MaxFaults /\ batch[w] \in SUBSET Rows
    BY DEF TypeOK
<1>2. CASE ClaimCommit(w)
  <2>1. OutboxStep(w) /\ CopiesGrow
      BY <1>2, ClaimCommitRows, CopiesStay DEF ClaimCommit
  <2>2. faults' \in 0 .. MaxFaults /\ UNCHANGED hooks
      BY <1>1, <1>2 DEF ClaimCommit
  <2> QED
      BY <1>1, <1>2, <2>1, <2>2, EndInv DEF ClaimCommit
<1>3. CASE Mark(w)
  <2>1. OutboxStep(w) /\ CopiesGrow
      BY <1>3, MarkRows, CopiesStay DEF Mark
  <2>2. faults' \in 0 .. MaxFaults /\ UNCHANGED hooks
      BY <1>1, <1>3 DEF Mark
  <2> QED
      BY <1>1, <1>3, <2>1, <2>2, EndInv DEF Mark
<1>4. CASE Fail(w)
  <2>1. OutboxStep(w) /\ CopiesGrow
      BY <1>4, OutboxStays, CopiesStay DEF Fail
  <2>2. faults' \in 0 .. MaxFaults /\ UNCHANGED hooks
      BY <1>4, FaultCounts DEF Fail
  <2> QED
      BY <1>4, <2>1, <2>2, EndInv DEF Fail
<1>5. CASE MarkUnheard(w)
  <2>1. OutboxStep(w) /\ CopiesGrow
      BY <1>5, MarkRows, CopiesStay DEF MarkUnheard
  <2>2. faults' \in 0 .. MaxFaults /\ UNCHANGED hooks
      BY <1>5, FaultCounts DEF MarkUnheard
  <2> QED
      BY <1>5, <2>1, <2>2, EndInv DEF MarkUnheard
<1>6. CASE Crash(w)
  <2>1. OutboxStep(w)
      BY <1>6, OutboxStays DEF Crash
  <2>2. CopiesGrow
    <3>1. CASE UNCHANGED copies
        BY <3>1, CopiesStay
    <3>2. ASSUME NEW h \in Hooks, calls[w][h].is = "request", Receive(cur[w], h)
          PROVE  CopiesGrow
      <4>1. cur[w] \in Rows
          BY <3>2 DEF CallInv
      <4> QED
          BY <3>2, <4>1, ReceiveGrows
    <3> QED
        BY <1>6, <3>1, <3>2 DEF Crash
  <2>3. faults' \in 0 .. MaxFaults /\ UNCHANGED hooks
      BY <1>6, FaultCounts DEF Crash
  <2> QED
      BY <1>6, <2>1, <2>2, <2>3, EndInv DEF Crash
<1>7. CASE RetryOverflows(w)
  <2>1. OutboxStep(w) /\ CopiesGrow
      BY <1>7, OutboxStays, CopiesStay DEF RetryOverflows
  <2>2. faults' \in 0 .. MaxFaults /\ UNCHANGED hooks
      BY <1>1, <1>7 DEF RetryOverflows
  <2> QED
      BY <1>7, <2>1, <2>2, EndInv DEF RetryOverflows
<1> QED
    BY <1>2, <1>3, <1>4, <1>5, <1>6, <1>7

\* A request is answered, timed out or refused, or sent again, or goes on.
LEMMA DeliverySteps ==
    ASSUME IInv, NEW w \in Workers, NEW h \in Hooks,
           \/ Answered(w, h) \/ Trickled(w, h)
           \/ TimedOut(w, h) \/ Refused(w, h) \/ Retry(w, h)
    PROVE  IInv'
<1> USE DEF IInv
<1>1. /\ calls[w][h].is \in {"request", "sleep"}
      /\ calls[w][h].is = "sleep" <=> Retry(w, h)
    BY DEF Answered, Trickled, TimedOut, Refused, Retry
<1>2. cur[w] \in Rows /\ calls[w][h] \in Call /\ faults \in 0 .. MaxFaults
    BY <1>1 DEF CallInv, TypeOK
<1>3. calls[w][h].tries \in 1 .. MaxTries
    BY <1>1, <1>2, NumbersAssumption DEF CallInv, Call
<1>4. CASE Answered(w, h)
  <2>1. CopiesGrow /\ copies'[cur[w], h] > 0
      BY <1>2, <1>4, ReceiveGrows DEF Answered
  <2>2. Returned("ok") \in Call /\ Returned("ok").is = "ok"
      BY Calls
  <2>3. calls' = [calls EXCEPT ![w][h] = Returned("ok")]
      BY <1>4 DEF Answered
  <2>4. /\ faults' \in 0 .. MaxFaults
        /\ UNCHANGED <<outbox, hooks, pc, now, todo, batch, cur, seen>>
      BY <1>2, <1>4 DEF Answered
  <2> QED
      BY <1>1, <2>1, <2>2, <2>3, <2>4, DeliveryInv
<1>5. CASE TimedOut(w, h) \/ Refused(w, h)
  <2> DEFINE c == IF calls[w][h].tries < MaxTries
                  THEN Sleep(calls[w][h].tries) ELSE Returned("failed")
  <2>1. /\ c \in Call /\ c.is \in {"sleep", "failed"}
        /\ c.is = "sleep" => c.tries > 0 /\ c.tries < MaxTries
    <3>1. CASE calls[w][h].tries < MaxTries
        BY <1>3, <3>1, Calls, NumbersAssumption
    <3>2. CASE ~(calls[w][h].tries < MaxTries)
        BY <3>2, Calls
    <3> QED
        BY <3>1, <3>2
  <2>2. calls' = [calls EXCEPT ![w][h] = c]
      BY <1>5 DEF TimedOut, Refused, Unanswered
  <2> HIDE DEF c
  <2>3. CopiesGrow
      BY <1>2, <1>5, ReceiveGrows, CopiesStay DEF TimedOut, Refused
  <2>4. /\ faults' \in 0 .. MaxFaults
        /\ UNCHANGED <<outbox, hooks, pc, now, todo, batch, cur, seen>>
      BY <1>2, <1>5, FaultCounts DEF TimedOut, Refused
  <2> QED
      BY <1>1, <2>1, <2>2, <2>3, <2>4, DeliveryInv
<1>6. CASE Retry(w, h)
  <2> DEFINE n == calls[w][h].tries + 1
  <2>1. n \in 1 .. MaxTries
      BY <1>1, <1>3, <1>6, NumbersAssumption DEF CallInv
  <2>2. calls' = [calls EXCEPT ![w][h] = Request(n)]
      BY <1>6 DEF Retry
  <2>3. CopiesGrow
      BY <1>6, CopiesStay DEF Retry
  <2>4. /\ faults' \in 0 .. MaxFaults
        /\ UNCHANGED <<outbox, hooks, pc, now, todo, batch, cur, seen>>
      BY <1>2, <1>6 DEF Retry
  <2> HIDE DEF n
  <2>5. Request(n) \in Call /\ Request(n).is = "request" /\ Request(n).tries > 0
      BY <2>1, Calls, NumbersAssumption
  <2> QED
      BY <1>1, <2>2, <2>3, <2>4, <2>5, DeliveryInv
<1>7. CASE Trickled(w, h)
  <2> DEFINE c == [calls[w][h] EXCEPT !.left = Timeout]
  <2>1. /\ calls' = [calls EXCEPT ![w][h] = c]
        /\ calls[w][h].is = "request"
      BY <1>7 DEF Trickled
  <2>2. c \in Call /\ c.is = "request" /\ c.tries > 0
      BY <1>2, <1>3, <2>1, NumbersAssumption DEF Call
  <2>3. CopiesGrow
      BY <1>7, CopiesStay DEF Trickled
  <2>4. /\ faults' \in 0 .. MaxFaults
        /\ UNCHANGED <<outbox, hooks, pc, now, todo, batch, cur, seen>>
      BY <1>2, <1>7 DEF Trickled
  <2> HIDE DEF c
  <2> QED
      BY <1>1, <2>1, <2>2, <2>3, <2>4, DeliveryInv
<1> QED
    BY <1>4, <1>5, <1>6, <1>7

\* The claim up to its COMMIT: the tables stay, and what it updates is pending.
LEMMA ClaimSteps ==
    ASSUME IInv, NEW w \in Workers, Start(w) \/ ClaimSelect(w) \/ ClaimUpdate(w)
    PROVE  IInv'
<1> USE DEF IInv
<1>1. /\ \A v \in Workers : Delivering(v)' = Delivering(v)
      /\ UNCHANGED <<faults, outbox, hooks, copies, cur, seen, calls>>
  <2>1. CASE Start(w)
      BY <2>1 DEF Start, Goto, TypeOK, Delivering, locals
  <2>2. CASE ClaimSelect(w)
      BY <2>2 DEF ClaimSelect, Goto, TypeOK, Delivering
  <2>3. CASE ClaimUpdate(w)
      BY <2>3 DEF ClaimUpdate, Delivering
  <2> QED
      BY <2>1, <2>2, <2>3
<1>2. TypeOK'
  <2>1. CASE Start(w)
      BY <2>1 DEF Start, Goto, TypeOK, locals
  <2>2. CASE ClaimSelect(w)
    <3>1. Queue!Candidates(outbox, Now, BatchSize) \subseteq Rows
        BY DEF Queue!Candidates, TypeOK
    <3>2. Now \in 0 .. Now
        BY NumbersAssumption
    <3> QED
        BY <2>2, <3>1, <3>2 DEF ClaimSelect, Goto, TypeOK
  <2>3. CASE ClaimUpdate(w)
    <3>1. PICK e \in todo[w] :
            /\ todo' = [todo EXCEPT ![w] = @ \ {e}]
            /\ batch' \in {batch, [batch EXCEPT ![w] = @ \union {e}]}
        BY <2>3 DEF ClaimUpdate, TypeOK
    <3> QED
        BY <2>3, <3>1 DEF ClaimUpdate, TypeOK
  <2> QED
      BY <2>1, <2>2, <2>3
<1>3. CallInv' /\ PaidInv' /\ DoneInv' /\ DoneDelivered'
    BY <1>1 DEF CallInv, PaidInv, DoneInv, DoneDelivered
<1>4. ClaimInv'
  <2>1. CASE Start(w)
      BY <2>1 DEF Start, Goto, TypeOK, ClaimInv, locals
  <2>2. CASE ClaimSelect(w)
      BY <2>2 DEF ClaimSelect, Goto, TypeOK, ClaimInv
  <2>3. CASE ClaimUpdate(w)
      BY <2>3 DEF ClaimUpdate, ClaimInv, TypeOK, Queue!StillClaimable
  <2> QED
      BY <2>1, <2>2, <2>3
<1> QED
    BY <1>2, <1>3, <1>4

\* Deliveries start to every webhook that subscribes to the row.
LEMMA LoadStep ==
    ASSUME IInv, NEW w \in Workers, Load(w)
    PROVE  IInv'
<1> USE DEF IInv
<1>1. /\ faults' \in 0 .. MaxFaults /\ UNCHANGED <<faults, outbox, hooks, copies>>
      /\ pc[w] = "work"
    BY DEF Load, TypeOK
<1>2. PICK e \in batch[w] :
        \/ /\ Goto(w, "deliver")
           /\ batch' = [batch EXCEPT ![w] = @ \ {e}]
           /\ cur' = [cur EXCEPT ![w] = e]
           /\ calls' = [calls EXCEPT ![w] =
                [h \in Hooks |-> IF h \in Matches(e) THEN Request(1) ELSE Idle]]
           /\ UNCHANGED <<now, todo, seen>>
        \/ Continue(w, batch[w] \ {e})
    BY DEF Load
<1>3. e \in Rows /\ batch[w] \ {e} \in SUBSET Rows
    BY DEF TypeOK
<1>4. CASE Continue(w, batch[w] \ {e})
  <2>1. OutboxStep(w) /\ CopiesGrow
      BY <1>1, OutboxStays, CopiesStay
  <2> QED
      BY <1>1, <1>3, <1>4, <2>1, EndInv
<1>5. CASE ~Continue(w, batch[w] \ {e})
  <2> DEFINE new == [h \in Hooks |-> IF h \in Matches(e) THEN Request(1) ELSE Idle]
  <2>1. /\ pc' = [pc EXCEPT ![w] = "deliver"]
        /\ batch' = [batch EXCEPT ![w] = @ \ {e}]
        /\ cur' = [cur EXCEPT ![w] = e]
        /\ calls' = [calls EXCEPT ![w] = new]
        /\ UNCHANGED <<now, todo, seen>>
      BY <1>2, <1>5 DEF Goto
  <2>2. ASSUME NEW h \in Hooks
        PROVE  /\ new[h] \in Call
               /\ new[h].is = IF h \in Matches(e) THEN "request" ELSE "idle"
               /\ new[h].is = "request" => new[h].tries = 1
    <3>1. 1 \in 1 .. MaxTries
        BY NumbersAssumption
    <3>2. CASE h \in Matches(e)
        BY <3>1, <3>2, Calls
    <3>3. CASE h \notin Matches(e)
        BY <3>3, Calls
    <3> QED
        BY <3>2, <3>3
  <2>3. new \in [Hooks -> Call]
    <3>1. new = [h \in Hooks |-> new[h]]
        OBVIOUS
    <3> HIDE DEF new
    <3> QED
        BY <2>2, <3>1
  <2> HIDE DEF new
  <2>4. TypeOK'
      BY <1>1, <1>3, <2>1, <2>3 DEF TypeOK
  <2>5. /\ pc'[w] = "deliver" /\ cur'[w] = e /\ calls'[w] = new
        /\ \A v \in Workers \ {w} :
              /\ pc'[v] = pc[v] /\ cur'[v] = cur[v] /\ batch'[v] = batch[v]
              /\ calls'[v] = calls[v]
      BY <2>1 DEF TypeOK
  <2>6. CallInv'
    <3>1. ASSUME NEW v \in Workers
          PROVE  /\ Delivering(v)' => cur'[v] \in Rows
                 /\ \A h \in Hooks :
                      /\ ~Delivering(v)' => calls'[v][h].is = "idle"
                      /\ calls'[v][h].is \in {"request", "sleep"} => calls'[v][h].tries > 0
                      /\ calls'[v][h].is = "sleep" => calls'[v][h].tries < MaxTries
      <4>1. CASE v = w
          BY <1>3, <2>2, <2>5, <4>1 DEF Delivering
      <4>2. CASE v # w
          BY <2>5, <4>2 DEF Delivering, CallInv
      <4> QED
          BY <4>1, <4>2
    <3> QED
        BY <3>1 DEF CallInv
  <2>7. PaidInv'
    <3>1. ASSUME NEW v \in Workers, Delivering(v)', NEW h \in Steady, cur'[v] \in Subscribes[h]
          PROVE  /\ calls'[v][h].is # "idle"
                 /\ calls'[v][h].is = "ok" => copies'[cur'[v], h] > 0
      <4>1. CASE v = w
        <5>1. h \in Matches(e) /\ h \in Hooks
            BY <2>5, <3>1, <4>1, HooksAssumption DEF Matches, PaidInv, Steady, TypeOK
        <5> QED
            BY <2>2, <2>5, <4>1, <5>1
      <4>2. CASE v # w
          BY <1>1, <2>5, <3>1, <4>2 DEF Delivering, PaidInv
      <4> QED
          BY <4>1, <4>2
    <3> QED
        BY <1>1, <3>1 DEF PaidInv, Steady
  <2>8. ClaimInv' /\ DoneInv' /\ DoneDelivered'
      BY <1>1, <2>5 DEF ClaimInv, DoneInv, DoneDelivered
  <2> QED
      BY <2>4, <2>6, <2>7, <2>8
<1> QED
    BY <1>4, <1>5

\* The outcome is known: the lease is asked for once more.
LEMMA RecheckStep ==
    ASSUME IInv, NEW w \in Workers, Recheck(w)
    PROVE  IInv'
<1> USE DEF IInv
<1>1. /\ UNCHANGED <<faults, outbox, hooks, copies>> /\ pc[w] = "deliver"
      /\ faults' \in 0 .. MaxFaults
      /\ \/ /\ Goto(w, "mark")
            /\ seen' = [seen EXCEPT ![w] = outbox[cur[w]].attempts]
            /\ UNCHANGED <<now, todo, batch, cur, calls>>
         \/ Continue(w, batch[w])
    BY DEF Recheck, TypeOK
<1>2. CASE Continue(w, batch[w])
  <2>1. OutboxStep(w) /\ CopiesGrow /\ batch[w] \in SUBSET Rows
      BY <1>1, OutboxStays, CopiesStay DEF TypeOK
  <2> QED
      BY <1>1, <1>2, <2>1, EndInv
<1>3. CASE ~Continue(w, batch[w])
  <2>1. /\ pc' = [pc EXCEPT ![w] = "mark"]
        /\ seen' = [seen EXCEPT ![w] = outbox[cur[w]].attempts]
        /\ UNCHANGED <<now, todo, batch, cur, calls>>
      BY <1>1, <1>3 DEF Goto
  <2>2. outbox[cur[w]].attempts \in 0 .. MaxExponent + 1
      BY <1>1 DEF CallInv, Delivering, TypeOK, Row
  <2>3. TypeOK'
      BY <1>1, <2>1, <2>2 DEF TypeOK
  <2>4. /\ \A v \in Workers : Delivering(v)' = Delivering(v)
        /\ \A v \in Workers : pc'[v] = pc[v] \/ pc'[v] = "mark"
      BY <1>1, <2>1 DEF TypeOK, Delivering
  <2>5. CallInv' /\ PaidInv' /\ DoneInv' /\ DoneDelivered'
      BY <1>1, <2>1, <2>4 DEF CallInv, PaidInv, DoneInv, DoneDelivered
  <2>6. ClaimInv'
      BY <1>1, <2>1, <2>4 DEF ClaimInv
  <2> QED
      BY <2>3, <2>5, <2>6
<1> QED
    BY <1>2, <1>3

\* What others do, as far as the workers see it: a row appears, a failure counts.
Elsewhere ==
    /\ UNCHANGED outbox \/ \E e \in Rows : Enqueued(e)
    /\ faults' \in 0 .. MaxFaults
    /\ UNCHANGED <<hooks, copies, pc, locals>>

LEMMA ElsewhereStep == IInv /\ Elsewhere => IInv'
<1> SUFFICES ASSUME IInv, Elsewhere PROVE IInv'
    OBVIOUS
<1> USE DEF IInv
<1>1. /\ outbox' \in [Rows -> Row]
      /\ \A e \in Rows : \/ outbox'[e] = outbox[e]
                         \/ outbox[e].status = "absent" /\ outbox'[e].status = "pending"
  <2>1. ASSUME NEW e \in Rows, Enqueued(e)
        PROVE  /\ outbox' \in [Rows -> Row] /\ outbox'[e].status = "pending"
               /\ outbox[e].status = "absent"
               /\ \A d \in Rows \ {e} : outbox'[d] = outbox[d]
      BY <2>1, NewRows DEF Enqueued, TypeOK
  <2> QED
      BY <2>1 DEF Elsewhere, TypeOK
<1>2. UNCHANGED <<hooks, copies, pc, now, todo, batch, cur, seen, calls>>
    BY DEF Elsewhere, locals
<1>3. TypeOK'
    BY <1>1, <1>2 DEF TypeOK, Elsewhere
<1>4. CallInv' /\ PaidInv'
    BY <1>2 DEF CallInv, PaidInv, Delivering
<1>5. ClaimInv'
    BY <1>1, <1>2 DEF ClaimInv, TypeOK
<1>6. DoneInv' /\ DoneDelivered'
    BY <1>1, <1>2 DEF DoneInv, DoneDelivered
<1> QED
    BY <1>3, <1>4, <1>5, <1>6

\* The committer adds rows, the API adds and deletes webhooks that come and go.
LEMMA EnvStep ==
    ASSUME IInv, Env
    PROVE  IInv'
<1> USE DEF IInv
<1>1. ASSUME NEW e \in Rows, Enqueue(e)
      PROVE  IInv'
    BY <1>1, ElsewhereStep DEF Enqueue, Elsewhere, TypeOK
<1>2. CASE ChangeHooks
  <2>1. PICK h \in Volatile : hooks' \in {hooks \union {h}, hooks \ {h}}
      BY <1>2 DEF ChangeHooks
  <2>2. UNCHANGED <<faults, outbox, copies, pc, now, todo, batch, cur, seen, calls>>
      BY <1>2 DEF ChangeHooks, locals
  <2>3. TypeOK'
      BY <2>1, <2>2, HooksAssumption DEF TypeOK
  <2>4. CallInv' /\ ClaimInv' /\ DoneInv' /\ DoneDelivered'
      BY <2>2 DEF CallInv, ClaimInv, DoneInv, DoneDelivered, Delivering
  <2>5. PaidInv'
      BY <2>1, <2>2 DEF PaidInv, Steady, Delivering
  <2> QED
      BY <2>3, <2>4, <2>5
<1> QED
    BY <1>1, <1>2 DEF Env

\* Times run on, and nothing else does.
LEMMA TickStep ==
    ASSUME IInv, Tick
    PROVE  IInv'
<1> USE DEF IInv
<1>1. UNCHANGED <<faults, hooks, copies, pc, todo, batch, cur, seen>>
    BY DEF Tick
<1>2. ASSUME NEW e \in Rows
      PROVE  /\ outbox'[e] \in Row
             /\ outbox'[e].status = outbox[e].status
             /\ outbox'[e].lease_owner = outbox[e].lease_owner
  <2>1. outbox[e] \in Row
      BY DEF TypeOK
  <2>2. outbox'[e] =
          [outbox[e] EXCEPT !.next_attempt_at = Older(@, 0),
                            !.lease_until = IF @ = Null THEN Null ELSE Older(@, 0)]
      BY DEF Tick
  <2> QED
      BY <2>1, <2>2, OlderRow
<1>3. ASSUME NEW w \in Workers, NEW h \in Hooks
      PROVE  /\ calls'[w][h] \in Call
             /\ calls'[w][h].is = calls[w][h].is
             /\ calls'[w][h].tries = calls[w][h].tries
  <2>1. calls[w][h] \in Call
      BY DEF TypeOK
  <2>2. calls'[w][h] = [calls[w][h] EXCEPT !.left = Older(@, 0)]
      BY DEF Tick
  <2> QED
      BY <2>1, <2>2, OlderCall
<1>4. outbox' \in [Rows -> Row]
  <2>1. outbox' = [e \in Rows |-> outbox'[e]]
      BY DEF Tick
  <2> QED
      BY <1>2, <2>1
<1>5. calls' \in [Workers -> [Hooks -> Call]]
  <2>1. calls' = [w \in Workers |-> [h \in Hooks |-> calls'[w][h]]]
      BY DEF Tick
  <2> QED
      BY <1>3, <2>1
<1>6. now' \in [Workers -> 0 .. Now]
  <2>1. \A n \in 0 .. Now : Older(n, 0) \in 0 .. Now
      BY NumbersAssumption DEF Older
  <2> QED
      BY <2>1 DEF Tick, TypeOK
<1>7. TypeOK'
    BY <1>1, <1>4, <1>5, <1>6 DEF TypeOK
<1>8. CallInv'
    BY <1>1, <1>3 DEF CallInv, Delivering
<1>9. PaidInv'
    BY <1>1, <1>3, HooksAssumption, ZenonT(40) DEF PaidInv, Delivering, Steady
<1>10. ClaimInv'
    BY <1>1, <1>2 DEF ClaimInv, TypeOK
<1>11. DoneInv' /\ DoneDelivered'
    BY <1>1, <1>2 DEF DoneInv, DoneDelivered
<1> QED
    BY <1>7, <1>8, <1>9, <1>10, <1>11

LEMMA NextInv == IInv /\ [Next]_vars => IInv'
<1> SUFFICES ASSUME IInv, [Next]_vars PROVE IInv'
    OBVIOUS
<1>1. CASE UNCHANGED vars
    BY <1>1 DEF vars, locals, IInv, TypeOK, CallInv, PaidInv, ClaimInv, DoneInv,
                DoneDelivered, Delivering
<1>2. CASE Env
    BY <1>2, EnvStep
<1>3. CASE Tick
    BY <1>3, TickStep
<1>4. ASSUME NEW w \in Workers, Step(w)
      PROVE  IInv'
  <2>1. CASE IdlePoll(w)
      BY <1>1, <2>1 DEF IdlePoll
  <2>2. CASE Start(w) \/ ClaimSelect(w) \/ ClaimUpdate(w)
      BY <2>2, ClaimSteps
  <2>3. CASE ClaimCommit(w) \/ Mark(w) \/ RetryOverflows(w)
      BY <2>3, EndSteps
  <2>4. CASE Load(w)
      BY <2>4, LoadStep
  <2>5. CASE Recheck(w)
      BY <2>5, RecheckStep
  <2>6. CASE Deliver(w)
      BY <2>6, DeliverySteps DEF Deliver
  <2> QED
      BY <1>4, <2>1, <2>2, <2>3, <2>4, <2>5, <2>6 DEF Step, Claim, Process
<1>5. ASSUME NEW w \in Workers, Fault(w)
      PROVE  IInv'
    BY <1>5, EndSteps, DeliverySteps DEF Fault
<1> QED
    BY <1>1, <1>2, <1>3, <1>4, <1>5 DEF Next

-----------------------------------------------------------------------------
(* The theorems.                                                           *)

\* The inductive invariant holds throughout: the worker of _webhook_loop, at each of
\* its awaits, whatever the other workers, the committer and the API do meanwhile.
THEOREM Invariance == Spec => []IInv
<1>1. Init => IInv
    BY InitInv
<1>2. IInv /\ [Next]_vars => IInv'
    BY NextInv
<1> QED
    BY <1>1, <1>2, PTL DEF Spec

\* Type correctness: leases, timers and counters of mark_outbox_retry, the claim and
\* deliver_to_webhook stay in their ranges.
THEOREM TypeCorrect == Spec => []TypeOK
<1>1. IInv => TypeOK
    BY DEF IInv
<1> QED
    BY <1>1, Invariance, PTL

\* A row of outbox_events is done only when every webhook that subscribes to it and
\* was never deleted has got its event, for any leases, timeouts and numbers of
\* workers: fire_webhooks' all() and the second look at the lease suffice.
THEOREM Delivery == Spec => []DoneDelivered
<1>1. IInv => DoneDelivered
    BY DEF IInv
<1> QED
    BY <1>1, Invariance, PTL

\* A row that is done has one status for good.
LEMMA DoneStays ==
    ASSUME IInv, [Next]_vars, NEW e \in Rows, outbox[e].status = "done"
    PROVE  outbox'[e].status = "done"
<1>1. CASE UNCHANGED outbox
    BY <1>1
<1>2. CASE Env
  <2>1. ASSUME NEW d \in Rows, Enqueue(d)
        PROVE  outbox'[e] = outbox[e]
      BY <2>1 DEF Enqueue, Enqueued, IInv, TypeOK
  <2> QED
      BY <1>1, <1>2, <2>1 DEF Env, ChangeHooks
<1>3. CASE Tick
  <2>1. /\ outbox[e] \in Row
        /\ outbox'[e] =
             [outbox[e] EXCEPT !.next_attempt_at = Older(@, 0),
                               !.lease_until = IF @ = Null THEN Null ELSE Older(@, 0)]
      BY <1>3 DEF Tick, IInv, TypeOK
  <2> QED
      BY <2>1, OlderRow
<1>4. ASSUME NEW w \in Workers, OutboxStep(w)
      PROVE  outbox'[e].status = "done"
    BY <1>4 DEF OutboxStep
<1>5. ASSUME NEW w \in Workers, ClaimCommit(w) \/ Mark(w) \/ MarkUnheard(w)
      PROVE  OutboxStep(w)
    BY <1>5, ClaimCommitRows, MarkRows DEF Mark, MarkUnheard
<1>6. ASSUME NEW w \in Workers, Step(w) \/ Fault(w)
      PROVE  UNCHANGED outbox \/ OutboxStep(w)
  <2>1. CASE Start(w) \/ IdlePoll(w) \/ ClaimSelect(w) \/ ClaimUpdate(w)
      BY <2>1 DEF Start, IdlePoll, ClaimSelect, ClaimUpdate, vars
  <2>2. CASE Load(w) \/ Recheck(w) \/ RetryOverflows(w) \/ Fail(w) \/ Crash(w)
      BY <2>2 DEF Load, Recheck, RetryOverflows, Fail, Crash
  <2>3. CASE Deliver(w) \/ \E h \in Hooks : Refused(w, h)
      BY <2>3 DEF Deliver, Answered, Trickled, TimedOut, Retry, Refused
  <2> QED
      BY <1>5, <1>6, <2>1, <2>2, <2>3 DEF Step, Fault, Claim, Process
<1>7. UNCHANGED vars => UNCHANGED outbox
    BY DEF vars
<1> QED
    BY <1>1, <1>2, <1>3, <1>4, <1>6, <1>7 DEF Next

\* Done is final and unleased: no worker that was late with its retry, and no claim
\* that waited for the mark, opens the row again or leases it.
THEOREM Finality == Spec => DoneForGood
<1>1. ASSUME IInv, IInv', [Next]_vars
      PROVE  \A e \in Rows : outbox[e].status = "done" =>
                outbox'[e].status = "done" /\ outbox'[e].lease_owner = Null
    BY <1>1, DoneStays DEF IInv, DoneInv
<1>2. IInv /\ IInv' /\ [Next]_vars =>
        [\A e \in Rows : outbox[e].status = "done" =>
            outbox'[e].status = "done" /\ outbox'[e].lease_owner = Null]_vars
    BY <1>1
<1> QED
    BY <1>2, Invariance, PTL DEF Spec, DoneForGood

-----------------------------------------------------------------------------
(* For the composition with the API and the committers.                    *)

\* Only rows of the table are delivered.
EnqueuedInv ==
    /\ \A w \in Workers : Delivering(w) => outbox[cur[w]].status # "absent"
    /\ \A e \in Rows, h \in Hooks : copies[e, h] > 0 => outbox[e].status # "absent"

LEMMA EnqueuedInit == Init => EnqueuedInv
<1> SUFFICES ASSUME Init PROVE EnqueuedInv
    OBVIOUS
<1>1. \A w \in Workers : ~Delivering(w)
    BY DEF Init, Delivering
<1>2. \A n \in {0} : ~(n > 0)
    OBVIOUS
<1>3. ASSUME NEW e \in Rows, NEW h \in Hooks PROVE copies[e, h] \in {0}
    BY DEF Init
<1>4. \A e \in Rows, h \in Hooks : ~(copies[e, h] > 0)
    BY <1>2, <1>3, Zenon
<1> QED
    BY <1>1, <1>4, Zenon DEF EnqueuedInv

LEMMA EnqueuedElsewhere == IInv /\ EnqueuedInv /\ Elsewhere => EnqueuedInv'
<1> SUFFICES ASSUME IInv, EnqueuedInv, Elsewhere PROVE EnqueuedInv'
    OBVIOUS
<1>1. \A e \in Rows : outbox[e].status # "absent" => outbox'[e] = outbox[e]
    BY DEF Elsewhere, Enqueued, IInv, TypeOK
<1>2. \A w \in Workers : Delivering(w) => cur[w] \in Rows
    BY DEF IInv, CallInv
<1> QED
    BY <1>1, <1>2 DEF Elsewhere, EnqueuedInv, Delivering, locals

SameStatuses == \A e \in Rows : outbox'[e].status = outbox[e].status

\* What workers and time do to the statuses: nothing, or they settle one row.
StatusStep ==
    \/ SameStatuses
    \/ \E d \in Rows :
        /\ outbox[d].status # "absent" /\ outbox'[d].status = "done"
        /\ \A e \in Rows \ {d} : outbox'[e].status = outbox[e].status

LEMMA TickStatuses == IInv /\ Tick => SameStatuses
<1> SUFFICES ASSUME IInv, Tick, NEW e \in Rows PROVE outbox'[e].status = outbox[e].status
    BY DEF SameStatuses
<1>1. /\ outbox[e] \in Row
      /\ outbox'[e] =
           [outbox[e] EXCEPT !.next_attempt_at = Older(@, 0),
                             !.lease_until = IF @ = Null THEN Null ELSE Older(@, 0)]
    BY DEF Tick, IInv, TypeOK
<1> QED
    BY <1>1, OlderRow

LEMMA MarkStatuses ==
    ASSUME IInv, EnqueuedInv, NEW w \in Workers, pc[w] = "mark", Settled(w)
    PROVE  StatusStep
<1>1. /\ cur[w] \in Rows /\ outbox[cur[w]] \in Row /\ seen[w] \in 0 .. MaxExponent + 1
      /\ outbox[cur[w]].status # "absent"
    BY DEF IInv, CallInv, Delivering, TypeOK, EnqueuedInv
<1> DEFINE new == IF AllSucceeded(w) THEN Queue!Closed(outbox[cur[w]], "done")
                  ELSE Queue!Retried(outbox[cur[w]], seen[w], Now)
<1>2. ~AllSucceeded(w) => seen[w] \in Int /\ seen[w] + 1 \in 0 .. MaxExponent + 1
    BY <1>1, NumbersAssumption DEF Settled, Queue!Retriable
<1>3. outbox' = [outbox EXCEPT ![cur[w]] = new]
    BY DEF Settled
<1>4. new.status \in {"done", outbox[cur[w]].status}
    BY <1>1, <1>2, ClosedRow, RetriedRow
<1> HIDE DEF new
<1>5. outbox'[cur[w]] = new /\ \A e \in Rows \ {cur[w]} : outbox'[e] = outbox[e]
    BY <1>1, <1>3 DEF IInv, TypeOK
<1> QED
    BY <1>1, <1>4, <1>5 DEF StatusStep, SameStatuses

LEMMA WorkerStatuses ==
    ASSUME IInv, EnqueuedInv, NEW w \in Workers, Step(w) \/ Fault(w)
    PROVE  StatusStep
<1>1. CASE Start(w) \/ IdlePoll(w) \/ ClaimSelect(w) \/ ClaimUpdate(w)
    BY <1>1 DEF Start, IdlePoll, ClaimSelect, ClaimUpdate, vars, StatusStep, SameStatuses
<1>2. CASE Load(w) \/ Recheck(w) \/ RetryOverflows(w) \/ Fail(w) \/ Crash(w)
    BY <1>2 DEF Load, Recheck, RetryOverflows, Fail, Crash, StatusStep, SameStatuses
<1>3. CASE Deliver(w) \/ \E h \in Hooks : Refused(w, h)
    BY <1>3 DEF Deliver, Answered, Trickled, TimedOut, Retry, Refused, StatusStep, SameStatuses
<1>4. CASE Mark(w) \/ MarkUnheard(w)
    BY <1>4, MarkStatuses DEF Mark, MarkUnheard
<1>5. CASE ClaimCommit(w)
  <2>1. now[w] \in Nat /\ \A e \in Rows : outbox[e] \in Row
      BY NumbersAssumption DEF IInv, TypeOK
  <2>2. \A e \in Rows :
          outbox'[e] = IF e \in batch[w] THEN Queue!Claimed(outbox[e], w, now[w]) ELSE outbox[e]
      BY <1>5 DEF ClaimCommit
  <2>3. SameStatuses
      BY <2>1, <2>2, ClaimedRow DEF SameStatuses
  <2> QED
      BY <2>3 DEF StatusStep
<1> QED
    BY <1>1, <1>2, <1>3, <1>4, <1>5 DEF Step, Fault, Claim, Process

\* Who is at its deliveries after a step was so before, with the same row, or has just
\* loaded one that is pending.
LEMMA DeliveringStep ==
    ASSUME IInv, [Next]_vars, NEW v \in Workers, Delivering(v)'
    PROVE  \/ Delivering(v) /\ cur'[v] = cur[v]
           \/ cur'[v] \in Rows /\ outbox'[cur'[v]].status = "pending"
<1> USE DEF IInv, TypeOK
<1>1. CASE Tick \/ Env \/ UNCHANGED vars
    BY <1>1 DEF Tick, Env, ChangeHooks, Enqueue, vars, locals, Delivering
<1>2. ASSUME NEW w \in Workers, Step(w) \/ Fault(w), v # w
      PROVE  Delivering(v) /\ cur'[v] = cur[v]
  <2>1. pc'[v] = pc[v] /\ cur'[v] = cur[v]
      BY <1>2 DEF Step, Fault, Claim, Process, Deliver, Start, IdlePoll, ClaimSelect,
         ClaimUpdate, ClaimCommit, Load, Recheck, Mark, RetryOverflows, Answered, Trickled,
         TimedOut, Retry, Refused, Fail, MarkUnheard, Crash, Reset, Continue, Goto, vars, locals
  <2> QED
      BY <2>1 DEF Delivering
<1>3. CASE Load(v)
  <2>1. PICK e \in batch[v] :
          IF Queue!HeldBy(outbox[e], v, Now)
          THEN Goto(v, "deliver") /\ cur' = [cur EXCEPT ![v] = e]
          ELSE Continue(v, batch[v] \ {e})
      BY <1>3 DEF Load
  <2>2. Queue!HeldBy(outbox[e], v, Now)
      BY <2>1 DEF Continue, Goto, Delivering
  <2>3. cur'[v] = e /\ e \in Rows /\ outbox[e].status = "pending" /\ outbox' = outbox
      BY <1>3, <2>1, <2>2 DEF Load, Queue!HeldBy
  <2> QED
      BY <2>3
<1>4. CASE Recheck(v)
    BY <1>4 DEF Recheck, Continue, Goto, Delivering
<1>5. CASE Start(v) \/ ClaimSelect(v) \/ ClaimUpdate(v) \/ ClaimCommit(v) \/ Mark(v)
           \/ RetryOverflows(v) \/ Fail(v) \/ MarkUnheard(v) \/ Crash(v)
    BY <1>5 DEF Start, ClaimSelect, ClaimUpdate, ClaimCommit, Mark, RetryOverflows, Fail,
       MarkUnheard, Crash, Reset, Continue, Goto, Delivering
<1>6. CASE IdlePoll(v) \/ Deliver(v) \/ \E h \in Hooks : Refused(v, h)
    BY <1>6 DEF IdlePoll, Deliver, Answered, Trickled, TimedOut, Retry, Refused, Delivering, vars, locals
<1>7. Step(v) \/ Fault(v) =>
        \/ Delivering(v) /\ cur'[v] = cur[v]
        \/ cur'[v] \in Rows /\ outbox'[cur'[v]].status = "pending"
    BY <1>3, <1>4, <1>5, <1>6 DEF Step, Fault, Claim, Process
<1> HIDE DEF IInv, TypeOK
<1>8. CASE Tick \/ Env \/ UNCHANGED vars
    BY <1>1, <1>8
<1>9. CASE \E w \in Workers : Step(w) \/ Fault(w)
    BY <1>2, <1>7, <1>9
<1> QED
    BY <1>8, <1>9 DEF Next

\* A receiver gets the row some worker is delivering.
LEMMA CopiesStep ==
    ASSUME IInv, [Next]_vars, NEW e \in Rows, NEW h \in Hooks, copies'[e, h] > 0
    PROVE  copies[e, h] > 0 \/ \E w \in Workers : Delivering(w) /\ cur[w] = e
<1> USE DEF IInv, TypeOK
<1>1. CASE UNCHANGED copies
    BY <1>1
<1>2. ASSUME NEW w \in Workers, NEW g \in Hooks, calls[w][g].is = "request", Receive(cur[w], g)
      PROVE  copies[e, h] > 0 \/ (Delivering(w) /\ cur[w] = e)
  <2>1. Delivering(w)
      BY <1>2 DEF CallInv
  <2>2. CASE cur[w] = e
      BY <2>1, <2>2
  <2>3. CASE cur[w] # e
    <3>1. <<cur[w], g>> # <<e, h>>
        BY <2>3
    <3>2. copies'[<<e, h>>] = copies[<<e, h>>]
        BY <1>2, <3>1 DEF Receive
    <3> QED
        BY <3>2
  <2> QED
      BY <2>2, <2>3
<1>3. CASE Env \/ Tick \/ UNCHANGED vars
    BY <1>1, <1>3 DEF Env, ChangeHooks, Enqueue, Tick, vars
<1>4. ASSUME NEW w \in Workers, Step(w) \/ Fault(w)
      PROVE  UNCHANGED copies \/ \E g \in Hooks : calls[w][g].is = "request" /\ Receive(cur[w], g)
  <2>1. CASE Start(w) \/ IdlePoll(w) \/ Claim(w) \/ Process(w) \/ Fail(w) \/ MarkUnheard(w)
      BY <2>1 DEF Start, IdlePoll, Claim, ClaimSelect, ClaimUpdate, ClaimCommit, Process, Load,
         Recheck, Mark, RetryOverflows, Fail, MarkUnheard, vars
  <2>2. CASE Deliver(w) \/ Crash(w) \/ \E g \in Hooks : Refused(w, g)
      BY <2>2 DEF Deliver, Answered, Trickled, TimedOut, Retry, Refused, Crash
  <2> QED
      BY <1>4, <2>1, <2>2 DEF Step, Fault
<1> QED
    BY <1>1, <1>2, <1>3, <1>4 DEF Next

LEMMA EnqueuedNext == IInv /\ EnqueuedInv /\ [Next]_vars => EnqueuedInv'
<1> SUFFICES ASSUME IInv, EnqueuedInv, [Next]_vars PROVE EnqueuedInv'
    OBVIOUS
<1>1. \A e \in Rows : outbox[e].status # "absent" => outbox'[e].status # "absent"
  <2>1. CASE UNCHANGED outbox
      BY <2>1
  <2>2. CASE StatusStep
      BY <2>2 DEF StatusStep, SameStatuses
  <2>3. ASSUME NEW d \in Rows, Enqueue(d)
        PROVE  \A e \in Rows : outbox[e].status # "absent" => outbox'[e] = outbox[e]
      BY <2>3 DEF Enqueue, Enqueued, IInv, TypeOK
  <2> QED
      BY <2>1, <2>2, <2>3, TickStatuses, WorkerStatuses
         DEF Next, Env, ChangeHooks, vars, StatusStep
<1>2. \A w \in Workers : Delivering(w) => cur[w] \in Rows /\ outbox[cur[w]].status # "absent"
    BY DEF EnqueuedInv, IInv, CallInv
<1>3. \A w \in Workers : Delivering(w)' => outbox'[cur'[w]].status # "absent"
    BY <1>1, <1>2, DeliveringStep
<1>4. \A e \in Rows, h \in Hooks : copies'[e, h] > 0 => outbox'[e].status # "absent"
    BY <1>1, <1>2, CopiesStep DEF EnqueuedInv
<1> QED
    BY <1>3, <1>4 DEF EnqueuedInv
-----------------------------------------------------------------------------
(* Leases pass on when they have run out.                                  *)

\* Claims in progress have updated different rows: an UPDATE waits for the other's COMMIT.
ClaimsApart ==
    \A v, w \in Workers :
        v # w /\ pc[v] = "claim" /\ pc[w] = "claim" => batch[v] \intersect batch[w] = {}

\* What a claim has updated stays free until it commits, by the time of its SELECT.
FreedInv ==
    \A w \in Workers : pc[w] = "claim" =>
        \A e \in batch[w] : Queue!StillClaimable(outbox[e], now[w])

\* Every lease has an end.
TermInv == \A e \in Rows : outbox[e].lease_owner # Null => outbox[e].lease_until # Null

HandoverInv == ClaimsApart /\ FreedInv /\ TermInv

\* How a row of the table changes by a step of w: it is claimed, its lease is given up,
\* or nothing.
RowStep(w, e) ==
    \/ outbox'[e] = outbox[e]
    \/ /\ pc[w] = "claim" /\ pc'[w] # "claim" /\ e \in batch[w]
       /\ outbox'[e].lease_owner = w /\ outbox'[e].lease_until # Null
    \/ /\ pc[w] = "mark" /\ ~RowBusy(w, e)
       /\ outbox'[e].lease_owner = Null

LEMMA SettledRow ==
    ASSUME IInv, NEW w \in Workers, pc[w] = "mark", ~RowBusy(w, cur[w]), Settled(w),
           NEW e \in Rows
    PROVE  RowStep(w, e)
<1>1. /\ cur[w] \in Rows /\ outbox[cur[w]] \in Row /\ seen[w] \in 0 .. MaxExponent + 1
    BY DEF IInv, CallInv, Delivering, TypeOK
<1> DEFINE new == IF AllSucceeded(w) THEN Queue!Closed(outbox[cur[w]], "done")
                  ELSE Queue!Retried(outbox[cur[w]], seen[w], Now)
<1>2. ~AllSucceeded(w) => seen[w] \in Int /\ seen[w] + 1 \in 0 .. MaxExponent + 1
    BY <1>1, NumbersAssumption DEF Settled, Queue!Retriable
<1>3. outbox' = [outbox EXCEPT ![cur[w]] = new]
    BY DEF Settled
<1>4. new.lease_owner = Null
    BY <1>1, <1>2, ClosedRow, RetriedRow
<1> HIDE DEF new
<1>5. outbox'[cur[w]] = new /\ \A d \in Rows \ {cur[w]} : outbox'[d] = outbox[d]
    BY <1>1, <1>3 DEF IInv, TypeOK
<1> QED
    BY <1>4, <1>5 DEF RowStep

LEMMA ClaimedRows ==
    ASSUME IInv, NEW w \in Workers, ClaimCommit(w), NEW e \in Rows
    PROVE  RowStep(w, e)
<1>1. now[w] \in Nat /\ outbox[e] \in Row /\ LeaseSeconds \in Nat
    BY NumbersAssumption DEF IInv, TypeOK
<1>2. outbox'[e] = IF e \in batch[w] THEN Queue!Claimed(outbox[e], w, now[w]) ELSE outbox[e]
    BY DEF ClaimCommit
<1>3. pc[w] = "claim" /\ pc'[w] # "claim"
    BY DEF ClaimCommit, Continue, Goto, IInv, TypeOK
<1> DEFINE until == now[w] + LeaseSeconds
<1>4. until # Null
    BY <1>1, HooksAssumption
<1>5. Queue!Claimed(outbox[e], w, now[w]) =
        [outbox[e] EXCEPT !.lease_owner = w, !.lease_until = until]
    BY DEF Queue!Claimed
<1> HIDE DEF until
<1>6. Queue!Claimed(outbox[e], w, now[w]).lease_owner = w
      /\ Queue!Claimed(outbox[e], w, now[w]).lease_until # Null
    BY <1>1, <1>4, <1>5 DEF Row
<1> QED
    BY <1>2, <1>3, <1>6 DEF RowStep

\* What one worker's step does to the table.
LEMMA RowSteps ==
    ASSUME IInv, NEW w \in Workers, Step(w) \/ Fault(w), NEW e \in Rows
    PROVE  RowStep(w, e)
<1>1. CASE Start(w) \/ IdlePoll(w) \/ ClaimSelect(w) \/ ClaimUpdate(w)
    BY <1>1 DEF Start, IdlePoll, ClaimSelect, ClaimUpdate, vars, RowStep
<1>2. CASE Load(w) \/ Recheck(w) \/ RetryOverflows(w) \/ Fail(w) \/ Crash(w)
    BY <1>2 DEF Load, Recheck, RetryOverflows, Fail, Crash, RowStep
<1>3. CASE Deliver(w) \/ \E h \in Hooks : Refused(w, h)
    BY <1>3 DEF Deliver, Answered, Trickled, TimedOut, Retry, Refused, RowStep
<1>4. CASE Mark(w) \/ MarkUnheard(w)
    BY <1>4, SettledRow DEF Mark, MarkUnheard
<1>5. CASE ClaimCommit(w)
    BY <1>5, ClaimedRows
<1> QED
    BY <1>1, <1>2, <1>3, <1>4, <1>5 DEF Step, Fault, Claim, Process

\* Whoever is at a claim after a step of w has just selected, or was at it before and
\* has updated nothing, unless it is w at its next UPDATE.
LEMMA ClaimStep ==
    ASSUME IInv, NEW w \in Workers, Step(w) \/ Fault(w),
           NEW v \in Workers, pc'[v] = "claim"
    PROVE  \/ batch'[v] = {}
           \/ pc[v] = "claim" /\ now'[v] = now[v] /\ batch'[v] = batch[v]
           \/ v = w /\ ClaimUpdate(w)
<1> USE DEF IInv, TypeOK
<1>1. CASE v # w
  <2>1. pc'[v] = pc[v] /\ now'[v] = now[v] /\ batch'[v] = batch[v]
      BY <1>1 DEF Step, Fault, Claim, Process, Deliver, Start, IdlePoll, ClaimSelect,
         ClaimUpdate, ClaimCommit, Load, Recheck, Mark, RetryOverflows, Answered, Trickled,
         TimedOut, Retry, Refused, Fail, MarkUnheard, Crash, Reset, Continue, Goto, vars, locals
  <2> QED
      BY <2>1
<1>2. CASE v = w
  <2>1. CASE ClaimSelect(w)
      BY <1>2, <2>1 DEF ClaimSelect, ClaimInv
  <2>2. CASE ClaimUpdate(w)
      BY <1>2, <2>2
  <2>3. CASE IdlePoll(w) \/ Deliver(w) \/ \E h \in Hooks : Refused(w, h)
      BY <1>2, <2>3 DEF IdlePoll, Deliver, Answered, Trickled, TimedOut, Retry, Refused, vars
  <2>4. CASE \/ Start(w) \/ ClaimCommit(w) \/ Mark(w) \/ RetryOverflows(w)
             \/ Fail(w) \/ MarkUnheard(w) \/ Crash(w)
      BY <1>2, <2>4 DEF Start, ClaimCommit, Mark, RetryOverflows, Fail, MarkUnheard, Crash,
         Reset, Continue, Goto
  <2>5. CASE Load(w)
    <3>1. PICK e \in batch[w] :
            IF Queue!HeldBy(outbox[e], w, Now) THEN Goto(w, "deliver")
            ELSE Continue(w, batch[w] \ {e})
        BY <2>5 DEF Load
    <3> QED
        BY <1>2, <3>1 DEF Continue, Goto
  <2>6. CASE Recheck(w)
      BY <1>2, <2>6 DEF Recheck, Continue, Goto
  <2> QED
      BY <2>1, <2>2, <2>3, <2>4, <2>5, <2>6 DEF Step, Fault, Claim, Process
<1> QED
    BY <1>1, <1>2

LEMMA HandoverStep ==
    ASSUME IInv, HandoverInv, NEW w \in Workers, Step(w) \/ Fault(w)
    PROVE  HandoverInv'
<1>1. ASSUME NEW v \in Workers, pc[v] = "claim", pc'[v] = "claim", NEW e \in batch[v]
      PROVE  outbox'[e] = outbox[e]
  <2>1. e \in Rows
      BY <1>1 DEF IInv, TypeOK
  <2>2. RowStep(w, e)
      BY <2>1, RowSteps
  <2> QED
      BY <1>1, <2>2 DEF RowStep, RowBusy, HandoverInv, ClaimsApart
<1>2. ASSUME ClaimUpdate(w)
      PROVE  \E e \in todo[w] :
                /\ ~RowBusy(w, e)
                /\ batch'[w] = IF Queue!StillClaimable(outbox[e], now[w])
                               THEN batch[w] \union {e} ELSE batch[w]
                /\ UNCHANGED <<outbox, pc, now>>
                /\ \A v \in Workers \ {w} : batch'[v] = batch[v]
    BY <1>2 DEF ClaimUpdate, IInv, TypeOK
<1>3. ClaimsApart'
  <2>1. CASE ClaimUpdate(w)
    <3>1. PICK e \in todo[w] :
            /\ ~RowBusy(w, e)
            /\ batch'[w] \subseteq batch[w] \union {e}
            /\ pc' = pc
            /\ \A v \in Workers \ {w} : batch'[v] = batch[v]
        BY <1>2, <2>1
    <3>2. ASSUME NEW v \in Workers \ {w}, pc[v] = "claim", pc[w] = "claim"
          PROVE  batch'[v] \intersect batch'[w] = {}
        BY <3>1, <3>2 DEF HandoverInv, ClaimsApart, RowBusy
    <3> QED
        BY <3>1, <3>2 DEF HandoverInv, ClaimsApart
  <2>2. CASE ~ClaimUpdate(w)
      BY <2>2, ClaimStep DEF HandoverInv, ClaimsApart
  <2> QED
      BY <2>1, <2>2
<1>4. FreedInv'
  <2>1. CASE ClaimUpdate(w)
      BY <1>2, <2>1 DEF HandoverInv, FreedInv
  <2>2. CASE ~ClaimUpdate(w)
      BY <1>1, <2>2, ClaimStep DEF HandoverInv, FreedInv
  <2> QED
      BY <2>1, <2>2
<1>5. TermInv'
    BY RowSteps DEF RowStep, HandoverInv, TermInv
<1> QED
    BY <1>3, <1>4, <1>5 DEF HandoverInv

\* Time moves leases and the times of claims alike.
LEMMA HandoverTick == ASSUME IInv, HandoverInv, Tick PROVE HandoverInv'
<1>1. ASSUME NEW e \in Rows
      PROVE  /\ outbox[e] \in Row /\ outbox'[e].status = outbox[e].status
             /\ outbox'[e].lease_owner = outbox[e].lease_owner
             /\ outbox'[e].lease_until =
                  IF outbox[e].lease_until = Null THEN Null ELSE Older(outbox[e].lease_until, 0)
  <2>1. /\ outbox[e] \in Row
        /\ outbox'[e] =
             [outbox[e] EXCEPT !.next_attempt_at = Older(@, 0),
                               !.lease_until = IF @ = Null THEN Null ELSE Older(@, 0)]
      BY DEF Tick, IInv, TypeOK
  <2> QED
      BY <2>1 DEF Row
<1>2. ASSUME NEW e \in Rows, outbox[e].lease_until # Null
      PROVE  outbox[e].lease_until \in Nat /\ outbox'[e].lease_until \in Nat
  <2>1. outbox[e].lease_until \in Nat
      BY <1>1, <1>2 DEF Row
  <2> QED
      BY <1>1, <1>2, <2>1 DEF Older
<1>3. UNCHANGED <<pc, batch>> /\ \A w \in Workers : now'[w] = Older(now[w], 0)
    BY DEF Tick
<1>4. ASSUME NEW w \in Workers, pc[w] = "claim", NEW e \in batch[w]
      PROVE  Queue!StillClaimable(outbox'[e], now'[w])
  <2>1. /\ Queue!StillClaimable(outbox[e], now[w])
        /\ e \in Rows /\ now[w] \in Nat /\ now[w] > 1
    <3>1. Queue!StillClaimable(outbox[e], now[w])
        BY <1>4 DEF HandoverInv, FreedInv
    <3>2. now[w] > 1
        BY <1>4 DEF Tick
    <3>3. e \in Rows /\ now[w] \in 0 .. Now
        BY <1>4 DEF IInv, TypeOK
    <3> QED
        BY <3>1, <3>2, <3>3, NumbersAssumption
  <2>2. now'[w] = now[w] - 1
      BY <1>3, <2>1 DEF Older
  <2>3. CASE outbox[e].lease_until = Null
      BY <1>1, <2>1, <2>3 DEF Queue!StillClaimable, Queue!Unleased
  <2>4. CASE outbox[e].lease_until # Null
    <3>1. outbox[e].lease_until < now[w]
        BY <2>1, <2>4 DEF Queue!StillClaimable, Queue!Unleased
    <3>2. outbox'[e].lease_until < now'[w]
        BY <1>1, <1>2, <2>1, <2>2, <2>4, <3>1 DEF Older
    <3> QED
        BY <1>1, <2>1, <3>2 DEF Queue!StillClaimable, Queue!Unleased
  <2> QED
      BY <2>3, <2>4
<1>5. ClaimsApart'
    BY <1>3 DEF HandoverInv, ClaimsApart
<1>6. FreedInv'
  <2> SUFFICES ASSUME NEW w \in Workers, pc'[w] = "claim", NEW e \in batch'[w]
               PROVE  Queue!StillClaimable(outbox'[e], now'[w])
      BY DEF FreedInv
  <2> QED
      BY <1>3, <1>4
<1>7. TermInv'
    BY <1>1, <1>2, HooksAssumption DEF HandoverInv, TermInv
<1> QED
    BY <1>5, <1>6, <1>7 DEF HandoverInv

LEMMA HandoverNext == IInv /\ HandoverInv /\ [Next]_vars => HandoverInv'
<1> SUFFICES ASSUME IInv, HandoverInv, [Next]_vars PROVE HandoverInv'
    OBVIOUS
<1>1. CASE UNCHANGED vars \/ ChangeHooks
    BY <1>1 DEF vars, locals, ChangeHooks, HandoverInv, ClaimsApart, FreedInv, TermInv
<1>2. ASSUME NEW d \in Rows, Enqueue(d)
      PROVE  HandoverInv'
  <2>1. /\ UNCHANGED <<pc, now, batch>> /\ outbox[d].status = "absent"
        /\ outbox'[d] = Queue!Fresh(Now)
        /\ \A e \in Rows \ {d} : outbox'[e] = outbox[e]
      BY <1>2 DEF Enqueue, Enqueued, locals, IInv, TypeOK
  <2>2. Queue!Fresh(Now).lease_owner = Null
      BY DEF Queue!Fresh
  <2>3. \A w \in Workers : pc[w] = "claim" => d \notin batch[w]
      BY <2>1 DEF IInv, ClaimInv
  <2>4. \A w \in Workers : batch[w] \subseteq Rows
      BY DEF IInv, TypeOK
  <2>5. FreedInv'
      BY <2>1, <2>3, <2>4 DEF HandoverInv, FreedInv
  <2>6. TermInv'
      BY <2>1, <2>2 DEF HandoverInv, TermInv
  <2> QED
      BY <2>1, <2>5, <2>6 DEF HandoverInv, ClaimsApart
<1> QED
    BY <1>1, <1>2, HandoverTick, HandoverStep DEF Next, Env

LEMMA HandoverInit == Init => HandoverInv
BY DEF Init, HandoverInv, ClaimsApart, FreedInv, TermInv, Absent, Queue!Fresh

\* claim_outbox_batch, whose UPDATEs repeat the condition on the lease, takes no row
\* from a worker whose lease stands, whatever the other claimed since the SELECT.
THEOREM LeaseSafety == Spec => NoLeaseTheft
<1> DEFINE Kept(e) ==
             \/ outbox[e].lease_owner = Null
             \/ outbox'[e].lease_owner \in {outbox[e].lease_owner, Null}
             \/ outbox[e].lease_until < Now
<1>1. ASSUME IInv, HandoverInv, NEW e \in Rows, NEW w \in Workers, Step(w) \/ Fault(w)
      PROVE  Kept(e)
  <2>1. RowStep(w, e)
      BY <1>1, RowSteps
  <2>2. CASE pc[w] = "claim" /\ e \in batch[w] /\ outbox[e].lease_owner # Null
    <3>1. outbox[e].lease_until # Null /\ Queue!StillClaimable(outbox[e], now[w])
        BY <1>1, <2>2 DEF HandoverInv, TermInv, FreedInv
    <3>2. outbox[e].lease_until \in Nat /\ outbox[e].lease_until < now[w]
        BY <1>1, <3>1 DEF IInv, TypeOK, Row, Queue!StillClaimable, Queue!Unleased
    <3>3. now[w] \in 0 .. Now
        BY <1>1 DEF IInv, TypeOK
    <3> QED
        BY <3>2, <3>3, NumbersAssumption
  <2> QED
      BY <2>1, <2>2 DEF RowStep
<1>2. ASSUME IInv, NEW e \in Rows, Tick
      PROVE  Kept(e)
  <2>1. /\ outbox[e] \in Row
        /\ outbox'[e] =
             [outbox[e] EXCEPT !.next_attempt_at = Older(@, 0),
                               !.lease_until = IF @ = Null THEN Null ELSE Older(@, 0)]
      BY <1>2 DEF Tick, IInv, TypeOK
  <2> QED
      BY <2>1, OlderRow
<1>3. ASSUME IInv, NEW e \in Rows, NEW d \in Rows, Enqueue(d)
      PROVE  Kept(e)
  <2>1. outbox'[e] = outbox[e] \/ outbox'[e] = Queue!Fresh(Now)
      BY <1>3 DEF Enqueue, Enqueued, IInv, TypeOK
  <2> QED
      BY <2>1 DEF Queue!Fresh
<1>4. ASSUME NEW e \in Rows, ChangeHooks \/ UNCHANGED vars
      PROVE  Kept(e)
    BY <1>4 DEF ChangeHooks, vars
<1>5. IInv /\ HandoverInv /\ [Next]_vars => [\A e \in Rows : Kept(e)]_vars
  <2> HIDE DEF Kept
  <2> QED
      BY <1>1, <1>2, <1>3, <1>4 DEF Next, Env
<1> QED
    BY <1>5, Invariance, HandoverInit, HandoverNext, PTL DEF Spec, NoLeaseTheft
=============================================================================
