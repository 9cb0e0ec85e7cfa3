--------------------------- MODULE CommitterProofs ---------------------------
(***************************************************************************)
(* Proofs about Committer, for any events, workers, sources, leases,       *)
(* batches and bounds that satisfy its assumptions.                        *)
(***************************************************************************)
EXTENDS Committer, FiniteSetTheorems, WellFoundedInduction, TLAPS

(***************************************************************************)
(* The statements of LeaseQueue, on one row.                               *)
(***************************************************************************)

\* The back-off never leaves 0 .. RetryMax (_retry_delay_seconds).
LEMMA DelayBounded ==
    \A a : Queue!RetryDelay(a) \in Nat
<1> TAKE a
<1> DEFINE delay == RetryBase * 2^(a - 1)
<1>1. Queue!RetryDelay(a) = IF delay \in 0 .. RetryMax THEN delay ELSE RetryMax
  BY DEF Queue!RetryDelay
<1> HIDE DEF delay
<1> QED BY <1>1, TimesAssumption

\* A fresh row is a row, due at once and leased by nobody.
LEMMA FreshRow ==
    ASSUME NEW at \in Nat
    PROVE  /\ Queue!Fresh(at) \in Row
           /\ Queue!Fresh(at).status = "accepted"
           /\ Queue!Fresh(at).lease_owner = Null
           /\ Queue!Fresh(at).lease_until = Null
BY DEF Row, Queue!Fresh

\* What stands for a row that has not been inserted has a row's type.
LEMMA AbsentRow ==
    /\ Absent \in Row
    /\ Absent.status = "absent"
    /\ Absent.lease_owner = Null
    /\ Absent.lease_until = Null
BY DEF Row, Queue!Fresh, Absent

\* A claim changes the lease and nothing else.
LEMMA ClaimedRow ==
    ASSUME NEW row \in Row, NEW w \in Workers, NEW n \in Nat
    PROVE  /\ Queue!Claimed(row, w, n) \in Row
           /\ Queue!Claimed(row, w, n).status = row.status
           /\ Queue!Claimed(row, w, n).lease_owner = w
           /\ Queue!Claimed(row, w, n).lease_until = n + LeaseSeconds
<1> DEFINE until == n + LeaseSeconds
<1>1. until \in Nat
  BY TimesAssumption
<1>2. Queue!Claimed(row, w, n) =
        [row EXCEPT !.lease_owner = w, !.lease_until = until]
  BY DEF Queue!Claimed
<1> HIDE DEF until
<1>3. /\ Queue!Claimed(row, w, n) \in Row
      /\ Queue!Claimed(row, w, n).status = row.status
      /\ Queue!Claimed(row, w, n).lease_owner = w
      /\ Queue!Claimed(row, w, n).lease_until = until
  BY <1>1, <1>2 DEF Row
<1> QED BY <1>3 DEF until

\* A retry gives the lease up and leaves the status alone.
LEMMA RetriedRow ==
    ASSUME NEW row \in Row, NEW a \in Nat, NEW n \in Nat
    PROVE  /\ Queue!Retried(row, a, n) \in Row
           /\ Queue!Retried(row, a, n).status = row.status
           /\ Queue!Retried(row, a, n).lease_owner = Null
           /\ Queue!Retried(row, a, n).lease_until = Null
<1> DEFINE next == n + Queue!RetryDelay(a + 1)
           tried == a + 1
<1>1. next \in Nat /\ tried \in Nat
  BY DelayBounded
<1>2. Queue!Retried(row, a, n) =
        [row EXCEPT !.attempts = tried, !.next_attempt_at = next,
                    !.lease_owner = Null, !.lease_until = Null]
  BY DEF Queue!Retried
<1> HIDE DEF next, tried
<1> QED BY <1>1, <1>2 DEF Row

\* Closing a row sets its status and clears its lease.
LEMMA ClosedRow ==
    ASSUME NEW row \in Row
    PROVE  /\ Queue!Closed(row, "committed") \in Row
           /\ Queue!Closed(row, "committed").status = "committed"
           /\ Queue!Closed(row, "committed").lease_owner = Null
           /\ Queue!Closed(row, "committed").lease_until = Null
BY DEF Row, Queue!Closed

(***************************************************************************)
(* Type correctness.  TypeOK alone is not inductive: what COMMIT adds to   *)
(* the tables is cur[w], which has to be an event whenever the transaction *)
(* wrote anything.                                                         *)
(***************************************************************************)

\* Closing the session, or going on to the next id, leaves locals of the right
\* type behind.
LEMMA LocalsType ==
    ASSUME TypeInv, NEW w \in Workers,
           \/ \E label \in {"idle", "dead"} : Reset(w, label)
           \/ \E rest \in SUBSET Events : Continue(w, rest)
    PROVE  /\ pc' \in [Workers -> Labels]
           /\ now' \in [Workers -> Nat]
           /\ todo' \in [Workers -> SUBSET Events]
           /\ batch' \in [Workers -> SUBSET Events]
           /\ cur' \in [Workers -> Events \union {Null}]
           /\ seen' \in [Workers -> Nat]
           /\ tx' \in [Workers -> SUBSET Writes]
           /\ CurInv'
BY DEF TypeInv, TypeOK, CurInv, Reset, Continue, Labels, Processing

\* The rows a claim commits are rows.
LEMMA LeasesType ==
    ASSUME TypeInv, NEW w \in Workers
    PROVE  LeasesOf(w) \in [Events -> Row]
<1> SUFFICES ASSUME NEW e \in Events
             PROVE  LeasesOf(w)[e] \in Row
  BY DEF LeasesOf
<1>1. ingress[e] \in Row /\ now[w] \in Nat
  BY DEF TypeInv, TypeOK
<1> QED BY <1>1, ClaimedRow DEF LeasesOf

\* COMMIT adds events to the tables and stores a row.
LEMMA ApplyType ==
    ASSUME TypeInv, NEW w \in Workers, pc[w] = "commit", Apply(w)
    PROVE  /\ ingress' \in [Events -> Row]
           /\ sources' \subseteq Sources
           /\ events' \subseteq Events /\ outbox' \subseteq Events
           /\ details' \subseteq Events
<1>1. cur[w] \in Events /\ now[w] \in Nat /\ seen[w] \in Nat
  BY DEF TypeInv, TypeOK, CurInv, Processing
<1>2. ingress[cur[w]] \in Row /\ SourceOf[cur[w]] \in Sources
  BY <1>1, SourceAssumption DEF TypeInv, TypeOK
<1> DEFINE row == CASE "ingress" \in tx[w] -> Queue!Closed(ingress[cur[w]], "committed")
                    [] "retry" \in tx[w] -> Queue!Retried(ingress[cur[w]], seen[w], now[w])
                    [] OTHER -> ingress[cur[w]]
<1>3. row \in Row
  BY <1>1, <1>2, ClosedRow, RetriedRow
<1>4. ingress' = [ingress EXCEPT ![cur[w]] = row]
  BY DEF Apply
<1> HIDE DEF row
<1>5. ingress' \in [Events -> Row]
  BY <1>3, <1>4 DEF TypeInv, TypeOK
<1> QED BY <1>1, <1>2, <1>5 DEF Apply, With, TypeInv, TypeOK

\* The initial state has the right types.
LEMMA TypeInit == Init => TypeInv
BY AbsentRow DEF Init, TypeInv, TypeOK, CurInv, Labels, Processing

\* The API's commits.
LEMMA TypeApi == TypeInv /\ Api => TypeInv'
<1> SUFFICES ASSUME TypeInv, Api
             PROVE  TypeInv'
  OBVIOUS
<1>1. ASSUME NEW e \in Events, Accept(e)
      PROVE  TypeInv'
  <2>1. PICK at \in 0 .. clock : ingress' = [ingress EXCEPT ![e] = Queue!Fresh(at)]
    BY <1>1 DEF Accept
  <2>2. Queue!Fresh(at) \in Row
    BY FreshRow DEF TypeInv, TypeOK
  <2> QED BY <1>1, <2>1, <2>2 DEF Accept, TypeInv, TypeOK, CurInv
<1>2. ASSUME NEW s \in Sources, RegisterSource(s)
      PROVE  TypeInv'
  BY <1>2 DEF RegisterSource, TypeInv, TypeOK, CurInv
<1> QED BY <1>1, <1>2 DEF Api

\* A worker's step that is no failure.
LEMMA TypeStep == ASSUME TypeInv, NEW w \in Workers, Step(w) PROVE TypeInv'
<1>1. CASE Start(w)
  BY <1>1 DEF Start, Goto, TypeInv, TypeOK, CurInv, Labels, Processing, db
<1>2. CASE IdlePoll(w)
  BY <1>2 DEF IdlePoll, TypeInv, TypeOK, CurInv, vars, db
<1>3. CASE ClaimSelect(w)
  <2>1. Queue!Candidates(ingress, clock, BatchSize) \subseteq Events
    BY DEF Queue!Candidates, TypeInv, TypeOK
  <2> QED BY <1>3, <2>1
          DEF ClaimSelect, Goto, TypeInv, TypeOK, CurInv, Labels, Processing, db
<1>4. CASE ClaimUpdate(w)
  BY <1>4 DEF ClaimUpdate, TypeInv, TypeOK, CurInv, db
<1>5. CASE ClaimCommit(w)
  <2>1. batch[w] \in SUBSET Events
    BY DEF TypeInv, TypeOK
  <2> QED BY <1>5, <2>1, LeasesType, LocalsType DEF ClaimCommit, TypeInv, TypeOK
<1>6. CASE Load(w)
  <2>1. PICK e \in batch[w] :
          IF Queue!HeldBy(ingress[e], w, clock)
          THEN /\ Goto(w, "source")
               /\ batch' = [batch EXCEPT ![w] = @ \ {e}]
               /\ cur' = [cur EXCEPT ![w] = e]
               /\ seen' = [seen EXCEPT ![w] = ingress[e].attempts]
               /\ UNCHANGED <<now, todo, tx>>
          ELSE Continue(w, batch[w] \ {e})
    BY <1>6 DEF Load
  <2>2. e \in Events /\ ingress[e].attempts \in Nat /\ batch[w] \ {e} \in SUBSET Events
    BY DEF TypeInv, TypeOK, Row
  <2>3. UNCHANGED <<clock, faults, db>> /\ pc[w] = "work"
    BY <1>6 DEF Load
  <2>4. CASE Queue!HeldBy(ingress[e], w, clock)
    BY <2>1, <2>2, <2>3, <2>4 DEF Goto, TypeInv, TypeOK, CurInv, Labels, Processing, db
  <2>5. CASE ~Queue!HeldBy(ingress[e], w, clock)
    <3>1. Continue(w, batch[w] \ {e})
      BY <2>1, <2>5
    <3> QED BY <2>2, <2>3, <3>1, LocalsType DEF TypeInv, TypeOK, db
  <2> QED BY <2>4, <2>5
<1>7. CASE CheckSource(w)
  BY <1>7 DEF CheckSource, Goto, TypeInv, TypeOK, CurInv, Labels, Processing, db
<1>8. CASE InsertSource(w)
  BY <1>8 DEF InsertSource, Goto, TypeInv, TypeOK, CurInv, Labels, Processing, Writes, db
<1>9. CASE SourceConflict(w) \/ EventConflict(w)
  BY <1>9, LocalsType DEF SourceConflict, EventConflict, TypeInv, TypeOK, db
<1>10. CASE CheckEvent(w)
  BY <1>10 DEF CheckEvent, Goto, TypeInv, TypeOK, CurInv, Labels, Processing, db
<1>11. CASE InsertEvent(w)
  BY <1>11 DEF InsertEvent, Goto, TypeInv, TypeOK, CurInv, Labels, Processing, Writes, db
<1>12. CASE CloseAndEnqueue(w)
  BY <1>12
  DEF CloseAndEnqueue, EnsureOutboxRow, Goto, TypeInv, TypeOK, CurInv, Labels, Processing, Writes, db
<1>13. CASE WriteDetail(w)
  BY <1>13 DEF WriteDetail, Goto, TypeInv, TypeOK, CurInv, Labels, Processing, Writes, db
<1>14. CASE Commit(w)
  <2>1. batch[w] \in SUBSET Events
    BY DEF TypeInv, TypeOK
  <2> QED BY <1>14, <2>1, ApplyType, LocalsType DEF Commit, TypeInv, TypeOK
<1> QED BY <1>1, <1>2, <1>3, <1>4, <1>5, <1>6, <1>7, <1>8, <1>9, <1>10, <1>11,
           <1>12, <1>13, <1>14 DEF Step, Claim, Process

\* A worker's failures.
LEMMA TypeFault == ASSUME TypeInv, NEW w \in Workers, Fault(w) PROVE TypeInv'
<1>1. CASE MarkRetry(w)
  BY <1>1 DEF MarkRetry, Goto, TypeInv, TypeOK, CurInv, Labels, Processing, Writes, db
<1>2. CASE Fail(w) \/ Crash(w)
  BY <1>2, LocalsType DEF Fail, Crash, TypeInv, TypeOK, db
<1>3. CASE CommitUnheard(w)
  BY <1>3, LeasesType, ApplyType, LocalsType DEF CommitUnheard, TypeInv, TypeOK
<1> QED BY <1>1, <1>2, <1>3 DEF Fault

\* Every step preserves the types.
LEMMA TypeNext == TypeInv /\ [Next]_vars => TypeInv'
<1> SUFFICES ASSUME TypeInv, [Next]_vars
             PROVE  TypeInv'
  OBVIOUS
<1>1. CASE Tick
  BY <1>1 DEF Tick, TypeInv, TypeOK, CurInv, db
<1>2. CASE UNCHANGED vars
  BY <1>2 DEF TypeInv, TypeOK, CurInv, vars, db
<1> QED BY <1>1, <1>2, TypeApi, TypeStep, TypeFault DEF Next

\* Every variable keeps its type, in every behaviour of the committer.
THEOREM TypeCorrect == Spec => []TypeOK
<1>1. Spec => []TypeInv
  BY TypeInit, TypeNext, PTL DEF Spec
<1>2. TypeInv => TypeOK
  BY DEF TypeInv
<1> QED BY <1>1, <1>2, PTL

(***************************************************************************)
(* The inductive invariant.                                                *)
(***************************************************************************)

\* w's transaction ends: its locals are cleared.
Leaves(w) ==
    /\ \E label \in {"idle", "work", "dead"} : pc' = [pc EXCEPT ![w] = label]
    /\ cur' = [cur EXCEPT ![w] = Null]
    /\ tx' = [tx EXCEPT ![w] = {}]
    /\ now' = [now EXCEPT ![w] = 0]
    /\ \E S : batch' = [batch EXCEPT ![w] = S]

\* What is left of a worker's locals after its transaction satisfies its part of
\* the invariant.
LEMMA LeavesOK ==
    ASSUME NEW w \in Workers,
           \/ \E label \in {"idle", "dead"} : Reset(w, label)
           \/ \E rest : Continue(w, rest)
    PROVE  Leaves(w)
BY DEF Reset, Continue, Leaves

\* What a table that has grown still shows.
Grown ==
    /\ sources \subseteq sources'
    /\ events \subseteq events'
    /\ outbox \subseteq outbox'
    /\ \A e \in Events : ingress[e].status # "absent" => ingress'[e].status # "absent"

\* The other workers do not notice: w may only have changed rows it held.
LEMMA Release ==
    ASSUME IInv, NEW w \in Workers, Leaves(w), Grown, clock' = clock,
           \A e \in Events : ingress'[e] = ingress[e] \/ HoldsRow(w, e)
    PROVE  TxInv' /\ LockInv' /\ ClaimInv'
<1>1. /\ pc'[w] \in {"idle", "work", "dead"} /\ cur'[w] = Null /\ tx'[w] = {}
      /\ \A v \in Workers \ {w} :
            /\ pc'[v] = pc[v] /\ cur'[v] = cur[v] /\ tx'[v] = tx[v]
            /\ now'[v] = now[v] /\ batch'[v] = batch[v]
  BY DEF Leaves, IInv, TypeInv, TypeOK
<1>2. TxInv'
  <2> SUFFICES ASSUME NEW v \in Workers
               PROVE  (TxShape(v) /\ TxReady(v))'
    BY DEF TxInv
  <2>1. CASE v = w
    BY <1>1, <2>1 DEF TxShape, TxReady, Processing
  <2>2. CASE v # w
    <3>1. TxShape(v) /\ TxReady(v) /\ (pc[v] \in Processing => cur[v] \in Events)
      BY DEF IInv, TxInv, TypeInv, CurInv
    <3> QED BY <1>1, <2>2, <3>1 DEF TxShape, TxReady, Grown
  <2> QED BY <2>1, <2>2
<1>3. \A v \in Workers, e \in Events : HoldsRow(v, e)' => v # w /\ HoldsRow(v, e)
  <2> SUFFICES ASSUME NEW v \in Workers, NEW e \in Events, HoldsRow(v, e)'
               PROVE  v # w /\ HoldsRow(v, e)
    OBVIOUS
  <2>1. v # w
    BY <1>1 DEF HoldsRow
  <2> QED BY <1>1, <2>1 DEF HoldsRow
<1>4. LockInv'
  BY <1>3 DEF LockInv, IInv
<1>5. ClaimInv'
  <2> SUFFICES ASSUME NEW v \in Workers, pc'[v] = "claim"
               PROVE  /\ now'[v] <= clock'
                      /\ \A e \in batch'[v] : Queue!StillClaimable(ingress'[e], now'[v])
    BY DEF ClaimInv
  <2>1. v # w
    BY <1>1
  <2>2. /\ pc[v] = "claim" /\ now'[v] = now[v] /\ batch'[v] = batch[v]
        /\ batch[v] \subseteq Events /\ now[v] <= clock
    BY <1>1, <2>1 DEF IInv, TypeInv, TypeOK, ClaimInv
  <2>3. ASSUME NEW e \in batch[v]
        PROVE  Queue!StillClaimable(ingress'[e], now[v])
    <3>1. HoldsRow(v, e) /\ e \in Events
      BY <2>2 DEF HoldsRow
    <3>2. ~HoldsRow(w, e)
      BY <3>1, <2>1 DEF IInv, LockInv
    <3>3. ingress'[e] = ingress[e]
      BY <3>1, <3>2
    <3> QED BY <2>2, <3>3 DEF IInv, ClaimInv
  <2> QED BY <2>2, <2>3
<1> QED BY <1>2, <1>4, <1>5

\* What the COMMIT of a commit_ingress does to the tables.
LEMMA ApplyData ==
    ASSUME IInv, NEW w \in Workers, pc[w] = "commit", Apply(w)
    PROVE  /\ Grown
           /\ \A e \in Events : ingress'[e] = ingress[e] \/ HoldsRow(w, e)
           /\ LeaseInv' /\ CommitAtomic' /\ CommittedUnleased'
<1> DEFINE c == cur[w]
<1>1. c \in Events /\ now[w] \in Nat /\ seen[w] \in Nat /\ ingress[c] \in Row
  BY DEF IInv, TypeInv, TypeOK, CurInv, Processing
<1>2. TxShape(w) /\ TxReady(w)
  BY DEF IInv, TxInv
<1>3. \A e \in Events \ {c} : ingress'[e] = ingress[e]
  BY DEF Apply, IInv, TypeInv, TypeOK
<1>4. CASE "ingress" \in tx[w] /\ "retry" \notin tx[w]
  <2>1. ingress'[c] = Queue!Closed(ingress[c], "committed")
    BY <1>1, <1>4 DEF Apply, IInv, TypeInv, TypeOK
  <2>2. /\ ingress'[c].status = "committed"
        /\ ingress'[c].lease_owner = Null /\ ingress'[c].lease_until = Null
    BY <1>1, <2>1, ClosedRow
  <2>3. /\ events' = events \union {c} /\ SourceOf[c] \in sources'
        /\ outbox' = outbox \union {c}
        /\ sources \subseteq sources' /\ details' \subseteq details \union {c}
    BY <1>2, <1>4 DEF Apply, With, TxReady
  <2>4. Grown
    BY <1>3, <2>2, <2>3 DEF Grown
  <2>5. LeaseInv' /\ CommittedUnleased'
    BY <1>3, <2>2 DEF LeaseInv, CommittedUnleased, IInv
  <2>6. CommitAtomic'
    BY <1>1, <1>3, <2>2, <2>3 DEF CommitAtomic, IInv
  <2>7. HoldsRow(w, c)
    BY <1>4 DEF HoldsRow
  <2> QED BY <1>3, <2>4, <2>5, <2>6, <2>7
<1>5. CASE "retry" \in tx[w] /\ tx[w] \subseteq {"source", "retry"}
  <2>1. ingress'[c] = Queue!Retried(ingress[c], seen[w], now[w])
    BY <1>1, <1>5 DEF Apply, IInv, TypeInv, TypeOK
  <2>2. /\ ingress'[c].status = ingress[c].status
        /\ ingress'[c].lease_owner = Null /\ ingress'[c].lease_until = Null
    <3> DEFINE row == Queue!Retried(ingress[c], seen[w], now[w])
    <3>1. /\ row.status = ingress[c].status
          /\ row.lease_owner = Null /\ row.lease_until = Null
      BY <1>1, RetriedRow
    <3> HIDE DEF row
    <3> QED BY <2>1, <3>1 DEF row
  <2>3. /\ UNCHANGED <<events, outbox, details>>
        /\ sources \subseteq sources'
    BY <1>5 DEF Apply, With
  <2>4. Grown
    BY <1>3, <2>2, <2>3 DEF Grown
  <2>5. LeaseInv' /\ CommittedUnleased'
    BY <1>3, <2>2 DEF LeaseInv, CommittedUnleased, IInv
  <2>6. CommitAtomic'
    BY <1>1, <1>3, <2>2, <2>3 DEF CommitAtomic, IInv
  <2>7. HoldsRow(w, c)
    BY <1>5 DEF HoldsRow
  <2> QED BY <1>3, <2>4, <2>5, <2>6, <2>7
<1> QED BY <1>2, <1>4, <1>5 DEF TxShape

\* What the COMMIT of a claim does to the tables.
LEMMA LeasesData ==
    ASSUME IInv, NEW w \in Workers, pc[w] = "claim", ingress' = LeasesOf(w),
           UNCHANGED <<sources, events, outbox, details>>
    PROVE  /\ Grown
           /\ \A e \in Events : ingress'[e] = ingress[e] \/ HoldsRow(w, e)
           /\ LeaseInv' /\ CommitAtomic' /\ CommittedUnleased'
<1>1. \A e \in Events \ batch[w] : ingress'[e] = ingress[e]
  BY DEF LeasesOf
<1>2. ASSUME NEW e \in Events, e \in batch[w]
      PROVE  /\ ingress'[e].status = "accepted" /\ ingress[e].status = "accepted"
             /\ ingress'[e].lease_owner # Null /\ ingress'[e].lease_until # Null
             /\ HoldsRow(w, e)
  <2>1. ingress'[e] = Queue!Claimed(ingress[e], w, now[w])
    BY <1>2 DEF LeasesOf
  <2>2. ingress[e] \in Row /\ now[w] \in Nat
    BY DEF IInv, TypeInv, TypeOK
  <2>3. ingress[e].status = "accepted"
    BY <1>2 DEF IInv, ClaimInv, Queue!StillClaimable
  <2>4. /\ ingress'[e].status = ingress[e].status
        /\ ingress'[e].lease_owner = w
        /\ ingress'[e].lease_until = now[w] + LeaseSeconds
    BY <2>1, <2>2, ClaimedRow
  <2>5. w # Null /\ now[w] + LeaseSeconds # Null
    BY <2>2, NullAssumption, TimesAssumption
  <2> QED BY <1>2, <2>3, <2>4, <2>5 DEF HoldsRow
<1>3. \A e \in Events : ingress'[e] = ingress[e] \/ e \in batch[w]
  BY <1>1
<1>4. Grown
  BY <1>2, <1>3 DEF Grown
<1>5. LeaseInv' /\ CommittedUnleased'
  BY <1>2, <1>3 DEF LeaseInv, CommittedUnleased, IInv
<1>6. CommitAtomic'
  BY <1>2, <1>3 DEF CommitAtomic, IInv
<1> QED BY <1>2, <1>3, <1>4, <1>5, <1>6

\* The others' locals are theirs.
Alone(w) == \A v \in Workers \ {w} :
    /\ pc'[v] = pc[v] /\ cur'[v] = cur[v] /\ tx'[v] = tx[v]
    /\ now'[v] = now[v] /\ batch'[v] = batch[v]

\* A step of w inside its transaction: it has to keep its own part of the
\* invariant and to take no row that another transaction holds.
LEMMA LocalStep ==
    ASSUME IInv, NEW w \in Workers, Alone(w), UNCHANGED <<clock, db>>,
           (TxShape(w) /\ TxReady(w))',
           \A e \in Events : HoldsRow(w, e)' => HoldsRow(w, e) \/ ~RowBusy(w, e),
           pc'[w] = "claim" =>
              /\ now'[w] <= clock
              /\ \A e \in batch'[w] : Queue!StillClaimable(ingress[e], now'[w])
    PROVE  /\ TxInv' /\ LockInv' /\ ClaimInv'
           /\ LeaseInv' /\ CommitAtomic' /\ CommittedUnleased'
<1>1. LeaseInv' /\ CommitAtomic' /\ CommittedUnleased'
  BY DEF LeaseInv, CommitAtomic, CommittedUnleased, IInv, db
<1>2. TxInv'
  <2> SUFFICES ASSUME NEW v \in Workers, v # w
               PROVE  (TxShape(v) /\ TxReady(v))'
    BY DEF TxInv
  <2>1. TxShape(v) /\ TxReady(v)
    BY DEF IInv, TxInv
  <2> QED BY <2>1 DEF TxShape, TxReady, Alone, db
<1>3. ASSUME NEW v \in Workers \ {w}, NEW e \in Events
      PROVE  HoldsRow(v, e)' <=> HoldsRow(v, e)
  BY DEF HoldsRow, Alone
<1>4. LockInv'
  <2> SUFFICES ASSUME NEW e \in Events, NEW u \in Workers, NEW v \in Workers,
                      HoldsRow(u, e)', HoldsRow(v, e)', u # v
               PROVE  FALSE
    BY DEF LockInv
  <2>1. CASE u # w /\ v # w
    BY <1>3, <2>1 DEF IInv, LockInv
  <2>2. CASE u = w
    <3>1. HoldsRow(v, e)
      BY <1>3, <2>2
    <3> QED BY <2>2, <3>1 DEF IInv, LockInv, RowBusy
  <2>3. CASE v = w
    <3>1. HoldsRow(u, e)
      BY <1>3, <2>3
    <3> QED BY <2>3, <3>1 DEF IInv, LockInv, RowBusy
  <2> QED BY <2>1, <2>2, <2>3
<1>5. ClaimInv'
  BY DEF ClaimInv, IInv, Alone, db
<1> QED BY <1>1, <1>2, <1>4, <1>5

\* The conjuncts of IInv other than the types.
Rest == TxInv /\ LockInv /\ ClaimInv /\ LeaseInv /\ CommitAtomic /\ CommittedUnleased

\* The initial state satisfies the data part of the invariant.
LEMMA RestInit == Init => Rest
<1> SUFFICES ASSUME Init
             PROVE  Rest
  OBVIOUS
<1>1. /\ \A e \in Events : ingress[e] = Absent
      /\ \A w \in Workers : pc[w] = "off" /\ cur[w] = Null /\ tx[w] = {}
      /\ events = {} /\ outbox = {} /\ details = {}
  BY DEF Init
<1>2. \A w \in Workers, e \in Events : ~HoldsRow(w, e)
  BY <1>1 DEF HoldsRow
<1>3. TxInv /\ ClaimInv
  BY <1>1 DEF TxInv, TxShape, TxReady, ClaimInv, Processing
<1>4. LockInv
  BY <1>2 DEF LockInv
<1>5. LeaseInv /\ CommitAtomic /\ CommittedUnleased
  BY <1>1, AbsentRow DEF LeaseInv, CommitAtomic, CommittedUnleased
<1> QED BY <1>3, <1>4, <1>5 DEF Rest

\* The API's commits.  An accepted row was nobody's before.
LEMMA RestApi == IInv /\ Api => Rest'
<1> SUFFICES ASSUME IInv, Api
             PROVE  Rest'
  OBVIOUS
<1>1. ASSUME NEW e \in Events, Accept(e)
      PROVE  Rest'
  <2>1. PICK at \in 0 .. clock : ingress' = [ingress EXCEPT ![e] = Queue!Fresh(at)]
    BY <1>1 DEF Accept
  <2>2. /\ ingress'[e].status = "accepted" /\ ingress[e].status = "absent"
        /\ ingress'[e].lease_owner = Null /\ ingress'[e].lease_until = Null
        /\ \A d \in Events \ {e} : ingress'[d] = ingress[d]
    BY <1>1, <2>1, FreshRow DEF Accept, IInv, TypeInv, TypeOK
  <2>3. UNCHANGED <<clock, sources, events, outbox, details, pc, now, batch, cur, tx>>
    BY <1>1 DEF Accept
  <2>4. TxInv'
    <3> SUFFICES ASSUME NEW v \in Workers
                 PROVE  (TxShape(v) /\ TxReady(v))'
      BY DEF TxInv
    <3>1. TxShape(v) /\ TxReady(v) /\ (pc[v] \in Processing => cur[v] \in Events)
      BY DEF IInv, TxInv, TypeInv, CurInv
    <3> QED BY <2>2, <2>3, <3>1 DEF TxShape, TxReady
  <2>5. LockInv'
    BY <2>3 DEF LockInv, HoldsRow, IInv
  <2>6. ClaimInv'
    BY <2>2, <2>3 DEF ClaimInv, IInv, TypeInv, TypeOK, Queue!StillClaimable
  <2>7. LeaseInv' /\ CommitAtomic' /\ CommittedUnleased'
    BY <2>2, <2>3 DEF LeaseInv, CommitAtomic, CommittedUnleased, IInv
  <2> QED BY <2>4, <2>5, <2>6, <2>7 DEF Rest
<1>2. ASSUME NEW s \in Sources, RegisterSource(s)
      PROVE  Rest'
  <2>1. /\ UNCHANGED <<clock, ingress, events, outbox, details, pc, now, batch, cur, tx>>
        /\ sources \subseteq sources'
    BY <1>2 DEF RegisterSource
  <2>2. TxInv'
    BY <2>1 DEF TxInv, TxShape, TxReady, IInv
  <2>3. LockInv' /\ ClaimInv'
    BY <2>1 DEF LockInv, HoldsRow, ClaimInv, IInv
  <2>4. LeaseInv' /\ CommitAtomic' /\ CommittedUnleased'
    BY <2>1 DEF LeaseInv, CommitAtomic, CommittedUnleased, IInv
  <2> QED BY <2>2, <2>3, <2>4 DEF Rest
<1> QED BY <1>1, <1>2 DEF Api

\* Steps that change nothing but w's locals.
LEMMA RestLocal ==
    ASSUME IInv, NEW w \in Workers,
           \/ Start(w) \/ ClaimSelect(w) \/ ClaimUpdate(w) \/ CheckSource(w)
           \/ InsertSource(w) \/ CheckEvent(w) \/ InsertEvent(w)
           \/ CloseAndEnqueue(w) \/ WriteDetail(w) \/ MarkRetry(w)
    PROVE  Rest'
<1>0. /\ TxShape(w) /\ TxReady(w)
      /\ pc[w] \in Processing => cur[w] \in Events
      /\ pc[w] \notin Processing => tx[w] = {}
  BY DEF IInv, TxInv, TypeInv, CurInv
<1>1. UNCHANGED <<clock, db>> /\ Alone(w)
  BY DEF Start, ClaimSelect, ClaimUpdate, CheckSource, InsertSource, CheckEvent,
         InsertEvent, CloseAndEnqueue, WriteDetail, MarkRetry, Goto, Alone, IInv,
         TypeInv, TypeOK
<1>2. (TxShape(w) /\ TxReady(w))'
  <2>1. CASE Start(w) \/ ClaimSelect(w) \/ ClaimUpdate(w)
    BY <1>0, <1>1, <2>1 DEF Start, ClaimSelect, ClaimUpdate, Goto, TxShape, TxReady,
       Processing, IInv, TypeInv, TypeOK, db
  <2>2. CASE CheckSource(w) \/ InsertSource(w)
    BY <1>0, <1>1, <2>2 DEF CheckSource, InsertSource, Goto, TxShape, TxReady,
       Processing, IInv, TypeInv, TypeOK, db
  <2>3. CASE CheckEvent(w) \/ InsertEvent(w)
    BY <1>0, <1>1, <2>3 DEF CheckEvent, InsertEvent, Goto, TxShape, TxReady,
       Processing, IInv, TypeInv, TypeOK, db
  <2>4. CASE CloseAndEnqueue(w)
    BY <1>0, <1>1, <2>4 DEF CloseAndEnqueue, EnsureOutboxRow, Goto, TxShape, TxReady, Processing,
       IInv, TypeInv, TypeOK, db
  <2>5. CASE WriteDetail(w)
    BY <1>0, <1>1, <2>5 DEF WriteDetail, Goto, TxShape, TxReady, Processing,
       IInv, TypeInv, TypeOK, db
  <2>6. CASE MarkRetry(w)
    BY <1>0, <1>1, <2>6 DEF MarkRetry, Goto, TxShape, TxReady, Processing,
       IInv, TypeInv, TypeOK, db
  <2> QED BY <2>1, <2>2, <2>3, <2>4, <2>5, <2>6
<1>3. \A e \in Events : HoldsRow(w, e)' => HoldsRow(w, e) \/ ~RowBusy(w, e)
  <2> SUFFICES ASSUME NEW e \in Events, HoldsRow(w, e)', ~HoldsRow(w, e)
               PROVE  ~RowBusy(w, e)
    OBVIOUS
  <2>1. CASE Start(w) \/ CheckSource(w) \/ CheckEvent(w)
    BY <2>1 DEF Start, CheckSource, CheckEvent, Goto, HoldsRow, IInv, TypeInv, TypeOK
  <2>2. CASE InsertSource(w) \/ InsertEvent(w) \/ WriteDetail(w)
    BY <2>2 DEF InsertSource, InsertEvent, WriteDetail, Goto, HoldsRow, IInv,
       TypeInv, TypeOK
  <2>3. CASE ClaimSelect(w)
    BY <1>0, <2>3 DEF ClaimSelect, HoldsRow, Processing, IInv, TypeInv, TypeOK
  <2>4. CASE ClaimUpdate(w)
    BY <2>4 DEF ClaimUpdate, HoldsRow, IInv, TypeInv, TypeOK
  <2>5. CASE CloseAndEnqueue(w)
    BY <2>5 DEF CloseAndEnqueue, Goto, HoldsRow, IInv, TypeInv, TypeOK
  <2>6. CASE MarkRetry(w)
    BY <2>6 DEF MarkRetry, Goto, HoldsRow, IInv, TypeInv, TypeOK
  <2> QED BY <2>1, <2>2, <2>3, <2>4, <2>5, <2>6
<1>4. pc'[w] = "claim" =>
        /\ now'[w] <= clock
        /\ \A e \in batch'[w] : Queue!StillClaimable(ingress[e], now'[w])
  <2>1. CASE ClaimSelect(w)
    BY <2>1 DEF ClaimSelect, IInv, TypeInv, TypeOK
  <2>2. CASE ClaimUpdate(w)
    BY <2>2 DEF ClaimUpdate, ClaimInv, IInv, TypeInv, TypeOK
  <2>3. CASE ~ClaimSelect(w) /\ ~ClaimUpdate(w)
    BY <2>3 DEF Start, CheckSource, InsertSource, CheckEvent, InsertEvent,
       CloseAndEnqueue, WriteDetail, MarkRetry, Goto, IInv, TypeInv, TypeOK
  <2> QED BY <2>1, <2>2, <2>3
<1> QED BY <1>1, <1>2, <1>3, <1>4, LocalStep DEF Rest

\* Loading a row, or finding that its lease is gone.
LEMMA RestLoad == ASSUME IInv, NEW w \in Workers, Load(w) PROVE Rest'
<1>1. PICK e \in batch[w] :
        IF Queue!HeldBy(ingress[e], w, clock)
        THEN /\ Goto(w, "source")
             /\ batch' = [batch EXCEPT ![w] = @ \ {e}]
             /\ cur' = [cur EXCEPT ![w] = e]
             /\ UNCHANGED <<now, todo, tx>>
        ELSE Continue(w, batch[w] \ {e})
  BY DEF Load
<1>2. UNCHANGED <<clock, db>> /\ pc[w] = "work" /\ tx[w] = {} /\ e \in Events
  BY DEF Load, IInv, TypeInv, TypeOK, CurInv, Processing
<1>3. CASE Queue!HeldBy(ingress[e], w, clock)
  <2>1. /\ pc'[w] = "source" /\ cur'[w] = e /\ tx'[w] = {}
        /\ ingress'[e].status = "accepted" /\ Alone(w)
    BY <1>1, <1>2, <1>3 DEF Goto, Alone, IInv, TypeInv, TypeOK, Queue!HeldBy, db
  <2>2. (TxShape(w) /\ TxReady(w))'
    BY <2>1 DEF TxShape, TxReady
  <2>3. \A d \in Events : ~HoldsRow(w, d)'
    BY <2>1 DEF HoldsRow
  <2> QED BY <1>2, <2>1, <2>2, <2>3, LocalStep DEF Rest
<1>4. CASE ~Queue!HeldBy(ingress[e], w, clock)
  <2>1. Leaves(w)
    BY <1>1, <1>4, LeavesOK
  <2>2. Grown /\ \A d \in Events : ingress'[d] = ingress[d]
    BY <1>2 DEF Grown, db
  <2>3. LeaseInv' /\ CommitAtomic' /\ CommittedUnleased'
    BY <1>2 DEF LeaseInv, CommitAtomic, CommittedUnleased, IInv, db
  <2> QED BY <1>2, <2>1, <2>2, <2>3, Release DEF Rest
<1> QED BY <1>3, <1>4

\* The steps that end a transaction.
LEMMA RestEnd ==
    ASSUME IInv, NEW w \in Workers,
           \/ ClaimCommit(w) \/ Commit(w) \/ SourceConflict(w) \/ EventConflict(w)
           \/ Fail(w) \/ CommitUnheard(w) \/ Crash(w)
    PROVE  Rest'
<1>1. Leaves(w) /\ clock' = clock
  BY LeavesOK DEF ClaimCommit, Commit, SourceConflict, EventConflict, Fail,
     CommitUnheard, Crash
<1>2. /\ Grown
      /\ \A e \in Events : ingress'[e] = ingress[e] \/ HoldsRow(w, e)
      /\ LeaseInv' /\ CommitAtomic' /\ CommittedUnleased'
  <2>1. CASE pc[w] = "commit" /\ Apply(w)
    BY <2>1, ApplyData
  <2>2. CASE /\ pc[w] = "claim" /\ ingress' = LeasesOf(w)
             /\ UNCHANGED <<sources, events, outbox, details>>
    BY <2>2, LeasesData
  <2>3. CASE UNCHANGED db
    BY <2>3 DEF Grown, LeaseInv, CommitAtomic, CommittedUnleased, IInv, db
  <2> QED BY <2>1, <2>2, <2>3 DEF ClaimCommit, Commit, SourceConflict,
             EventConflict, Fail, CommitUnheard, Crash
<1> QED BY <1>1, <1>2, Release DEF Rest

\* Every step preserves the data part of the invariant.
LEMMA RestNext == IInv /\ [Next]_vars => Rest'
<1> SUFFICES ASSUME IInv, [Next]_vars
             PROVE  Rest'
  OBVIOUS
<1>1. CASE UNCHANGED <<db, pc, now, batch, cur, tx>> /\ clock <= clock'
  <2>1. TxInv'
    BY <1>1 DEF IInv, TxInv, TxShape, TxReady, db
  <2>2. LockInv'
    BY <1>1 DEF IInv, LockInv, HoldsRow
  <2>3. ClaimInv'
    <3> SUFFICES ASSUME NEW w \in Workers, pc'[w] = "claim"
                 PROVE  /\ now'[w] <= clock'
                        /\ \A e \in batch'[w] : Queue!StillClaimable(ingress'[e], now'[w])
      BY DEF ClaimInv
    <3>1. /\ now[w] \in Nat /\ clock \in Nat /\ clock' \in Nat
          /\ now[w] <= clock
          /\ \A e \in batch[w] : Queue!StillClaimable(ingress[e], now[w])
      BY <1>1, TypeNext DEF IInv, ClaimInv, TypeInv, TypeOK
    <3> QED BY <1>1, <3>1 DEF db
  <2>4. LeaseInv' /\ CommitAtomic' /\ CommittedUnleased'
    BY <1>1 DEF IInv, LeaseInv, CommitAtomic, CommittedUnleased, db
  <2> QED BY <2>1, <2>2, <2>3, <2>4 DEF Rest
<1>2. Tick \/ UNCHANGED vars \/ (\E w \in Workers : IdlePoll(w)) =>
        UNCHANGED <<db, pc, now, batch, cur, tx>> /\ clock <= clock'
  BY DEF Tick, IdlePoll, vars, IInv, TypeInv, TypeOK
<1> QED BY <1>1, <1>2, RestApi, RestLocal, RestLoad, RestEnd
        DEF Next, Step, Fault, Claim, Process

LEMMA InitInv == Init => IInv
BY TypeInit, RestInit DEF IInv, Rest

LEMMA NextInv == IInv /\ [Next]_vars => IInv'
BY TypeNext, RestNext DEF IInv, Rest

\* IInv is inductive: it holds in every reachable state.
THEOREM Invariance == Spec => []IInv
BY InitInv, NextInv, PTL DEF Spec

\* At every moment of every behaviour, ingress, events, outbox, sources and
\* details agree (commit_ingress).
THEOREM Atomicity == Spec => []CommitAtomic
<1>1. IInv => CommitAtomic
  BY DEF IInv
<1> QED BY <1>1, Invariance, PTL

\* No committed row is ever leased (claim_ingress_batch's UPDATE).
THEOREM NoLeaseOnCommitted == Spec => []CommittedUnleased
<1>1. IInv => CommittedUnleased
  BY DEF IInv
<1> QED BY <1>1, Invariance, PTL

\* A lease passes from one worker to another only after it has run out
\* (the WHERE of claim_ingress_batch's UPDATE, evaluated under the row's lock).
THEOREM LeaseSafety == Spec => NoLeaseTheft
<1> DEFINE Passes(e) ==
      \/ ingress[e].lease_owner = Null
      \/ ingress'[e].lease_owner \in {ingress[e].lease_owner, Null}
      \/ ingress[e].lease_until < clock
<1>1. ASSUME IInv, [Next]_vars, NEW e \in Events
      PROVE  Passes(e)
  <2>1. CASE ingress'[e] = ingress[e]
    BY <2>1
  <2>2. CASE \E d \in Events : Accept(d)
    <3>1. PICK d \in Events : Accept(d)
      BY <2>2
    <3>2. PICK at \in 0 .. clock : ingress' = [ingress EXCEPT ![d] = Queue!Fresh(at)]
      BY <3>1 DEF Accept
    <3>3. ingress'[e] = ingress[e] \/ ingress'[e].lease_owner = Null
      BY <1>1, <3>2, FreshRow DEF IInv, TypeInv, TypeOK
    <3> QED BY <3>3
  <2>3. ASSUME NEW w \in Workers, pc[w] = "commit", Apply(w)
        PROVE  Passes(e)
    <3>1. cur[w] \in Events /\ now[w] \in Nat /\ seen[w] \in Nat /\ ingress[cur[w]] \in Row
      BY <1>1, <2>3 DEF IInv, TypeInv, TypeOK, CurInv, Processing
    <3>2. \/ ingress'[e] = ingress[e]
          \/ ingress'[e] = Queue!Closed(ingress[e], "committed") /\ cur[w] = e
          \/ ingress'[e] = Queue!Retried(ingress[e], seen[w], now[w]) /\ cur[w] = e
      BY <1>1, <2>3, <3>1 DEF Apply, IInv, TypeInv, TypeOK
    <3>3. CASE ingress'[e] = Queue!Closed(ingress[e], "committed") /\ cur[w] = e
      BY <3>1, <3>3, ClosedRow
    <3>4. CASE ingress'[e] = Queue!Retried(ingress[e], seen[w], now[w]) /\ cur[w] = e
      <4> DEFINE row == Queue!Retried(ingress[e], seen[w], now[w])
      <4>1. row.lease_owner = Null
        BY <3>1, <3>4, RetriedRow
      <4> HIDE DEF row
      <4>2. ingress'[e] = row
        BY <3>4 DEF row
      <4> QED BY <4>1, <4>2
    <3> QED BY <3>2, <3>3, <3>4
  <2>4. ASSUME NEW w \in Workers, pc[w] = "claim", ingress' = LeasesOf(w)
        PROVE  Passes(e)
    <3>1. CASE e \notin batch[w]
      BY <2>4, <3>1 DEF LeasesOf
    <3>2. CASE e \in batch[w]
      <4>1. Queue!Unleased(ingress[e], now[w]) /\ now[w] <= clock
        BY <1>1, <2>4, <3>2 DEF IInv, ClaimInv, Queue!StillClaimable
      <4>2. CASE ingress[e].lease_until = Null
        BY <1>1, <4>2 DEF IInv, LeaseInv
      <4>3. CASE ingress[e].lease_until # Null
        <5>1. /\ ingress[e].lease_until < now[w] /\ ingress[e].lease_until \in Nat
              /\ now[w] \in Nat /\ clock \in Nat
          BY <1>1, <4>1, <4>3 DEF Queue!Unleased, IInv, TypeInv, TypeOK, Row
        <5> QED BY <4>1, <5>1
      <4> QED BY <4>2, <4>3
    <3> QED BY <3>1, <3>2
  <2>5. \/ ingress' = ingress
        \/ \E d \in Events : Accept(d)
        \/ \E w \in Workers : \/ pc[w] = "commit" /\ Apply(w)
                              \/ pc[w] = "claim" /\ ingress' = LeasesOf(w)
    BY <1>1 DEF Next, Api, RegisterSource, Tick, Step, Fault, Claim, Process, Start,
       IdlePoll, ClaimSelect, ClaimUpdate, ClaimCommit, Load, CheckSource,
       InsertSource, SourceConflict, CheckEvent, InsertEvent, EventConflict,
       CloseAndEnqueue, WriteDetail, Commit, MarkRetry, Fail, CommitUnheard, Crash,
       vars, db
  <2> QED BY <2>1, <2>2, <2>3, <2>4, <2>5
<1>2. IInv /\ [Next]_vars => [\A e \in Events : Passes(e)]_vars
  BY <1>1
<1>3. Spec => [][\A e \in Events : Passes(e)]_vars
  BY <1>2, Invariance, PTL DEF Spec
<1> QED BY <1>3 DEF NoLeaseTheft

(***************************************************************************)
(* Refinement.  The abstract state is read off the tables: an event is     *)
(* accepted if it has an ingress row, visible if it has an event row, and  *)
(* owed to the webhooks if it has an outbox row.                           *)
(***************************************************************************)
AcceptedRows == {e \in Events : ingress[e].status # "absent"}

\* The initial state maps to the event store's.
LEMMA StoreInit == Init => Store!Init
<1> SUFFICES ASSUME Init
             PROVE  Store!Init
  OBVIOUS
<1>1. \A e \in Events : ingress[e].status = "absent"
  BY AbsentRow DEF Init
<1> QED BY <1>1 DEF Init, Store!Init

\* Nothing the store promises about has changed.
LEMMA StoreStutter ==
    ASSUME UNCHANGED <<AcceptedRows, events, outbox>>
    PROVE  UNCHANGED Store!vars
BY DEF Store!vars, AcceptedRows

LEMMA StoreAccept ==
    ASSUME IInv, NEW e \in Events, Accept(e)
    PROVE  Store!Next
<1>1. PICK at \in 0 .. clock : ingress' = [ingress EXCEPT ![e] = Queue!Fresh(at)]
  BY DEF Accept
<1>2. /\ ingress[e].status = "absent" /\ ingress'[e].status = "accepted"
      /\ \A d \in Events \ {e} : ingress'[d] = ingress[d]
  BY <1>1, FreshRow DEF Accept, IInv, TypeInv, TypeOK
<1>3. UNCHANGED <<events, outbox>>
  BY DEF Accept
<1>4. Store!Accept(e)
  BY <1>2, <1>3 DEF Store!Accept
<1> QED BY <1>4 DEF Store!Next

LEMMA StoreCommit ==
    ASSUME IInv, NEW w \in Workers, pc[w] = "commit", Apply(w)
    PROVE  [Store!Next]_(Store!vars)
<1>0. cur[w] \in Events /\ ingress[cur[w]].status # "absent"
  BY DEF IInv, TypeInv, CurInv, TxInv, TxReady, Processing
<1>1. PICK c \in Events : c = cur[w] /\ ingress[c].status # "absent"
  BY <1>0
<1>2. Grown /\ \A e \in Events : ingress'[e] = ingress[e] \/ e = c
  <2>1. \A e \in Events \ {c} : ingress'[e] = ingress[e]
    BY <1>1 DEF Apply, IInv, TypeInv, TypeOK
  <2> QED BY <2>1, ApplyData
<1>3. AcceptedRows' = AcceptedRows
  BY <1>1, <1>2 DEF AcceptedRows, Grown
<1>4. /\ events' \in {events, events \union {c}}
      /\ outbox' \in {outbox, outbox \union {c}}
  BY <1>1 DEF Apply, With
<1>5. \A e \in Events : (e \in outbox <=> e \in events) /\ (e \in outbox' <=> e \in events')
  BY ApplyData DEF IInv, CommitAtomic
<1>6. events \subseteq Events /\ outbox \subseteq Events
  BY DEF IInv, TypeInv, TypeOK
<1>7. CASE c \in events \/ events' = events
  <2>1. events' = events /\ outbox' = outbox
    BY <1>1, <1>4, <1>5, <1>6, <1>7
  <2> QED BY <1>3, <2>1, StoreStutter
<1>8. CASE c \notin events /\ events' # events
  <2>1. /\ events' = events \union {c} /\ outbox' = outbox \union {c}
        /\ c \notin outbox
    BY <1>1, <1>4, <1>5, <1>8
  <2>2. Store!Commit(c)
    BY <1>1, <1>3, <1>8, <2>1 DEF Store!Commit, AcceptedRows
  <2> QED BY <1>1, <2>2 DEF Store!Next
<1> QED BY <1>7, <1>8

LEMMA StoreLeases ==
    ASSUME IInv, NEW w \in Workers, pc[w] = "claim", ingress' = LeasesOf(w),
           UNCHANGED <<sources, events, outbox, details>>
    PROVE  UNCHANGED Store!vars
<1>1. \A e \in Events : ingress'[e] = ingress[e] \/ e \in batch[w]
  BY DEF LeasesOf
<1>2. ASSUME NEW e \in Events, e \in batch[w]
      PROVE  ingress'[e].status = ingress[e].status
  <2>1. ingress[e] \in Row /\ now[w] \in Nat
    BY DEF IInv, TypeInv, TypeOK
  <2>2. Queue!Claimed(ingress[e], w, now[w]).status = ingress[e].status
    BY <2>1, ClaimedRow
  <2>3. ingress'[e] = Queue!Claimed(ingress[e], w, now[w])
    BY <1>2 DEF LeasesOf
  <2> QED BY <2>2, <2>3
<1>3. AcceptedRows' = AcceptedRows
  BY <1>1, <1>2 DEF AcceptedRows
<1> QED BY <1>3, StoreStutter

\* The tables change with an Accept or at the end of a worker's transaction.
TablesStay == UNCHANGED <<ingress, events, outbox>>

EndsCommit(w) == pc[w] = "commit" /\ Apply(w)

EndsClaim(w) ==
    /\ pc[w] = "claim" /\ ingress' = LeasesOf(w)
    /\ UNCHANGED <<sources, events, outbox, details>>

LEMMA WorkerWrites ==
    ASSUME NEW w \in Workers, Step(w) \/ Fault(w)
    PROVE  TablesStay \/ EndsCommit(w) \/ EndsClaim(w)
BY DEF TablesStay, EndsCommit, EndsClaim, Step, Fault, Claim, Process, Start,
   IdlePoll, ClaimSelect, ClaimUpdate, ClaimCommit, Load, CheckSource,
   InsertSource, SourceConflict, CheckEvent, InsertEvent, EventConflict,
   CloseAndEnqueue, WriteDetail, Commit, MarkRetry, Fail, CommitUnheard, Crash,
   vars, db

\* Every step of the committer is a step of the event store, or none.
LEMMA StoreNext == IInv /\ [Next]_vars => [Store!Next]_(Store!vars)
<1> SUFFICES ASSUME IInv, [Next]_vars
             PROVE  [Store!Next]_(Store!vars)
  OBVIOUS
<1>1. CASE TablesStay
  BY <1>1, StoreStutter DEF AcceptedRows, TablesStay
<1>2. \/ TablesStay
      \/ \E e \in Events : Accept(e)
      \/ \E w \in Workers : EndsCommit(w) \/ EndsClaim(w)
  BY WorkerWrites DEF Next, Api, RegisterSource, Tick, TablesStay, vars, db
<1> QED BY <1>1, <1>2, StoreAccept, StoreCommit, StoreLeases DEF EndsCommit, EndsClaim

\* The committer implements the event store: with any number of workers, stale
\* leases, failures and crashes, events become visible once and with their
\* webhook debt, and nothing accepted or visible disappears.
THEOREM Refinement == Spec => RefinesEventStore
<1>1. Spec => Store!Init /\ [][Store!Next]_(Store!vars)
  BY StoreInit, StoreNext, Invariance, PTL DEF Spec
<1> QED BY <1>1 DEF RefinesEventStore, Store!Spec

(***************************************************************************)
(* For the composition with the API and the webhook workers.               *)
(***************************************************************************)

\* A failure elsewhere only counts.
LEMMA FaultElsewhere ==
    ASSUME IInv, faults' \in Nat, UNCHANGED <<clock, db, pc, now, todo, batch, cur, seen, tx>>
    PROVE  IInv'
<1>1. TypeInv'
  BY DEF IInv, TypeInv, TypeOK, CurInv, db
<1>2. TxInv' /\ LockInv' /\ ClaimInv'
  BY DEF IInv, TxInv, TxShape, TxReady, LockInv, HoldsRow, ClaimInv, db
<1>3. LeaseInv' /\ CommitAtomic' /\ CommittedUnleased'
  BY DEF IInv, LeaseInv, CommitAtomic, CommittedUnleased, db
<1> QED BY <1>1, <1>2, <1>3 DEF IInv

\* A worker neither accepts a row nor takes one back.
LEMMA WorkerKeepsAccepted ==
    ASSUME IInv, NEW w \in Workers, Step(w) \/ Fault(w)
    PROVE  AcceptedRows' = AcceptedRows
<1>1. CASE TablesStay
  BY <1>1 DEF TablesStay, AcceptedRows
<1>2. CASE EndsClaim(w)
  BY <1>2, StoreLeases DEF EndsClaim, Store!vars, AcceptedRows
<1>3. CASE EndsCommit(w)
  <2>1. cur[w] \in Events /\ ingress[cur[w]].status # "absent" /\ pc[w] = "commit" /\ Apply(w)
    BY <1>3 DEF EndsCommit, IInv, TypeInv, CurInv, TxInv, TxReady, Processing
  <2>2. Grown
    BY <2>1, ApplyData
  <2>3. \A e \in Events \ {cur[w]} : ingress'[e] = ingress[e]
    BY <2>1 DEF Apply, IInv, TypeInv, TypeOK
  <2> QED BY <2>1, <2>2, <2>3 DEF AcceptedRows, Grown
<1> QED BY <1>1, <1>2, <1>3, WorkerWrites

-----------------------------------------------------------------------------
(* Committers do not deadlock, however many there are: claims lock rows in *)
(* the order of ORDER BY accepted_at, id, and a commit asks for its source *)
(* first, for its event next and for its ingress row last.                 *)

\* A claim holds rows that come before all it has yet to lock, and none of them is
\* inserted meanwhile.
OrderInv ==
    \A w \in Workers : pc[w] = "claim" =>
        /\ \A e \in batch[w] \union todo[w] : ingress[e].status # "absent"
        /\ \A d \in batch[w], e \in todo[w] : Queue!Before(ingress, d, e)

\* The columns a batch is ordered by are never written again.
PlacesStay ==
    \A e \in Events : ingress[e].status # "absent" =>
        ingress'[e].status # "absent" /\ ingress'[e].at = ingress[e].at

\* Every nonempty set of naturals has a least element.
LEMMA SmallestNat ==
    ASSUME NEW T \in SUBSET Nat, T # {}
    PROVE  \E m \in T : \A n \in T : m <= n
<1> DEFINE R == OpToRel(<, Nat)
<1>1. \A m, n \in Nat : <<n, m>> \in R <=> n < m
    BY DEF OpToRel
<1>2. IsWellFoundedOn(R, Nat)
    BY NatLessThanWellFounded
<1> HIDE DEF R
<1>3. PICK m \in T : \A n \in T : ~ (<<n, m>> \in R)
    BY <1>2, WFMin
<1>4. \A n \in T : ~(n < m)
    BY <1>1, <1>3
<1> QED
    BY <1>4

\* Claims, retries and commits keep a row's place.
LEMMA PlaceKept ==
    ASSUME NEW row \in Row, NEW w, NEW a, NEW n
    PROVE  /\ Queue!Claimed(row, w, n).status = row.status
           /\ Queue!Claimed(row, w, n).at = row.at
           /\ Queue!Retried(row, a, n).status = row.status
           /\ Queue!Retried(row, a, n).at = row.at
           /\ Queue!Closed(row, "committed").status = "committed"
           /\ Queue!Closed(row, "committed").at = row.at
BY DEF Row, Queue!Claimed, Queue!Retried, Queue!Closed

\* No step moves a row.
LEMMA StepKeepsPlaces == TypeInv /\ [Next]_vars => PlacesStay
<1> SUFFICES ASSUME TypeInv, [Next]_vars, NEW e \in Events, ingress[e].status # "absent"
             PROVE  ingress'[e].status # "absent" /\ ingress'[e].at = ingress[e].at
    BY DEF PlacesStay
<1>1. ingress[e] \in Row
    BY DEF TypeInv, TypeOK
<1>2. CASE UNCHANGED ingress
    BY <1>2
<1>3. ASSUME NEW d \in Events, Accept(d)
      PROVE  ingress'[e] = ingress[e]
    BY <1>3 DEF Accept, TypeInv, TypeOK
<1>4. ASSUME NEW w \in Workers, ingress' = LeasesOf(w)
      PROVE  ingress'[e] \in {ingress[e], Queue!Claimed(ingress[e], w, now[w])}
    BY <1>4 DEF LeasesOf
<1>5. ASSUME NEW w \in Workers, Apply(w)
      PROVE  ingress'[e] \in {ingress[e], Queue!Closed(ingress[e], "committed"),
                              Queue!Retried(ingress[e], seen[w], now[w])}
    BY <1>5 DEF Apply, TypeInv, TypeOK
<1>6. ASSUME NEW w \in Workers, ingress' = LeasesOf(w) \/ Apply(w)
      PROVE  ingress'[e].status # "absent" /\ ingress'[e].at = ingress[e].at
    BY <1>1, <1>4, <1>5, <1>6, PlaceKept
<1>7. ASSUME NEW w \in Workers, Step(w)
      PROVE  UNCHANGED ingress \/ ingress' = LeasesOf(w) \/ Apply(w)
  <2>1. CASE Claim(w) \/ Start(w) \/ IdlePoll(w)
      BY <2>1 DEF Claim, Start, IdlePoll, ClaimSelect, ClaimUpdate, ClaimCommit, vars, db
  <2>2. CASE Process(w)
      BY <2>2 DEF Process, Load, CheckSource, InsertSource, SourceConflict, CheckEvent,
                  InsertEvent, EventConflict, CloseAndEnqueue, WriteDetail, Commit, db
  <2> QED
      BY <1>7, <2>1, <2>2 DEF Step
<1>8. ASSUME NEW w \in Workers, Fault(w)
      PROVE  UNCHANGED ingress \/ ingress' = LeasesOf(w) \/ Apply(w)
    BY <1>8 DEF Fault, MarkRetry, Fail, CommitUnheard, Crash, db
<1>9. CASE Tick \/ UNCHANGED vars \/ \E s \in Sources : RegisterSource(s)
    BY <1>2, <1>9 DEF Tick, RegisterSource, vars, db
<1> QED
    BY <1>2, <1>3, <1>6, <1>7, <1>8, <1>9 DEF Next, Api

\* A claim that has not changed is as well ordered as it was.
LEMMA ClaimKept ==
    ASSUME TypeInv, OrderInv, PlacesStay, NEW w \in Workers, pc[w] = "claim",
           todo'[w] = todo[w], batch'[w] = batch[w]
    PROVE  /\ \A e \in batch'[w] \union todo'[w] : ingress'[e].status # "absent"
           /\ \A d \in batch'[w], e \in todo'[w] : Queue!Before(ingress', d, e)
BY DEF TypeInv, TypeOK, OrderInv, PlacesStay, Queue!Before

LEMMA OrderNext == TypeInv /\ OrderInv /\ [Next]_vars => OrderInv'
<1> SUFFICES ASSUME TypeInv, OrderInv, [Next]_vars, NEW v \in Workers, pc'[v] = "claim"
             PROVE  /\ \A e \in batch'[v] \union todo'[v] : ingress'[e].status # "absent"
                    /\ \A d \in batch'[v], e \in todo'[v] : Queue!Before(ingress', d, e)
    BY DEF OrderInv, Queue!Before
<1>1. PlacesStay
    BY StepKeepsPlaces
<1>2. CASE pc[v] = "claim" /\ todo'[v] = todo[v] /\ batch'[v] = batch[v]
    BY <1>1, <1>2, ClaimKept
<1>3. CASE UNCHANGED <<pc, todo, batch>>
    BY <1>2, <1>3
<1>4. ASSUME NEW w \in Workers, ClaimSelect(w)
      PROVE  /\ \A e \in batch'[v] \union todo'[v] : ingress'[e].status # "absent"
             /\ \A d \in batch'[v], e \in todo'[v] : Queue!Before(ingress', d, e)
  <2>1. CASE v = w
    <3>1. batch'[v] = {} /\ todo'[v] = Queue!Candidates(ingress, clock, BatchSize)
          /\ ingress' = ingress
        BY <1>4, <2>1 DEF ClaimSelect, TypeInv, TypeOK, db
    <3>2. \A e \in todo'[v] : ingress[e].status = "accepted"
        BY <3>1 DEF Queue!Candidates, Queue!Claimable
    <3> QED
        BY <3>1, <3>2
  <2>2. CASE v # w
      BY <1>2, <1>4, <2>2 DEF ClaimSelect, Goto, TypeInv, TypeOK
  <2> QED
      BY <2>1, <2>2
<1>5. ASSUME NEW w \in Workers, ClaimUpdate(w)
      PROVE  /\ \A e \in batch'[v] \union todo'[v] : ingress'[e].status # "absent"
             /\ \A d \in batch'[v], e \in todo'[v] : Queue!Before(ingress', d, e)
  <2>1. CASE v = w
    <3>1. PICK e \in todo[w] :
            /\ Queue!First(ingress, todo[w], e)
            /\ todo' = [todo EXCEPT ![w] = @ \ {e}]
            /\ batch' \in {batch, [batch EXCEPT ![w] = @ \union {e}]}
        BY <1>5 DEF ClaimUpdate, TypeInv, TypeOK
    <3>2. /\ todo'[w] = todo[w] \ {e} /\ batch'[w] \subseteq batch[w] \union {e}
          /\ ingress' = ingress /\ pc[w] = "claim"
        BY <1>5, <3>1 DEF ClaimUpdate, TypeInv, TypeOK, db
    <3> QED
        BY <2>1, <3>1, <3>2 DEF OrderInv, Queue!First
  <2>2. CASE v # w
      BY <1>2, <1>5, <2>2 DEF ClaimUpdate, TypeInv, TypeOK
  <2> QED
      BY <2>1, <2>2
<1>6. ASSUME NEW w \in Workers,
             \/ \E label \in Labels \ {"claim"} : pc' = [pc EXCEPT ![w] = label],
             \A u \in Workers \ {w} : todo'[u] = todo[u] /\ batch'[u] = batch[u]
      PROVE  /\ \A e \in batch'[v] \union todo'[v] : ingress'[e].status # "absent"
             /\ \A d \in batch'[v], e \in todo'[v] : Queue!Before(ingress', d, e)
    BY <1>2, <1>6 DEF TypeInv, TypeOK
<1>7. ASSUME NEW w \in Workers,
             Step(w) \/ Fault(w), ~ClaimSelect(w), ~ClaimUpdate(w)
      PROVE  \/ UNCHANGED <<pc, todo, batch>>
             \/ /\ \E label \in Labels \ {"claim"} : pc' = [pc EXCEPT ![w] = label]
                /\ \A u \in Workers \ {w} : todo'[u] = todo[u] /\ batch'[u] = batch[u]
  <2> USE DEF TypeInv, TypeOK, Labels
  <2>1. CASE Start(w) \/ IdlePoll(w) \/ ClaimCommit(w)
      BY <2>1 DEF Start, IdlePoll, ClaimCommit, Continue, Goto, vars
  <2>2. CASE Load(w) \/ Commit(w) \/ SourceConflict(w) \/ EventConflict(w)
      BY <2>2 DEF Load, Commit, SourceConflict, EventConflict, Continue, Reset, Goto
  <2>3. CASE CheckSource(w) \/ InsertSource(w) \/ CheckEvent(w) \/ InsertEvent(w)
             \/ CloseAndEnqueue(w) \/ WriteDetail(w)
      BY <2>3 DEF CheckSource, InsertSource, CheckEvent, InsertEvent, CloseAndEnqueue,
                  WriteDetail, Goto
  <2>4. CASE Fault(w)
      BY <2>4 DEF Fault, MarkRetry, Fail, CommitUnheard, Crash, Reset, Goto
  <2> QED
      BY <1>7, <2>1, <2>2, <2>3, <2>4 DEF Step, Claim, Process
<1>8. CASE Api \/ Tick \/ UNCHANGED vars
    BY <1>3, <1>8 DEF Api, Accept, RegisterSource, Tick, vars
<1> QED
    BY <1>3, <1>4, <1>5, <1>6, <1>7, <1>8 DEF Next

-----------------------------------------------------------------------------
(* Who can wait for whom.                                                  *)

\* A transaction that has written its ingress row waits for nothing.
LEMMA WrittenRow ==
    ASSUME IInv, NEW v \in Workers, "ingress" \in tx[v] \/ "retry" \in tx[v]
    PROVE  pc[v] \in {"detail", "commit"}
BY DEF IInv, TypeInv, CurInv, TxInv, TxShape, Processing, TypeOK, Labels

\* A row's holder that waits is a claim.
LEMMA RowHolder ==
    ASSUME IInv, NEW v \in Workers, NEW e \in Events, HoldsRow(v, e),
           pc[v] \notin {"detail", "commit"}
    PROVE  pc[v] = "claim" /\ e \in batch[v]
BY WrittenRow DEF HoldsRow

\* An event's writer that waits, waits for its row.
LEMMA EventHolder ==
    ASSUME IInv, NEW v \in Workers, "event" \in tx[v]
    PROVE  pc[v] \in {"update", "detail", "commit"}
BY DEF IInv, TypeInv, CurInv, TxInv, TxShape, Processing, TypeOK, Labels

\* A source's writer that waits, waits for its event or its row.
LEMMA SourceHolder ==
    ASSUME IInv, NEW v \in Workers, "source" \in tx[v]
    PROVE  pc[v] \in {"event", "insertEvent", "update", "detail", "commit"}
BY DEF IInv, TypeInv, CurInv, TxInv, TxShape, Processing, TypeOK, Labels

\* The order of claims is one.
LEMMA BeforeOrder ==
    ASSUME TypeInv, NEW c \in Events, NEW d \in Events, NEW e \in Events
    PROVE  /\ ~Queue!Before(ingress, d, d)
           /\ Queue!Before(ingress, c, d) /\ Queue!Before(ingress, d, e)
                => Queue!Before(ingress, c, e)
<1>1. ingress[c].at \in Nat /\ ingress[d].at \in Nat /\ ingress[e].at \in Nat
    BY DEF TypeInv, TypeOK, Row
<1> QED
    BY <1>1, EventsAssumption DEF Queue!Before

\* Rows that come after e.
After(e) == {d \in Events : Queue!Before(ingress, e, d)}

\* Of finitely many rows, fewer come after a later one.
LEMMA FewerAfter ==
    ASSUME TypeInv, IsFiniteSet(Events), NEW d \in Events, NEW e \in Events,
           Queue!Before(ingress, d, e)
    PROVE  /\ Cardinality(After(d)) \in Nat /\ Cardinality(After(e)) \in Nat
           /\ Cardinality(After(e)) < Cardinality(After(d))
<1>1. IsFiniteSet(After(d)) /\ IsFiniteSet(After(e))
  <2>1. After(d) \in SUBSET Events /\ After(e) \in SUBSET Events
      BY DEF After
  <2> QED
      BY <2>1, FS_Subset
<1>2. After(e) \subseteq After(d)
    BY BeforeOrder DEF After
<1>3. e \in After(d) /\ e \notin After(e)
    BY BeforeOrder DEF After
<1>4. Cardinality(After(d)) \in Nat /\ Cardinality(After(e)) \in Nat
    BY <1>1, FS_CardinalityType
<1>5. /\ Cardinality(After(e)) <= Cardinality(After(d))
      /\ Cardinality(After(d)) = Cardinality(After(e)) => After(d) = After(e)
    BY <1>1, <1>2, FS_Subset
<1> QED
    BY <1>3, <1>4, <1>5

\* With the locks in that order, among any set of workers one can go on.
LEMMA SomeoneGoesOn ==
    ASSUME IInv, OrderInv, IsFiniteSet(Events)
    PROVE  NoLockCycle
<1> SUFFICES ASSUME NEW S \in SUBSET Workers, S # {},
                    \A w \in S : \E v \in S \ {w} : Waits(w, v)
             PROVE  FALSE
    BY DEF NoLockCycle
<1> USE DEF IInv
<1>1. \A w \in S : pc[w] \in {"claim", "insertSource", "insertEvent", "update"}
    BY DEF Waits
<1>2. ASSUME NEW w \in S, pc[w] = "update"
      PROVE  \E v \in S : pc[v] = "claim"
  <2>1. PICK v \in S : HoldsRow(v, cur[w])
      BY <1>2 DEF Waits
  <2>2. cur[w] \in Events
      BY <1>2 DEF TypeInv, CurInv, Processing
  <2> QED
      BY <1>1, <2>1, <2>2, RowHolder
<1>3. ASSUME NEW w \in S, pc[w] = "insertEvent"
      PROVE  \E v \in S : pc[v] = "claim"
  <2>1. PICK v \in S : "event" \in tx[v]
      BY <1>3 DEF Waits
  <2>2. pc[v] = "update"
      BY <1>1, <2>1, EventHolder
  <2> QED
      BY <1>2, <2>2
<1>4. ASSUME NEW w \in S, pc[w] = "insertSource"
      PROVE  \E v \in S : pc[v] = "claim"
  <2>1. PICK v \in S : "source" \in tx[v]
      BY <1>4 DEF Waits
  <2>2. pc[v] \in {"insertEvent", "update"}
      BY <1>1, <2>1, SourceHolder
  <2> QED
      BY <1>2, <1>3, <2>2
<1>5. PICK first \in S : pc[first] = "claim"
    BY <1>1, <1>2, <1>3, <1>4
<1>6. ASSUME NEW w \in S, pc[w] = "claim"
      PROVE  \E e \in todo[w], v \in S : pc[v] = "claim" /\ e \in batch[v]
  <2>1. PICK e \in todo[w], v \in S : HoldsRow(v, e)
      BY <1>6 DEF Waits
  <2>2. e \in Events
      BY DEF TypeInv, TypeOK
  <2> QED
      BY <1>1, <2>1, <2>2, RowHolder
<1> DEFINE Awaited == {e \in Events : \E v \in S : pc[v] = "claim" /\ e \in batch[v]}
           T == {Cardinality(After(e)) : e \in Awaited}
<1>7. Awaited # {}
    BY <1>5, <1>6 DEF TypeInv, TypeOK
<1>8. \A d \in Awaited : \E e \in Awaited : Queue!Before(ingress, d, e)
  <2> SUFFICES ASSUME NEW d \in Awaited
               PROVE  \E e \in Awaited : Queue!Before(ingress, d, e)
      OBVIOUS
  <2>1. PICK v \in S : pc[v] = "claim" /\ d \in batch[v]
      OBVIOUS
  <2>2. PICK e \in todo[v], u \in S : pc[u] = "claim" /\ e \in batch[u]
      BY <1>6, <2>1
  <2>3. Queue!Before(ingress, d, e)
      BY <2>1, <2>2 DEF OrderInv
  <2> QED
      BY <2>2, <2>3 DEF TypeInv, TypeOK
<1> HIDE DEF Awaited
<1>9. T \subseteq Nat /\ T # {}
  <2>1. Awaited \subseteq Events
      BY DEF Awaited
  <2> QED
      BY <1>7, <1>8, <2>1, FewerAfter
<1>10. PICK m \in T : \A n \in T : m <= n
    BY <1>9, SmallestNat
<1>11. PICK d \in Awaited : m = Cardinality(After(d))
    BY <1>10
<1>12. PICK e \in Awaited : Queue!Before(ingress, d, e)
    BY <1>8
<1>13. Cardinality(After(e)) < Cardinality(After(d)) /\ Cardinality(After(e)) \in Nat
       /\ Cardinality(After(d)) \in Nat
    BY <1>11, <1>12, FewerAfter DEF Awaited
<1> QED
    BY <1>10, <1>11, <1>12, <1>13

\* No set of committers waits for each other (claim_ingress_batch against itself and
\* against commit_ingress), however many there are.
THEOREM NoDeadlock ==
    ASSUME IsFiniteSet(Events)
    PROVE  Spec => []NoLockCycle
<1>1. Init => OrderInv
    BY DEF Init, OrderInv
<1>2. TypeInv /\ OrderInv /\ [Next]_vars => OrderInv'
    BY OrderNext
<1>3. IInv => TypeInv
    BY DEF IInv
<1>4. IInv /\ OrderInv => NoLockCycle
    BY SomeoneGoesOn
<1> QED
    BY <1>1, <1>2, <1>3, <1>4, Invariance, PTL DEF Spec
=============================================================================
