---------------------------- MODULE CommitterLive ----------------------------
(***************************************************************************)
(* When the committer's progress can be relied on.  Committer lets time    *)
(* pass at any moment, so that every race with a lease's end is explored;  *)
(* a worker slower than its leases for ever would then never get anywhere. *)
(* Here such stalls last until StallUntil.  From then on work takes no     *)
(* time, and the clock moves only when the rows still to be committed are  *)
(* leased or backing off, so that everyone has to wait.                    *)
(***************************************************************************)
EXTENDS Committer

CONSTANT StallUntil     \* bound: stalls of arbitrary length happen before

ASSUME StallAssumption == StallUntil \in Nat

\* Every worker is asleep (or gone), and a row is waiting for its time.
Waiting ==
    /\ \A w \in Workers : pc[w] \in {"idle", "dead"}
    /\ Queue!Candidates(ingress, clock, BatchSize) = {}
    /\ \E e \in Events : ingress[e].status = "accepted"

PacedTick == (clock < StallUntil \/ Waiting) /\ Tick

LiveNext == Api \/ PacedTick \/ \E w \in Workers : Step(w) \/ Fault(w)

\* asyncio resumes a coroutine whose await is over, the poll interval ends, the
\* deployment starts its processes, and time goes on.  Nothing is assumed of the
\* API's clients or of failures.
Fairness ==
    /\ WF_vars(PacedTick)
    /\ \A w \in Workers : WF_vars(Start(w)) /\ WF_vars(Claim(w) \/ Process(w))

LiveSpec == Init /\ [][LiveNext]_vars /\ Fairness

\* Every accepted event becomes visible, whatever crashes, lost answers, failed
\* statements and races with lease ends came before, as long as they are fewer
\* than the workers.
EveryAcceptedVisible ==
    \A e \in Events : ingress[e].status = "accepted" ~> e \in events
=============================================================================
