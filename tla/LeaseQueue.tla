----------------------------- MODULE LeaseQueue -----------------------------
(***************************************************************************)
(* The lease discipline that store.py applies to the two tables its        *)
(* workers drain, ingress_events and outbox_events.  Both tables carry the *)
(* same columns, and every statement below exists once per table:          *)
(*                                                                         *)
(*   claim_*_batch        SELECT of the candidates, then one UPDATE each   *)
(*   get_*_for_worker     the row, if the worker's lease still stands      *)
(*   mark_*_retry         back off and give the lease up                   *)
(*   commit_ingress / mark_outbox_done    close the row                    *)
(*                                                                         *)
(* A table is a function from row ids to rows.  `at' is the column a batch *)
(* is ordered by (accepted_at, resp. created_at); ids are time-ordered     *)
(* UUIDs, hence naturals.                                                  *)
(***************************************************************************)
EXTENDS Integers, FiniteSets

CONSTANTS
    Null,           \* SQL NULL
    Open,           \* the status of a row that still has to be worked on
    LeaseSeconds,   \* PipelineConfig.lease_seconds
    RetryBase,      \* PipelineConfig.retry_base_seconds
    RetryMax,       \* PipelineConfig.retry_max_seconds
    MaxExponent     \* the largest n for which 2.0 ** n is a float: 1023

\* Mutant: the INSERT leaves attempts to a default the table does not have.
FreshUncounted(at) ==
    [status |-> Open, at |-> at, attempts |-> Null, next_attempt_at |-> at,
     lease_owner |-> Null, lease_until |-> Null]

\* A row as it is inserted: due at once, never tried, not leased.
Fresh(at) ==
    [status |-> Open, at |-> at, attempts |-> 0, next_attempt_at |-> at,
     lease_owner |-> Null, lease_until |-> Null]

\* Mutant: an expired lease still counts.
UnleasedForever(row, t) == row.lease_until = Null

\* lease_until IS NULL OR lease_until < now
Unleased(row, t) == row.lease_until = Null \/ row.lease_until < t

\* The WHERE of the candidates' SELECT.
Claimable(row, t) ==
    /\ row.status = Open
    /\ row.next_attempt_at <= t
    /\ Unleased(row, t)

\* Mutants: the UPDATE repeats only half of the SELECT's condition.
LeaseStillFree(row, t) == Unleased(row, t)
StatusStillOpen(row, t) == row.status = Open

\* The WHERE of the UPDATE that takes one candidate.  It repeats the status
\* and the lease, and not the time of the next attempt.
StillClaimable(row, t) == row.status = Open /\ Unleased(row, t)

\* ORDER BY at, id
Before(table, d, e) ==
    \/ table[d].at < table[e].at
    \/ table[d].at = table[e].at /\ d < e

\* Mutant: the SELECT loses its ORDER BY.
AnyOrder(table, S, e) == TRUE

First(table, S, e) == \A d \in S \ {e} : Before(table, e, d)

\* SELECT id ... ORDER BY at, id LIMIT limit
Candidates(table, t, limit) ==
    LET due == {e \in DOMAIN table : Claimable(table[e], t)}
    IN  {e \in due : Cardinality({d \in due : Before(table, d, e)}) < limit}

Claimed(row, w, t) ==
    [row EXCEPT !.lease_owner = w, !.lease_until = t + LeaseSeconds]

\* The WHERE of get_*_for_worker.
HeldBy(row, w, t) ==
    /\ row.status = Open
    /\ row.lease_owner = w
    /\ row.lease_until # Null
    /\ row.lease_until >= t

\* A row with so many attempts can be backed off once more.  With 2 ** 1024 and more
\* the product of _retry_delay_seconds raises OverflowError, before min() is asked.
Retriable(attempts) == attempts <= MaxExponent

\* min(max_delay, base * 2 ** (attempts - 1)), where the product is a float.
RetryDelay(attempts) ==
    LET delay == RetryBase * 2^(attempts - 1)
    IN  IF delay \in 0 .. RetryMax THEN delay ELSE RetryMax

\* Mutant: the UPDATE writes the status of the row as it was loaded.
RetriedWhole(row, attempts, t) ==
    [status |-> Open, at |-> row.at, attempts |-> attempts + 1,
     next_attempt_at |-> t + RetryDelay(attempts + 1),
     lease_owner |-> Null, lease_until |-> Null]

\* Mutant: the end of the lease is left standing.
RetriedHalf(row, attempts, t) ==
    [row EXCEPT !.attempts = attempts + 1,
                !.next_attempt_at = t + RetryDelay(attempts + 1),
                !.lease_owner = Null]

\* The UPDATE of mark_*_retry: `attempts' is the value the worker read when it
\* loaded the row, and the status column is not written.
Retried(row, attempts, t) ==
    [row EXCEPT !.attempts = attempts + 1,
                !.next_attempt_at = t + RetryDelay(attempts + 1),
                !.lease_owner = Null,
                !.lease_until = Null]

Closed(row, status) ==
    [row EXCEPT !.status = status, !.lease_owner = Null, !.lease_until = Null]
=============================================================================
