------------------------------ MODULE AcceptApi ------------------------------
(***************************************************************************)
(* POST /events: concurrent requests write accepted rows into the ingest   *)
(* log, at most one per source and idempotency key (api.py append_event,   *)
(* store.py accept_event, database.py get_session).                        *)
(*                                                                         *)
(* The key is looked up, and looked up again if the INSERT runs into the   *)
(* unique constraint; an INSERT waits for a concurrent one of the same key *)
(* to end.  The COMMIT is the exit code of the get_session dependency,     *)
(* which FastAPI (0.135.1 in uv.lock) runs after it has sent the response. *)
(***************************************************************************)
EXTENDS Integers, FiniteSets

CONSTANTS
    Requests,   \* POST /events requests; the row of request r has id r (a new UUID)
    Keys,       \* pairs of a source and a non-empty idempotency key
    KeyOf,      \* what each request carries: a key, EmptyKey or NoKey
    EmptyKey,   \* a source and the key ""
    NoKey,      \* no idempotency_key (NULL, which is unique)
    NoId,
    MaxFaults   \* bound: failures and crashes in one behaviour

ASSUME KeysAssumption ==
    /\ KeyOf \in [Requests -> Keys \union {EmptyKey, NoKey}]
    /\ EmptyKey \notin Keys /\ NoKey \notin Keys /\ EmptyKey # NoKey
    /\ NoId \notin Requests
    /\ MaxFaults \in Nat

VARIABLES
    rows,       \* ingress_events, the ids
    pc,         \* where each request is
    found,      \* the existing row accept_event returns
    answer,     \* what the client was told: a status and an event id
    faults

vars == <<rows, pc, found, answer, faults>>

Answers == [status : {"none", "conflict", "failed"}, id : {NoId}]
    \union [status : {"202", "200"}, id : Requests]

NoAnswer == [status |-> "none", id |-> NoId]

TypeOK ==
    /\ rows \subseteq Requests
    /\ pc \in [Requests -> {"lookup", "insert", "recheck", "found", "inserted",
                            "answered", "done"}]
    /\ found \in [Requests -> Requests \union {NoId}]
    /\ answer \in [Requests -> Answers]
    /\ faults \in 0 .. MaxFaults

Init ==
    /\ rows = {}
    /\ pc = [r \in Requests |-> "lookup"]
    /\ found = [r \in Requests |-> NoId]
    /\ answer = [r \in Requests |-> NoAnswer]
    /\ faults = 0

Goto(r, label) == pc' = [pc EXCEPT ![r] = label]

\* `if event.idempotency_key': the empty string is a key to the database only.
Keyed(r) == KeyOf[r] \in Keys

\* uq_ingress_source_idempotency
Duplicates(q, r) == q # r /\ KeyOf[q] = KeyOf[r] /\ KeyOf[r] # NoKey

\* Mutant: the query sees what others have not committed.
UncommittedDuplicates(r) ==
    {q \in Requests : Duplicates(q, r) /\ (q \in rows \/ pc[q] = "inserted")}

\* get_ingress_by_idempotency: the committed row with r's key, if any.
Existing(r) == {q \in rows : Duplicates(q, r)}

\* INSERTs of the same key that are still to be committed.
Pending(r) == {q \in Requests : Duplicates(q, r) /\ pc[q] \in {"inserted", "answered"}}

Lookup(r) ==
    /\ pc[r] = "lookup"
    /\ \/ /\ ~Keyed(r) \/ Existing(r) = {}
          /\ Goto(r, "insert")
          /\ UNCHANGED found
       \/ /\ Keyed(r)
          /\ \E q \in Existing(r) : found' = [found EXCEPT ![r] = q]
          /\ Goto(r, "found")
    /\ UNCHANGED <<rows, answer, faults>>

\* Mutant: the table has no unique constraint, the lookup alone decides.
InsertUnchecked(r) ==
    /\ pc[r] = "insert"
    /\ Goto(r, "inserted")
    /\ UNCHANGED <<rows, found, answer, faults>>

Insert(r) ==
    /\ pc[r] = "insert"
    /\ Pending(r) = {} /\ Existing(r) = {}
    /\ Goto(r, "inserted")
    /\ UNCHANGED <<rows, found, answer, faults>>

\* Mutant: an IntegrityError is raised to the client at once.
ConflictRaised(r) ==
    /\ pc[r] = "insert"
    /\ Pending(r) = {} /\ Existing(r) # {}
    /\ Goto(r, "done")
    /\ answer' = [answer EXCEPT ![r].status = "conflict"]
    /\ UNCHANGED <<rows, found, faults>>

\* Mutant: after the rollback the INSERT is tried again.
ConflictRetried(r) ==
    /\ pc[r] = "insert"
    /\ Pending(r) = {} /\ Existing(r) # {}
    /\ UNCHANGED vars

\* IntegrityError: the session is rolled back; without a key that counts as one
\* the error is raised again and becomes a 500.
Conflict(r) ==
    /\ pc[r] = "insert"
    /\ Pending(r) = {} /\ Existing(r) # {}
    /\ \/ /\ Keyed(r)
          /\ Goto(r, "recheck")
          /\ UNCHANGED answer
       \/ /\ ~Keyed(r)
          /\ Goto(r, "done")
          /\ answer' = [answer EXCEPT ![r].status = "conflict"]
    /\ UNCHANGED <<rows, found, faults>>

\* The second lookup, and the raise after it.
Recheck(r) ==
    /\ pc[r] = "recheck"
    /\ IF Existing(r) # {}
       THEN /\ \E q \in Existing(r) : found' = [found EXCEPT ![r] = q]
            /\ Goto(r, "found")
            /\ UNCHANGED answer
       ELSE /\ Goto(r, "done")
            /\ answer' = [answer EXCEPT ![r].status = "conflict"]
            /\ UNCHANGED found
    /\ UNCHANGED <<rows, faults>>

\* 200 and the existing event; the COMMIT that follows has nothing to write.
AnswerExisting(r) ==
    /\ pc[r] = "found"
    /\ answer' = [answer EXCEPT ![r] = [status |-> "200", id |-> found[r]]]
    /\ Goto(r, "done")
    /\ UNCHANGED <<rows, found, faults>>

\* 202 and the new event, sent before ...
AnswerCreated(r) ==
    /\ pc[r] = "inserted"
    /\ answer' = [answer EXCEPT ![r] = [status |-> "202", id |-> r]]
    /\ Goto(r, "answered")
    /\ UNCHANGED <<rows, found, faults>>

\* ... the COMMIT.
Commit(r) ==
    /\ pc[r] = "answered"
    /\ rows' = rows \union {r}
    /\ Goto(r, "done")
    /\ UNCHANGED <<found, answer, faults>>

InFlight == {r \in Requests : pc[r] # "done"}

\* Mutant: the rollback takes the answer back.
TornUnseen(r) == [answer[r] EXCEPT !.status = "failed"]

\* What a request that is torn down has told its client.
Torn(r) == IF pc[r] = "answered" THEN answer[r] ELSE [answer[r] EXCEPT !.status = "failed"]

\* One request: a statement or the COMMIT fails, and get_session rolls back and
\* raises.  Several: a process dies with the requests it was serving.
Fail(S) ==
    /\ faults < MaxFaults
    /\ faults' = faults + 1
    /\ pc' = [r \in Requests |-> IF r \in S THEN "done" ELSE pc[r]]
    /\ answer' = [r \in Requests |-> IF r \in S THEN Torn(r) ELSE answer[r]]
    /\ UNCHANGED <<rows, found>>

Step(r) ==
    \/ Lookup(r) \/ Insert(r) \/ Conflict(r) \/ Recheck(r)
    \/ AnswerExisting(r) \/ AnswerCreated(r) \/ Commit(r)

Finished == (\A r \in Requests : pc[r] = "done") /\ UNCHANGED vars

Next ==
    \/ \E r \in Requests : Step(r)
    \/ \E S \in (SUBSET InFlight) \ {{}} : Fail(S)
    \/ Finished

\* The server runs every handler on, and the database every statement that is
\* not waiting for another transaction.
Spec == Init /\ [][Next]_vars /\ \A r \in Requests : WF_vars(Step(r))

-----------------------------------------------------------------------------
(* What makes it correct.                                                  *)

\* Retries of one logical event are told one id: if two answers to the same key
\* name different events, one of the two was lost before its COMMIT.
IdempotentAnswers ==
    \A q, r \in Requests :
        Duplicates(q, r) /\ {answer[q].id, answer[r].id} \subseteq rows
        => answer[q].id = answer[r].id

\* A duplicate is only ever pointed to an event that is durable, whatever
\* happens to the request that is writing the same key just then.
DuplicateDurable ==
    \A r \in Requests : answer[r].status = "200" => answer[r].id \in rows

\* Losing the race for a key is no error: only the loser of an empty key, which
\* the code does not look up again, is answered with one.
RaceResolved ==
    \A r \in Requests : answer[r].status = "conflict" => KeyOf[r] = EmptyKey

\* Every request comes to an end, those that waited for another's INSERT too.
EveryRequestEnds == \A r \in Requests : <>(pc[r] = "done")

\* README: the ingest log holds "durable accepted writes", and "Producers only
\* need accepted from POST /events".  The code answers before it commits.
AcceptedDurable ==
    \A r \in Requests :
        pc[r] = "done" /\ answer[r].status = "202" => answer[r].id \in rows

\* store.py, on the IntegrityError: "Idempotency race; return existing event."
\* The code raises it if the key is the empty string.
ConflictReturnsExisting == \A r \in Requests : answer[r].status # "conflict"
=============================================================================
