-------------------------------- MODULE Stats --------------------------------
(***************************************************************************)
(* GET /events/stats, GET /health, and the statistics of the domains, over *)
(* a store that goes on accepting, committing and settling events          *)
(* (store.py get_stats, app.py health, the stats endpoints of domains).     *)
(*                                                                         *)
(* Every statement of a request has a snapshot of its own (READ            *)
(* COMMITTED), so one answer is put together from several moments.  The    *)
(* store is the abstract EventStore, which the pipeline implements; the    *)
(* detail row of an event is written in the same transaction, or not at    *)
(* all if its savepoint fails.  Answers are computed from the set of rows  *)
(* each statement counted.                                                 *)
(***************************************************************************)
EXTENDS Domains, FiniteSets, FiniteSetsExt

CONSTANTS
    Events,
    AcceptedAt,     \* accepted_at, which becomes events.ts
    SourceOf,
    Loads,          \* what a behaviour is about: events that are sent, and a request
    Models,         \* names of models, in pieces
    Filters,        \* query parameters: role, team or model, and since
    MaxAge,         \* health_max_oldest_uncommitted_age_seconds
    MaxTime         \* bound: the clock stops here

VARIABLES
    load,       \* the events producers send, and the statistics clients ask for
    clock,
    accepted, visible, delivery,    \* see EventStore
    details,    \* events with a row in their domain's detail table
    kind,       \* which statistics the request asks for; Null between requests
    params,     \* its filters
    step,       \* statements done
    saw,        \* the events whose rows each statement has counted
    now,        \* get_stats: its `now', or Null
    began       \* auxiliary: the events it must not miss, as of its beginning

store == <<accepted, visible, delivery, details>>
request == <<kind, params, step, saw, now, began>>
vars == <<load, clock, store, request>>

Store == INSTANCE EventStore

\* Mutant: the other way round.
StatementsReversed == [
    stats |-> <<"oldest_ingress", "outbox_by_pipeline", "outbox_pending", "ingress_pending",
                "now", "by_type", "by_source", "total_events">>,
    job |-> <<"terminal", "seen", "events_by_state">>,
    task |-> <<"terminal", "seen", "events_by_state">>,
    llm |-> <<"by_model">>,
    tool |-> <<"by_tool">>]

\* The statements of each request, in the order of the code.
Statements == [
    stats |-> <<"total_events", "by_source", "by_type", "now", "ingress_pending",
                "outbox_pending", "outbox_by_pipeline", "oldest_ingress">>,
    job |-> <<"events_by_state", "seen", "terminal">>,
    task |-> <<"events_by_state", "seen", "terminal">>,
    llm |-> <<"by_model">>,
    tool |-> <<"by_tool">>]

ASSUME StatsAssumption ==
    /\ AcceptedAt \in [Events -> 0 .. MaxTime]
    /\ Loads \subseteq [sent : SUBSET Events, asked : DOMAIN Statements]
    /\ MaxAge \in Nat /\ MaxTime \in Nat
ASSUME ModelsAssumption == Models \subseteq Seq(STRING)

\* The statements whose counts are kept; what the outbox holds plays no part here.
Counted == {"total_events", "by_source", "by_type", "ingress_pending", "oldest_ingress",
            "events_by_state", "seen", "terminal", "by_model", "by_tool"}

Init ==
    /\ load \in Loads
    /\ clock = 0
    /\ Store!Init /\ details = {}
    /\ kind = Null /\ params = Null /\ step = 0
    /\ saw = [q \in Counted |-> {}]
    /\ now = Null
    /\ began = {}

-----------------------------------------------------------------------------
(* The store.                                                              *)

Tick ==
    /\ clock < MaxTime
    /\ clock' = clock + 1
    /\ UNCHANGED <<load, store, request>>

\* The row carries the time of the request, its COMMIT comes later.
Accept(e) ==
    /\ e \in load.sent /\ AcceptedAt[e] <= clock
    /\ Store!Accept(e)
    /\ UNCHANGED <<load, clock, details, request>>

\* Mutant: the detail row has a transaction of its own.
CommitDetailApart(e) ==
    /\ UNCHANGED <<load, clock, request>>
    /\ \/ Store!Commit(e) /\ UNCHANGED details
       \/ /\ e \in accepted \ details /\ Domain(e) # Null
          /\ details' = details \union {e}
          /\ UNCHANGED <<accepted, visible, delivery>>

Commit(e) ==
    /\ Store!Commit(e)
    /\ \/ Domain(e) # Null /\ details' = details \union {e}
       \/ UNCHANGED details
    /\ UNCHANGED <<load, clock, request>>

-----------------------------------------------------------------------------
(* One request.                                                            *)

\* Without query parameters nothing is filtered.
Unfiltered == [filter |-> Null, since |-> Null]

\* The detail rows of the domain that match the request's filters.
MatchingOf(k, p) ==
    {e \in details :
        /\ Domain(e) = k
        /\ p.since # Null => AcceptedAt[e] >= p.since
        /\ p.filter # Null => Detail(e).filter = p.filter}

Matching == MatchingOf(kind, params)

\* What is uncommitted and has been accepted more than MaxAge ago.
Overdue == {e \in accepted \ visible : clock - AcceptedAt[e] > MaxAge}

Begin ==
    /\ kind = Null
    /\ kind' = load.asked
    /\ params' \in IF load.asked = "stats" THEN {Unfiltered} ELSE Filters \union {Unfiltered}
    /\ began' = IF load.asked = "stats" THEN Overdue ELSE MatchingOf(load.asked, params')
    /\ UNCHANGED <<load, clock, store, step, saw, now>>

\* Mutant: the filters are forgotten.
TerminalRowsUnfiltered ==
    {e \in details : Domain(e) = kind /\ State(e) \in TerminalStates[kind]}

TerminalRows == {e \in Matching : State(e) \in TerminalStates[kind]}

\* What each statement counts.
Rows(q) ==
    CASE q \in {"total_events", "by_source", "by_type"} -> visible
      [] q \in {"ingress_pending", "oldest_ingress"} -> accepted \ visible
      [] q \in {"events_by_state", "seen"} -> Matching
      [] q = "terminal" -> TerminalRows
      [] q \in {"by_model", "by_tool"} -> {e \in Matching : State(e) = CountedState[kind]}

Statement ==
    /\ kind # Null /\ step < Len(Statements[kind])
    /\ LET q == Statements[kind][step + 1]
       IN  /\ now' = IF q = "now" THEN clock ELSE now
           /\ saw' = IF q \in Counted THEN [saw EXCEPT ![q] = Rows(q)] ELSE saw
    /\ step' = step + 1
    /\ UNCHANGED <<load, clock, store, kind, params, began>>

Answered == kind # Null /\ step = Len(Statements[kind])

\* The answer is sent; what the request held is gone.
End ==
    /\ Answered
    /\ kind' = Null /\ params' = Null /\ step' = 0
    /\ saw' = [q \in Counted |-> {}]
    /\ now' = Null
    /\ began' = {}
    /\ UNCHANGED <<load, clock, store>>

Next ==
    \/ Tick
    \/ \E e \in Events : Accept(e) \/ Commit(e)
    \/ Begin \/ Statement \/ End

Spec == Init /\ [][Next]_vars

-----------------------------------------------------------------------------
(* The answers.                                                            *)

Count(q) == Cardinality(saw[q])

By(q, column) ==
    [c \in {column[e] : e \in saw[q]} |-> Cardinality({e \in saw[q] : column[e] = c})]

total_events == Count("total_events")
by_source == By("by_source", SourceOf)
by_type == By("by_type", TypeOf)
ingress_pending == Count("ingress_pending")

\* Mutant: the newest.
newest_age ==
    IF saw["oldest_ingress"] = {} THEN 0
    ELSE Max({0, now - Max({AcceptedAt[e] : e \in saw["oldest_ingress"]})})

oldest_age ==
    IF saw["oldest_ingress"] = {} THEN 0
    ELSE Max({0, now - Min({AcceptedAt[e] : e \in saw["oldest_ingress"]})})

health == IF oldest_age <= MaxAge THEN "ok" ELSE "degraded"

\* job_stats and task_stats: the jobs or tasks of the rows a statement has counted.
Keys(q) == {Detail(e).key : e \in saw[q]}

active == Keys("seen") \ Keys("terminal")

\* llm_stats and tool_stats group by a column that may be NULL, and put the groups
\* into a dict in which NULL and "" go by "unknown": of two groups of one name, one stays.
Name(key) == IF key \in {Null, ""} THEN "unknown" ELSE key

by_name(q) ==
    [n \in {Name(key) : key \in Keys(q)} |->
        LET key == CHOOSE k \in Keys(q) : Name(k) = n
        IN  Cardinality({e \in saw[q] : Detail(e).key = key})]

Total(counts) == MapThenSumSet(LAMBDA c : counts[c], DOMAIN counts)

-----------------------------------------------------------------------------
TypeOK ==
    /\ load \in Loads /\ clock \in 0 .. MaxTime
    /\ Store!TypeOK
    /\ details \subseteq visible
    /\ kind \in DOMAIN Statements \union {Null}
    /\ params \in Filters \union {Unfiltered, Null}
    /\ step \in Nat /\ (kind # Null => step <= Len(Statements[kind]))
    /\ saw \in [Counted -> SUBSET Events]
    /\ now \in 0 .. MaxTime \union {Null}
    /\ began \subseteq Events

-----------------------------------------------------------------------------
(* What makes it correct.                                                  *)

Answers(k) == Answered /\ kind = k

\* The counts of one answer are from several moments, but in an order that makes the
\* breakdowns at least as recent as the total: neither sums up to less than it.
BreakdownsKeepUp ==
    Answers("stats") =>
        total_events <= Total(by_source) /\ Total(by_source) <= Total(by_type)

\* An event that is committed while the statements run may be in neither count, but
\* is never both in total_events and in ingress_pending.
CountedOnce ==
    Answers("stats") => total_events + ingress_pending <= Cardinality(accepted)

\* /health: an event that was overdue when the request came and is not committed yet
\* is reported, and a report is never without an accepted event that is overdue.
HealthTimely ==
    Answers("stats") =>
        /\ ~(began \subseteq visible) => health = "degraded"
        /\ health = "degraded" => \E e \in accepted : clock - AcceptedAt[e] > MaxAge

\* job_stats and task_stats, when the last statement runs: what is counted as active
\* has a row, and has none in a terminal state, whatever was committed since the first.
ActiveIsActive ==
    [][ Statement /\ Answered' /\ kind \in {"job", "task"} =>
        \A key \in active' :
            LET rows == {e \in Matching : Detail(e).key = key}
            IN  rows # {} /\ \A e \in rows : State(e) \notin TerminalStates[kind] ]_vars

\* Every job that matched when the request came is counted, as active or terminal, and
\* nothing that does not match: the filters are those of all the statements.
EveryJobCounted ==
    Answers("job") \/ Answers("task") =>
        LET counted == active \union Keys("terminal")
        IN  /\ {Detail(e).key : e \in began} \subseteq counted
            /\ counted \subseteq {Detail(e).key : e \in Matching}

\* Missing and empty names are stored alike, hence one group: the counts by model and
\* by tool add up, unless a client itself names a model or tool "unknown".
NamesAddUp ==
    \A q \in {"by_model", "by_tool"} :
        Answered /\ "unknown" \notin Keys(q) => Total(by_name(q)) = Count(q)

\* The costs that llm_stats sums up are at the price of the most specific row of the
\* table that matches the model, though the code takes the first.
MostSpecificPrice ==
    Answers("llm") =>
        \A model \in Models : \A i \in DOMAIN Pricing :
            Matches(model, i) => Len(Pricing[i]) <= Len(Pricing[PriceRow(model)])
=============================================================================
