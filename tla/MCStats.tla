------------------------------- MODULE MCStats -------------------------------
(* One load for each request: two jobs, one of which completes; a task and *)
(* an event of no domain; responses of a model, of one with an empty name  *)
(* and of one with none; a tool's call and its result; two job events and  *)
(* one of no domain for get_stats.                                         *)
EXTENDS Stats, TLC

CONSTANTS a1, a2, b1, t1, t2, x1, m1, m2, m3, o1, o2

MCTypeOf ==
    a1 :> <<"agent", "job", "started">> @@
    a2 :> <<"agent", "job", "completed">> @@
    b1 :> <<"supervisor", "job", "enqueued">> @@
    t1 :> <<"supervisor", "task", "created">> @@
    t2 :> <<"supervisor", "task", "eval_failed">> @@
    x1 :> <<"ping">> @@
    [e \in {m1, m2, m3} |-> <<"agent", "llm", "response">>] @@
    o1 :> <<"agent", "tool", "exec">> @@
    o2 :> <<"agent", "tool", "result">>

MCDataOf ==
    a1 :> [job_id |-> "a", role |-> "planner"] @@
    a2 :> [job_id |-> "a", role |-> ""] @@
    b1 :> [role |-> "planner"] @@
    t1 :> [task_id |-> "t", team |-> "backend"] @@
    t2 :> [task_id |-> "t", team |-> "backend"] @@
    x1 :> [none |-> ""] @@
    m1 :> [model |-> "m"] @@
    m2 :> [model |-> ""] @@
    m3 :> [none |-> ""] @@
    [e \in {o1, o2} |-> [tool_name |-> "bash"]]

MCAcceptedAt ==
    [e \in Events |-> CASE e \in {a1, t1, m1} -> 0 [] e \in {a2, t2, m2} -> 1
                         [] OTHER -> 2]

MCLoads ==
    {[sent |-> {a1, a2, b1}, asked |-> "job"], [sent |-> {t1, t2, x1}, asked |-> "task"],
     [sent |-> {m1, m2, m3}, asked |-> "llm"], [sent |-> {o1, o2}, asked |-> "tool"],
     [sent |-> {a1, a2, x1}, asked |-> "stats"]}

MCSourceOf == [e \in Events |-> TypeOf[e][1]]

MCFilters == {[filter |-> "planner", since |-> Null], [filter |-> Null, since |-> 1],
              [filter |-> "backend", since |-> 1]}

\* Every row of the table, each of them with another piece, and with a provider.
MCModels ==
    LET rows == {Pricing[i] : i \in DOMAIN Pricing}
        longer == {m \o <<piece>> : m \in rows, piece \in {"-mini", ".1", "o"}}
    IN  rows \union longer \union {<<"openai", "/">> \o m : m \in rows \union longer}
=============================================================================
