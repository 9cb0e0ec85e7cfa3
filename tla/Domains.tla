------------------------------- MODULE Domains -------------------------------
(***************************************************************************)
(* What the domains make of an event (the modules of domains): which       *)
(* detail table it belongs to, the columns that statistics read, and the   *)
(* price of a model.                                                       *)
(*                                                                         *)
(* An event type is the sequence of its dotted segments; data is a         *)
(* function of the keys that are present.                                  *)
(***************************************************************************)
EXTENDS Integers, Sequences

CONSTANTS
    TypeOf,     \* each event's type
    DataOf,     \* each event's data
    Null

\* Mutant: the value is stored as it came, empty strings too.
GetRaw(e, key) == IF key \in DOMAIN DataOf[e] THEN DataOf[e][key] ELSE Null

\* data.get(key) or None
Get(e, key) ==
    IF key \in DOMAIN DataOf[e] /\ DataOf[e][key] # "" THEN DataOf[e][key] ELSE Null

\* str(data.get(key, "") or "")
GetText(e, key) == IF Get(e, key) = Null THEN "" ELSE Get(e, key)

\* domain_registry[model_name_from_event_type(type)], or none
Domain(e) ==
    IF Len(TypeOf[e]) >= 3 /\ TypeOf[e][2] \in {"job", "task", "llm", "tool"}
    THEN TypeOf[e][2] ELSE Null

\* event_type.rsplit(".", 1)[-1]
State(e) == TypeOf[e][Len(TypeOf[e])]

\* The column that statistics count by, and the one they filter by.
JobDetail(e) == [key |-> GetText(e, "job_id"), filter |-> Get(e, "role"), state |-> State(e)]
TaskDetail(e) == [key |-> GetText(e, "task_id"), filter |-> Get(e, "team"), state |-> State(e)]
LLMDetail(e) == [key |-> Get(e, "model"), filter |-> Get(e, "model"), state |-> State(e)]
ToolDetail(e) == [key |-> Get(e, "tool_name"), filter |-> Null, state |-> State(e)]

\* domain.detail_model.from_event
Detail(e) ==
    CASE Domain(e) = "job" -> JobDetail(e)
      [] Domain(e) = "task" -> TaskDetail(e)
      [] Domain(e) = "llm" -> LLMDetail(e)
      [] Domain(e) = "tool" -> ToolDetail(e)

\* TERMINAL_JOB_STATES, TERMINAL_TASK_STATES; the states llm_stats and tool_stats count.
TerminalStates == [
    job |-> {"completed", "failed", "cancelled"},
    task |-> {"completed", "failed", "partial", "cancelled", "eval_failed"}]

CountedState == [llm |-> "response", tool |-> "result"]

-----------------------------------------------------------------------------
(* _estimate_cost.  A model's name is cut into pieces such that prefixes   *)
(* of names are prefixes of sequences; prices are by row of the table.     *)

\* Mutant: the families come before their small models.
PricingByFamily == <<
    <<"claude", "-sonnet", "-4", "-6">>,
    <<"claude", "-3", "-7", "-sonnet">>,
    <<"claude", "-3", "-5", "-sonnet">>,
    <<"gpt", "-5">>,
    <<"gpt", "-5", "-mini">>,
    <<"gpt", "-4", ".1">>,
    <<"gpt", "-4", ".1", "-mini">>,
    <<"gpt", "-4", "o">>,
    <<"gpt", "-4", "o", "-mini">> >>

\* _MODEL_PRICING_PER_MILLION
Pricing == <<
    <<"claude", "-sonnet", "-4", "-6">>,
    <<"claude", "-3", "-7", "-sonnet">>,
    <<"claude", "-3", "-5", "-sonnet">>,
    <<"gpt", "-5", "-mini">>,
    <<"gpt", "-5">>,
    <<"gpt", "-4", ".1", "-mini">>,
    <<"gpt", "-4", ".1">>,
    <<"gpt", "-4", "o", "-mini">>,
    <<"gpt", "-4", "o">> >>

\* (model or "").strip().lower().split("/", 1)[-1]: what follows the provider.
Normalized(model) ==
    IF \E i \in DOMAIN model : model[i] = "/"
    THEN LET i == CHOOSE i \in DOMAIN model :
                    model[i] = "/" /\ \A j \in 1 .. i - 1 : model[j] # "/"
         IN  SubSeq(model, i + 1, Len(model))
    ELSE model

Matches(model, i) ==
    LET name == Normalized(model)
    IN  Len(Pricing[i]) <= Len(name) /\ SubSeq(name, 1, Len(Pricing[i])) = Pricing[i]

\* The first row that matches, or Null.
PriceRow(model) ==
    LET rows == {i \in DOMAIN Pricing : Matches(model, i)}
    IN  IF rows = {} THEN Null ELSE CHOOSE i \in rows : \A j \in rows : i <= j
=============================================================================
