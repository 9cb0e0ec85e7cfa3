----------------------------- MODULE EventStore -----------------------------
(***************************************************************************)
(* What Pasloe promises, without databases, leases or workers: an event    *)
(* that has been accepted becomes visible once, together with the debt of  *)
(* notifying the webhooks about it, and that debt is settled once.         *)
(* Nothing accepted is dropped, nothing visible is taken back.             *)
(***************************************************************************)
CONSTANT Events

VARIABLES
    accepted,   \* events the ingest log holds
    visible,    \* events that GET /events returns
    delivery    \* the webhook debt of each event: none, pending or done

vars == <<accepted, visible, delivery>>

TypeOK ==
    /\ accepted \subseteq Events
    /\ visible \subseteq accepted
    /\ delivery \in [Events -> {"none", "pending", "done"}]

Init ==
    /\ accepted = {}
    /\ visible = {}
    /\ delivery = [e \in Events |-> "none"]

Accept(e) ==
    /\ e \notin accepted
    /\ accepted' = accepted \union {e}
    /\ UNCHANGED <<visible, delivery>>

Commit(e) ==
    /\ e \in accepted \ visible
    /\ delivery[e] = "none"
    /\ visible' = visible \union {e}
    /\ delivery' = [delivery EXCEPT ![e] = "pending"]
    /\ UNCHANGED accepted

Settle(e) ==
    /\ delivery[e] = "pending"
    /\ delivery' = [delivery EXCEPT ![e] = "done"]
    /\ UNCHANGED <<accepted, visible>>

Next == \E e \in Events : Accept(e) \/ Commit(e) \/ Settle(e)

Spec == Init /\ [][Next]_vars
=============================================================================
