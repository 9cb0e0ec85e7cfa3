-------------------------------- MODULE Cursor --------------------------------
(***************************************************************************)
(* GET /events: a client lists events page by page, each request with the  *)
(* cursor that came with the last response, while the committer goes on    *)
(* making events visible (store.py query_events, api.py query_events).     *)
(* There is no snapshot across pages: a page is one SELECT on the table as *)
(* it is then.  Events never change or disappear, but the place of a new   *)
(* one is decided by ts, which is the time at which it was accepted and so *)
(* may lie anywhere before its commit, behind the cursor included.         *)
(***************************************************************************)
EXTENDS Integers, FiniteSets

CONSTANTS
    Events,         \* event ids (UUIDv7, hence ordered)
    Wanted,         \* the events that pass the source and type filters
    Since, Until,   \* the query's bounds on ts
    Limit,          \* the query's limit
    MaxTs,          \* bound: ts is told apart up to here
    NoCursor

ASSUME CursorAssumption ==
    /\ Events \subseteq Nat /\ Wanted \subseteq Events
    /\ Since \in Nat /\ Until \in Nat /\ MaxTs \in Nat
    /\ Limit \in Nat \ {0}
    /\ NoCursor \notin [ts : Nat, id : Events]

VARIABLES
    visible,    \* events, the ids
    ts,         \* events.ts, of those that are visible
    order,      \* asc or desc
    pc,         \* whether the client has more pages to ask for
    cursor,     \* X-Next-Cursor of the last response
    page,       \* the events of the last response
    got,        \* auxiliary: the events of the responses before
    started     \* auxiliary: what the listing could have found when it began

table == <<visible, ts>>
client == <<order, pc, cursor, page, got, started>>
vars == <<table, client>>

TypeOK ==
    /\ visible \subseteq Events
    /\ ts \in [Events -> 0 .. MaxTs]
    /\ order \in {"asc", "desc"}
    /\ pc \in {"idle", "reading", "done"}
    /\ cursor \in [ts : 0 .. MaxTs, id : Events] \union {NoCursor}
    /\ page \subseteq Events /\ got \subseteq Events /\ started \subseteq Events

Init ==
    /\ visible = {}
    /\ ts = [e \in Events |-> 0]
    /\ order = "asc"
    /\ pc = "idle"
    /\ cursor = NoCursor
    /\ page = {} /\ got = {} /\ started = {}

-----------------------------------------------------------------------------
(* The committer.                                                          *)

Commit(e) ==
    /\ e \notin visible
    /\ visible' = visible \union {e}
    /\ \E t \in 0 .. MaxTs : ts' = [ts EXCEPT ![e] = t]
    /\ UNCHANGED client

-----------------------------------------------------------------------------
(* The query.                                                              *)

\* The WHERE clauses that do not depend on the cursor.
Matches(e) == e \in Wanted /\ Since <= ts[e] /\ ts[e] <= Until

\* Mutant: the row of the cursor is returned again.
FromCursor(c, e) ==
    IF order = "asc"
    THEN ts[e] > c.ts \/ (ts[e] = c.ts /\ e >= c.id)
    ELSE ts[e] < c.ts \/ (ts[e] = c.ts /\ e <= c.id)

\* Mutants: the cursor's id is not looked at.
LaterThanCursor(c, e) == IF order = "asc" THEN ts[e] > c.ts ELSE ts[e] < c.ts
NotBeforeCursor(c, e) == IF order = "asc" THEN ts[e] >= c.ts ELSE ts[e] <= c.ts

\* The WHERE clause of the cursor.
AfterCursor(c, e) ==
    IF order = "asc"
    THEN ts[e] > c.ts \/ (ts[e] = c.ts /\ e > c.id)
    ELSE ts[e] < c.ts \/ (ts[e] = c.ts /\ e < c.id)

Found == {e \in visible : Matches(e) /\ (cursor = NoCursor \/ AfterCursor(cursor, e))}

\* ORDER BY ts, id, in either direction.
Precedes(d, e) ==
    IF order = "asc"
    THEN ts[d] < ts[e] \/ (ts[d] = ts[e] /\ d < e)
    ELSE ts[d] > ts[e] \/ (ts[d] = ts[e] /\ d > e)

\* ... LIMIT limit
FirstOf(S) ==
    {P \in SUBSET S : /\ Cardinality(P) <= Limit
                      /\ P = S \/ Cardinality(P) = Limit
                      /\ \A d \in P, e \in S \ P : Precedes(d, e)}

Last(P, e) == e \in P /\ \A d \in P \ {e} : Precedes(d, e)

\* Mutant: the id alone.
CursorId(e) == [ts |-> NoCursor, id |-> e]

\* _encode_cursor; _decode_cursor restores both parts.
CursorOf(e) == [ts |-> ts[e], id |-> e]

\* A full page comes with a cursor, ...
FullPage(P) ==
    /\ Cardinality(P) = Limit
    /\ \E e \in P : Last(P, e) /\ cursor' = CursorOf(e)
    /\ pc' = "reading"

\* ... a shorter one without, and the listing is over.
LastPage(P) ==
    /\ Cardinality(P) < Limit
    /\ cursor' = NoCursor
    /\ pc' = "done"

Query ==
    /\ pc = "reading"
    /\ \E P \in FirstOf(Found) : page' = P /\ (FullPage(P) \/ LastPage(P))
    /\ got' = got \union page
    /\ UNCHANGED <<table, order, started>>

\* The client starts a listing, without a cursor, and will follow the cursors.
Begin ==
    /\ pc # "reading"
    /\ order' \in {"asc", "desc"}
    /\ pc' = "reading"
    /\ cursor' = NoCursor
    /\ page' = {} /\ got' = {}
    /\ started' = {e \in visible : Matches(e)}
    /\ UNCHANGED table

\* A query by id: no page, no cursor, no other filter.
QueryById(e) ==
    /\ pc # "reading"
    /\ page' = {e} \intersect visible
    /\ got' = {}
    /\ started' = {e} \intersect visible
    /\ cursor' = NoCursor
    /\ pc' = "done"
    /\ UNCHANGED <<table, order>>

-----------------------------------------------------------------------------
Next == Begin \/ Query \/ \E e \in Events : Commit(e) \/ QueryById(e)

\* The client asks for the next page as long as it is given a cursor.
Spec == Init /\ [][Next]_vars /\ WF_vars(Query)

-----------------------------------------------------------------------------
(* What makes it correct.                                                  *)

\* The pages of a listing continue each other in the order that was asked for,
\* however many events share a ts and whatever is committed between the requests;
\* in particular no event is returned twice.
Ordered == \A d \in got, e \in page : Precedes(d, e)

\* A listing that has come to its end has returned every event that was there when
\* it began: only events committed since then, behind the cursor, can be missing.
Complete == pc = "done" => started \subseteq got \union page

\* Every listing comes to its end.
ListingEnds == pc = "reading" ~> pc = "done"

-----------------------------------------------------------------------------
(* The invariant that makes Ordered and Complete inductive: everything     *)
(* returned so far lies up to the cursor, everything owed lies after it.   *)

CursorInv ==
    pc = "reading" =>
        \/ (cursor = NoCursor /\ page = {} /\ got = {})
        \/ \E last \in page :
             /\ cursor = CursorOf(last)
             /\ \A d \in (got \union page) \ {last} : Precedes(d, last)

OwedInv ==
    pc = "reading" => \A e \in started :
        /\ Matches(e)
        /\ e \in got \union page \/ cursor = NoCursor \/ AfterCursor(cursor, e)

TableInv == page \union got \union started \subseteq visible

ListingInv == TypeOK /\ TableInv /\ CursorInv /\ OwedInv /\ Ordered /\ Complete
=============================================================================
