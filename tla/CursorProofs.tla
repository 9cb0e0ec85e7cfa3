---------------------------- MODULE CursorProofs ----------------------------
(***************************************************************************)
(* Paging by cursor, for every set of events, every limit and every order: *)
(* pages continue each other, and a finished listing has left nothing out  *)
(* that was there when it began.                                           *)
(***************************************************************************)
EXTENDS Cursor, TLAPS

\* An event after the cursor made of another is after that event in the order of
\* the query: the WHERE and the ORDER BY of query_events agree.
LEMMA AfterIsPrecedes ==
    ASSUME TypeOK, NEW d \in Events, NEW e \in Events
    PROVE  AfterCursor(CursorOf(d), e) <=> Precedes(d, e)
BY DEF AfterCursor, CursorOf, Precedes

\* The order of the query is transitive.
LEMMA PrecedesTransitive ==
    ASSUME TypeOK, NEW c \in Events, NEW d \in Events, NEW e \in Events,
           Precedes(c, d), Precedes(d, e)
    PROVE  Precedes(c, e)
BY CursorAssumption DEF TypeOK, Precedes

\* The order of what is visible does not change with a commit.
LEMMA CommitKeeps ==
    ASSUME TypeOK, NEW c \in Events, Commit(c), NEW e \in visible
    PROVE  ts'[e] = ts[e]
BY DEF Commit, TypeOK

\* The initial state satisfies the invariant.
LEMMA InitInv == Init => ListingInv
BY CursorAssumption DEF Init, ListingInv, TypeOK, TableInv, CursorInv, OwedInv,
   Ordered, Complete

\* A new event is not part of what has been returned or is owed, and the
\* others keep their places.
LEMMA CommitInv ==
    ASSUME ListingInv, NEW c \in Events, Commit(c)
    PROVE  ListingInv'
<1> USE DEF ListingInv
<1>1. TypeOK'
  BY DEF Commit, TypeOK, client
<1>2. visible \subseteq visible' /\ UNCHANGED client
  BY DEF Commit
<1>3. \A e \in visible : ts'[e] = ts[e]
  BY CommitKeeps
<1>4. TableInv' /\ Complete'
  BY <1>2 DEF TableInv, Complete, client
<1>5. Ordered'
  BY <1>2, <1>3 DEF Ordered, Precedes, TableInv, client
<1>6. CursorInv'
  BY <1>2, <1>3 DEF CursorInv, Precedes, CursorOf, TableInv, client
<1>7. OwedInv'
  BY <1>2, <1>3 DEF OwedInv, Matches, AfterCursor, TableInv, client
<1> QED BY <1>1, <1>4, <1>5, <1>6, <1>7

\* At its beginning a listing owes everything that matches.
LEMMA BeginInv == ListingInv /\ Begin => ListingInv'
BY DEF ListingInv, Begin, TypeOK, TableInv, CursorInv, OwedInv, Ordered, Complete,
   Matches, table

\* A query by id returns what it owes.
LEMMA QueryByIdInv ==
    ASSUME ListingInv, NEW e \in Events, QueryById(e)
    PROVE  ListingInv'
BY DEF ListingInv, QueryById, TypeOK, TableInv, CursorInv, OwedInv, Ordered,
   Complete, table

\* A page follows what was returned before it, and whatever is found and not on
\* the page lies after its last event.
LEMMA QueryInv == ListingInv /\ Query => ListingInv'
<1> SUFFICES ASSUME ListingInv, Query
             PROVE  ListingInv'
  OBVIOUS
<1> USE DEF ListingInv
<1>1. PICK P \in FirstOf(Found) : page' = P /\ (FullPage(P) \/ LastPage(P))
  BY DEF Query
<1>2. /\ pc = "reading" /\ got' = got \union page
      /\ UNCHANGED <<visible, ts, order, started>>
  BY DEF Query, table
<1>3. P \subseteq Found /\ Found \subseteq visible /\ visible \subseteq Events
  BY DEF FirstOf, Found, TypeOK
<1>4. page \union got \subseteq Events
  BY DEF TypeOK
<1>5. TypeOK'
  <2>1. \A e \in P : CursorOf(e) \in [ts : 0 .. MaxTs, id : Events]
    BY <1>3 DEF CursorOf, TypeOK
  <2> QED BY <1>1, <1>2, <1>3, <1>4, <2>1 DEF TypeOK, FullPage, LastPage
<1>6. TableInv'
  BY <1>1, <1>2, <1>3 DEF TableInv
<1>7. \A d \in got \union page, e \in Found : Precedes(d, e)
  <2>1. CASE cursor = NoCursor /\ page = {} /\ got = {}
    BY <2>1
  <2>2. ASSUME NEW last \in page, cursor = CursorOf(last), 
               \A d \in (got \union page) \ {last} : Precedes(d, last)
        PROVE  \A d \in got \union page, e \in Found : Precedes(d, e)
    <3>1. cursor # NoCursor
      BY <1>4, <2>2, CursorAssumption DEF CursorOf, TypeOK
    <3>2. \A e \in Found : Precedes(last, e)
      BY <1>3, <1>4, <2>2, <3>1, AfterIsPrecedes DEF Found
    <3> QED BY <1>3, <1>4, <2>2, <3>2, PrecedesTransitive
  <2> QED BY <1>2, <2>1, <2>2 DEF CursorInv
<1>8. Ordered'
  BY <1>1, <1>2, <1>3, <1>7 DEF Ordered, Precedes
<1>9. \A e \in started : e \in got \union page \/ e \in Found
  BY <1>2 DEF OwedInv, TableInv, Found
<1>10. CASE FullPage(P)
  <2>1. PICK last \in P : Last(P, last) /\ cursor' = CursorOf(last)
    BY <1>10 DEF FullPage, Last
  <2>2. \A d \in (got \union page \union P) \ {last} : Precedes(d, last)
    BY <1>3, <1>7, <2>1 DEF Last
  <2>3. CursorInv'
    BY <1>1, <1>2, <2>1, <2>2 DEF CursorInv, Precedes, CursorOf
  <2>4. \A e \in Found \ P : AfterCursor(CursorOf(last), e)
    BY <1>3, AfterIsPrecedes DEF FirstOf
  <2>5. \A e \in started : e \in got \union page \union P \/ AfterCursor(CursorOf(last), e)
    BY <1>9, <2>4
  <2>6. OwedInv'
    BY <1>1, <1>2, <2>1, <2>5 DEF OwedInv, Matches, AfterCursor, CursorOf
  <2>7. Complete'
    BY <1>10 DEF FullPage, Complete
  <2> QED BY <1>5, <1>6, <1>8, <2>3, <2>6, <2>7
<1>11. CASE LastPage(P)
  <2>1. P = Found
    <3>1. P = Found \/ Cardinality(P) = Limit
      BY DEF FirstOf
    <3>2. Cardinality(P) # Limit
      BY <1>11, CursorAssumption DEF LastPage
    <3> QED BY <3>1, <3>2
  <2>2. Complete'
    BY <1>1, <1>2, <1>9, <2>1 DEF Complete
  <2>3. CursorInv' /\ OwedInv'
    BY <1>11 DEF LastPage, CursorInv, OwedInv
  <2> QED BY <1>5, <1>6, <1>8, <2>2, <2>3
<1> QED BY <1>1, <1>10, <1>11

\* Every step preserves the invariant.
LEMMA NextInv == ListingInv /\ [Next]_vars => ListingInv'
<1> SUFFICES ASSUME ListingInv, [Next]_vars
             PROVE  ListingInv'
  OBVIOUS
<1>1. CASE UNCHANGED vars
  BY <1>1 DEF vars, table, client, ListingInv, TypeOK, TableInv, CursorInv, OwedInv,
     Ordered, Complete, Matches, AfterCursor, Precedes, CursorOf
<1>2. CASE Next
  BY <1>2, CommitInv, BeginInv, QueryByIdInv, QueryInv DEF Next
<1> QED BY <1>1, <1>2

\* The invariant of a listing holds in every reachable state.
THEOREM ListingInvariance == Spec => []ListingInv
<1> QED BY InitInv, NextInv, PTL DEF Spec

\* Pages continue each other and nothing is returned twice (the WHERE of the cursor
\* and the ORDER BY of query_events).
THEOREM PagesOrdered == Spec => []Ordered
<1>1. ListingInv => Ordered
  BY DEF ListingInv
<1> QED BY <1>1, ListingInvariance, PTL

\* A finished listing has returned all that was visible when it began
\* (query_events, and the end of the listing at a page below the limit).
THEOREM ListingComplete == Spec => []Complete
<1>1. ListingInv => Complete
  BY DEF ListingInv
<1> QED BY <1>1, ListingInvariance, PTL

\* Type correctness: cursors and pages are made of events of the table.
THEOREM TypeCorrect == Spec => []TypeOK
<1>1. ListingInv => TypeOK
  BY DEF ListingInv
<1> QED BY <1>1, ListingInvariance, PTL
=============================================================================
