---------------------------- MODULE AcceptApiProofs ----------------------------
(***************************************************************************)
(* The theorems about AcceptApi, for any number of requests and keys.      *)
(***************************************************************************)
EXTENDS AcceptApi, TLAPS

\* Before the answer nothing has been said, and what has been said fits the tables:
\* 202 names the request's own event, 200 a committed one with the same key.
AnswerInv ==
    \A r \in Requests :
        /\ pc[r] \notin {"answered", "done"} => answer[r] = NoAnswer
        /\ answer[r].status = "202" => answer[r].id = r
        /\ answer[r].status = "200" => answer[r].id \in Existing(r)

\* Once a request has lost the race or found a row, the row is there for good.
FoundInv ==
    \A r \in Requests :
        /\ pc[r] = "found" => found[r] \in Existing(r)
        /\ pc[r] = "recheck" => Keyed(r) /\ Existing(r) # {}

\* A key belongs to one request, from its INSERT on.
Holds(r) == r \in rows \/ pc[r] \in {"inserted", "answered"}

KeyInv == \A q, r \in Requests : Duplicates(q, r) => ~(Holds(q) /\ Holds(r))

\* The invariant that makes the properties inductive.
IInv == TypeOK /\ AnswerInv /\ FoundInv /\ KeyInv /\ RaceResolved

-----------------------------------------------------------------------------
\* Committed rows stay, and with them what a lookup has found.
LEMMA ExistingGrows ==
    ASSUME NEW r \in Requests, rows \subseteq rows'
    PROVE  Existing(r) \subseteq Existing(r)'
BY DEF Existing, Duplicates

\* Who finds nothing to wait for and nothing in the way is the only one with its key.
LEMMA InsertAlone ==
    ASSUME NEW r \in Requests, Pending(r) = {}, Existing(r) = {}, rows \subseteq Requests
    PROVE  \A q \in Requests : Duplicates(q, r) \/ Duplicates(r, q) => ~Holds(q)
BY DEF Pending, Existing, Holds, Duplicates

LEMMA InitInv == Init => IInv
<1> USE KeysAssumption
<1> SUFFICES ASSUME Init PROVE IInv
    OBVIOUS
<1>1. TypeOK
    BY DEF Init, TypeOK, Answers, NoAnswer
<1>2. AnswerInv /\ FoundInv /\ KeyInv /\ RaceResolved
    BY DEF Init, AnswerInv, FoundInv, KeyInv, Holds, RaceResolved, NoAnswer
<1> QED
    BY <1>1, <1>2 DEF IInv

\* Every step of a request, a failure of several and the end of all keep the types.
LEMMA TypeNext ==
    ASSUME IInv, [Next]_vars
    PROVE  TypeOK'
<1> USE KeysAssumption DEF IInv, TypeOK
<1>1. ASSUME NEW r \in Requests, Step(r) PROVE TypeOK'
  <2> answer[r] \in Answers
      OBVIOUS
  <2>1. CASE Lookup(r)
      BY <2>1 DEF Lookup, Goto, Existing
  <2>2. CASE Insert(r)
      BY <2>2 DEF Insert, Goto
  <2>3. CASE Conflict(r)
    <3>1. pc[r] = "insert" /\ answer[r] = NoAnswer
        BY <2>3 DEF Conflict, AnswerInv
    <3>2. [answer[r] EXCEPT !.status = "conflict"] \in Answers
        BY <3>1 DEF Answers, NoAnswer
    <3> QED
        BY <2>3, <3>1, <3>2 DEF Conflict, Goto
  <2>4. CASE Recheck(r)
    <3>1. pc[r] = "recheck" /\ Existing(r) # {}
        BY <2>4 DEF Recheck, FoundInv
    <3> QED
        BY <2>4, <3>1 DEF Recheck, Goto, Existing
  <2>5. CASE AnswerExisting(r)
    <3>1. pc[r] = "found" /\ found[r] \in Requests
        BY <2>5 DEF AnswerExisting, FoundInv, Existing
    <3>2. [status |-> "200", id |-> found[r]] \in Answers
        BY <3>1 DEF Answers
    <3> QED
        BY <2>5, <3>1, <3>2 DEF AnswerExisting, Goto
  <2>6. CASE AnswerCreated(r)
    <3>1. [status |-> "202", id |-> r] \in Answers
        BY DEF Answers
    <3> QED
        BY <2>6, <3>1 DEF AnswerCreated, Goto
  <2>7. CASE Commit(r)
      BY <2>7 DEF Commit, Goto
  <2> QED
      BY <1>1, <2>1, <2>2, <2>3, <2>4, <2>5, <2>6, <2>7 DEF Step
<1>2. ASSUME NEW S \in SUBSET InFlight, Fail(S) PROVE TypeOK'
  <2>1. \A r \in S : Torn(r) \in Answers
    <3> SUFFICES ASSUME NEW r \in S PROVE Torn(r) \in Answers
        OBVIOUS
    <3>1. r \in Requests /\ pc[r] # "done" /\ answer[r] \in Answers
        BY DEF InFlight
    <3>2. CASE pc[r] = "answered"
        BY <3>1, <3>2 DEF Torn
    <3>3. CASE pc[r] # "answered"
      <4>1. answer[r] = NoAnswer
          BY <3>1, <3>3 DEF AnswerInv
      <4> QED
          BY <3>3, <4>1 DEF Torn, Answers, NoAnswer
    <3> QED
        BY <3>2, <3>3
  <2>2. faults' \in 0 .. MaxFaults
      BY <1>2 DEF Fail
  <2> QED
      BY <1>2, <2>1, <2>2 DEF Fail
<1>3. CASE UNCHANGED vars
    BY <1>3 DEF vars
<1> QED
    BY <1>1, <1>2, <1>3 DEF Next, Finished

\* A request's step disturbs the other requests' parts of the invariant in no way but
\* by adding a row.
LEMMA AnswerNext ==
    ASSUME IInv, [Next]_vars
    PROVE  AnswerInv'
<1> USE KeysAssumption DEF IInv, TypeOK, NoAnswer
<1>1. ASSUME NEW r \in Requests, Step(r) PROVE AnswerInv'
  <2>0. rows \subseteq rows'
      BY <1>1 DEF Step, Lookup, Insert, Conflict, Recheck, AnswerExisting, AnswerCreated, Commit
  <2>1. ASSUME NEW q \in Requests PROVE Existing(q) \subseteq Existing(q)'
      BY <2>0, ExistingGrows
  <2>2. CASE Lookup(r) \/ Insert(r) \/ Commit(r)
      BY <2>1, <2>2 DEF Lookup, Insert, Commit, Goto, AnswerInv
  <2>3. CASE Conflict(r) \/ Recheck(r)
      BY <2>1, <2>3 DEF Conflict, Recheck, Goto, AnswerInv
  <2>4. CASE AnswerExisting(r)
    <3>1. found[r] \in Existing(r)
        BY <2>4 DEF AnswerExisting, FoundInv
    <3> QED
        BY <2>1, <2>4, <3>1 DEF AnswerExisting, Goto, AnswerInv
  <2>5. CASE AnswerCreated(r)
      BY <2>1, <2>5 DEF AnswerCreated, Goto, AnswerInv
  <2> QED
      BY <1>1, <2>2, <2>3, <2>4, <2>5 DEF Step
<1>2. ASSUME NEW S \in SUBSET InFlight, Fail(S) PROVE AnswerInv'
  <2>1. \A q \in Requests : Existing(q)' = Existing(q)
      BY <1>2 DEF Fail, Existing, Duplicates
  <2>2. ASSUME NEW q \in Requests
        PROVE  /\ pc'[q] \notin {"answered", "done"} => pc'[q] = pc[q] /\ q \notin S
               /\ answer'[q] = answer[q] \/ answer'[q].status = "failed"
    <3>1. q \notin S => pc'[q] = pc[q] /\ answer'[q] = answer[q]
        BY <1>2 DEF Fail
    <3>2. q \in S => pc'[q] = "done" /\ answer'[q] = Torn(q)
        BY <1>2 DEF Fail
    <3>3. answer[q] \in Answers
        OBVIOUS
    <3>4. Torn(q) = answer[q] \/ Torn(q).status = "failed"
        BY <3>3 DEF Torn, Answers
    <3> QED
        BY <3>1, <3>2, <3>4
  <2>3. \A q \in Requests : q \notin S => answer'[q] = answer[q]
      BY <1>2 DEF Fail
  <2> QED
      BY <2>1, <2>2, <2>3 DEF AnswerInv
<1>3. CASE UNCHANGED vars
    BY <1>3 DEF vars, AnswerInv, Existing, Duplicates
<1> QED
    BY <1>1, <1>2, <1>3 DEF Next, Finished

\* A found row is never taken back, so the second lookup of a request that has lost the
\* race finds it.
LEMMA FoundNext ==
    ASSUME IInv, [Next]_vars
    PROVE  FoundInv'
<1> USE KeysAssumption DEF IInv, TypeOK
<1>1. ASSUME NEW r \in Requests, Step(r) PROVE FoundInv'
  <2>0. rows \subseteq rows'
      BY <1>1 DEF Step, Lookup, Insert, Conflict, Recheck, AnswerExisting, AnswerCreated, Commit
  <2>1. ASSUME NEW q \in Requests PROVE Existing(q) \subseteq Existing(q)'
      BY <2>0, ExistingGrows
  <2>2. ASSUME NEW q \in Requests PROVE Keyed(q)' = Keyed(q)
      BY DEF Keyed
  <2>3. CASE Lookup(r) \/ Recheck(r)
    <3>1. Existing(r) \subseteq Requests
        BY DEF Existing
    <3> QED
        BY <2>1, <2>2, <2>3, <3>1 DEF Lookup, Recheck, Goto, FoundInv
  <2>4. CASE Insert(r) \/ Commit(r) \/ AnswerExisting(r) \/ AnswerCreated(r)
      BY <2>1, <2>2, <2>4 DEF Insert, Commit, AnswerExisting, AnswerCreated, Goto, FoundInv
  <2>5. CASE Conflict(r)
      BY <2>1, <2>2, <2>5 DEF Conflict, Goto, FoundInv
  <2> QED
      BY <1>1, <2>3, <2>4, <2>5 DEF Step
<1>2. ASSUME NEW S \in SUBSET InFlight, Fail(S) PROVE FoundInv'
    BY <1>2 DEF Fail, FoundInv, Existing, Duplicates, Keyed
<1>3. CASE UNCHANGED vars
    BY <1>3 DEF vars, FoundInv, Existing, Duplicates, Keyed
<1> QED
    BY <1>1, <1>2, <1>3 DEF Next, Finished

\* A request gets hold of a key only by an INSERT that nobody is in the way of.
LEMMA KeyNext ==
    ASSUME IInv, [Next]_vars
    PROVE  KeyInv'
<1> USE DEF IInv, TypeOK
<1>1. ASSUME NEW r \in Requests, Step(r) PROVE KeyInv'
  <2>1. CASE Insert(r)
    <3>1. \A q \in Requests : Duplicates(q, r) \/ Duplicates(r, q) => ~Holds(q)
        BY <2>1, InsertAlone DEF Insert
    <3>2. \A q \in Requests : Holds(q)' => Holds(q) \/ q = r
        BY <2>1 DEF Insert, Goto, Holds
    <3>3. ~Duplicates(r, r)
        BY DEF Duplicates
    <3> QED
        BY <3>1, <3>2, <3>3 DEF KeyInv, Duplicates
  <2>2. CASE ~Insert(r)
    <3>1. \A q \in Requests : Holds(q)' => Holds(q)
        BY <1>1, <2>2 DEF Step, Lookup, Conflict, Recheck, AnswerExisting, AnswerCreated,
           Commit, Goto, Holds
    <3> QED
        BY <3>1 DEF KeyInv, Duplicates
  <2> QED
      BY <2>1, <2>2
<1>2. ASSUME NEW S \in SUBSET InFlight, Fail(S) PROVE KeyInv'
  <2>1. \A q \in Requests : Holds(q)' => Holds(q)
      BY <1>2 DEF Fail, Holds
  <2> QED
      BY <2>1 DEF KeyInv, Duplicates
<1>3. CASE UNCHANGED vars
    BY <1>3 DEF vars, KeyInv, Holds, Duplicates
<1> QED
    BY <1>1, <1>2, <1>3 DEF Next, Finished

\* Only an empty key is refused: the others are looked up again, and found.
LEMMA RaceNext ==
    ASSUME IInv, [Next]_vars
    PROVE  RaceResolved'
<1> USE KeysAssumption DEF IInv, TypeOK
<1>1. ASSUME NEW r \in Requests, Step(r) PROVE RaceResolved'
  <2>1. CASE Conflict(r)
    <3>1. KeyOf[r] # NoKey
        BY <2>1 DEF Conflict, Existing, Duplicates
    <3>2. ~Keyed(r) => KeyOf[r] = EmptyKey
        BY <3>1 DEF Keyed
    <3>3. \A q \in Requests \ {r} : answer'[q] = answer[q]
        BY <2>1 DEF Conflict
    <3>4. Keyed(r) => answer'[r] = answer[r]
        BY <2>1 DEF Conflict, Goto
    <3> QED
        BY <3>2, <3>3, <3>4 DEF RaceResolved
  <2>2. CASE Recheck(r)
      BY <2>2 DEF Recheck, FoundInv, RaceResolved
  <2>3. CASE Lookup(r) \/ Insert(r) \/ Commit(r)
      BY <2>3 DEF Lookup, Insert, Commit, RaceResolved
  <2>4. CASE AnswerExisting(r) \/ AnswerCreated(r)
      BY <2>4 DEF AnswerExisting, AnswerCreated, RaceResolved
  <2> QED
      BY <1>1, <2>1, <2>2, <2>3, <2>4 DEF Step
<1>2. ASSUME NEW S \in SUBSET InFlight, Fail(S) PROVE RaceResolved'
  <2>1. \A q \in Requests : answer'[q] = answer[q] \/ answer'[q].status = "failed"
    <3> SUFFICES ASSUME NEW q \in Requests
                 PROVE  answer'[q] = answer[q] \/ answer'[q].status = "failed"
        OBVIOUS
    <3>1. answer[q] \in Answers
        OBVIOUS
    <3>2. Torn(q) = answer[q] \/ Torn(q).status = "failed"
        BY <3>1 DEF Torn, Answers
    <3> QED
        BY <1>2, <3>2 DEF Fail
  <2> QED
      BY <2>1 DEF RaceResolved
<1>3. CASE UNCHANGED vars
    BY <1>3 DEF vars, RaceResolved
<1> QED
    BY <1>1, <1>2, <1>3 DEF Next, Finished

-----------------------------------------------------------------------------
LEMMA NextInv == IInv /\ [Next]_vars => IInv'
BY TypeNext, AnswerNext, FoundNext, KeyNext, RaceNext DEF IInv

\* The invariant holds in every reachable state.
THEOREM Invariance == Spec => []IInv
BY InitInv, NextInv, PTL DEF Spec

\* Every variable keeps its type.
THEOREM TypeCorrect == Spec => []TypeOK
<1>1. IInv => TypeOK
    BY DEF IInv
<1> QED
    BY <1>1, Invariance, PTL

\* Losing the race for a key ends in an error for empty keys only.
THEOREM RaceSafety == Spec => []RaceResolved
<1>1. IInv => RaceResolved
    BY DEF IInv
<1> QED
    BY <1>1, Invariance, PTL

\* A duplicate is pointed to a committed event.
THEOREM DuplicateSafety == Spec => []DuplicateDurable
<1>1. IInv => DuplicateDurable
    BY DEF IInv, AnswerInv, Existing, DuplicateDurable
<1> QED
    BY <1>1, Invariance, PTL

\* All answers to one key that name a durable event name the same: each names an event
\* with that key, and committed events with one key are one.
THEOREM Idempotence == Spec => []IdempotentAnswers
<1>1. IInv => IdempotentAnswers
  <2> SUFFICES ASSUME IInv, NEW q \in Requests, NEW r \in Requests, Duplicates(q, r),
                      answer[q].id \in rows, answer[r].id \in rows
               PROVE  answer[q].id = answer[r].id
      BY DEF IdempotentAnswers
  <2>1. ASSUME NEW p \in Requests, answer[p].id \in rows
        PROVE  answer[p].id \in Requests /\ KeyOf[answer[p].id] = KeyOf[p]
    <3>1. answer[p] \in Answers /\ answer[p].id # NoId
        BY <2>1, KeysAssumption DEF IInv, TypeOK
    <3>2. answer[p].status \in {"202", "200"}
        BY <3>1 DEF Answers
    <3> QED
        BY <2>1, <3>2 DEF IInv, TypeOK, AnswerInv, Existing, Duplicates
  <2>2. KeyOf[answer[q].id] = KeyOf[answer[r].id] /\ KeyOf[answer[q].id] # NoKey
      BY <2>1 DEF Duplicates
  <2> QED
      BY <2>1, <2>2 DEF IInv, KeyInv, Holds, Duplicates
<1> QED
    BY <1>1, Invariance, PTL

-----------------------------------------------------------------------------
(* For the composition with the workers.                                   *)

\* A failure elsewhere only counts.
LEMMA FaultElsewhere ==
    ASSUME IInv, faults' \in 0 .. MaxFaults, UNCHANGED <<rows, pc, found, answer>>
    PROVE  IInv'
BY DEF IInv, TypeOK, AnswerInv, FoundInv, KeyInv, Holds, RaceResolved, Existing, Duplicates,
       Keyed, NoAnswer

\* Who commits a row has told its id before, and has ended with it.
ToldInv ==
    \A r \in Requests :
        /\ pc[r] = "answered" => answer[r].id = r
        /\ r \in rows => answer[r].id = r /\ pc[r] = "done"

LEMMA ToldNext ==
    ASSUME IInv, ToldInv,
           \/ \E r \in Requests : Step(r)
           \/ \E S \in SUBSET InFlight : Fail(S)
           \/ UNCHANGED <<rows, pc, answer>>
    PROVE  ToldInv'
<1> USE DEF IInv, TypeOK
<1>1. ASSUME NEW r \in Requests, Step(r) PROVE ToldInv'
  <2>1. CASE Commit(r)
      BY <2>1 DEF Commit, Goto, ToldInv
  <2>2. CASE AnswerCreated(r)
      BY <2>2 DEF AnswerCreated, Goto, ToldInv
  <2>3. CASE Lookup(r) \/ Insert(r) \/ Conflict(r) \/ Recheck(r) \/ AnswerExisting(r)
      BY <2>3 DEF Lookup, Insert, Conflict, Recheck, AnswerExisting, Goto, ToldInv
  <2> QED
      BY <1>1, <2>1, <2>2, <2>3 DEF Step
<1>2. ASSUME NEW S \in SUBSET InFlight, Fail(S) PROVE ToldInv'
  <2>1. \A r \in Requests : r \in rows => r \notin S
      BY DEF ToldInv, InFlight
  <2> QED
      BY <1>2, <2>1 DEF Fail, ToldInv
<1>3. CASE UNCHANGED <<rows, pc, answer>>
    BY <1>3 DEF ToldInv
<1> QED
    BY <1>1, <1>2, <1>3
=============================================================================
