------------------------------ MODULE StatsProofs ------------------------------
(***************************************************************************)
(* The theorems about Stats: what the counts of one answer, each from a    *)
(* moment of its own, have to do with each other, for any events, filters  *)
(* and clock.                                                              *)
(***************************************************************************)
EXTENDS Stats, FiniteSetTheorems, WellFoundedInduction, TLAPS

\* Between requests nothing is counted.
IdleInv == kind = Null => step = 0 /\ \A q \in Counted : saw[q] = {}

\* job_stats and task_stats: the rows that matched still do, those counted among them,
\* and the second statement has counted all that were there at the beginning.
ActivityInv ==
    kind # Null /\ kind \in {"job", "task"} =>
        /\ began \subseteq Matching
        /\ saw["seen"] \subseteq Matching
        /\ saw["terminal"] \subseteq Matching
        /\ step >= 2 => began \subseteq saw["seen"]

\* get_stats: the total is counted first, the pending after it, the oldest last.
SnapshotInv ==
    kind # Null /\ kind = "stats" =>
        /\ saw["total_events"] \subseteq visible
        /\ saw["ingress_pending"] \subseteq accepted
        /\ saw["total_events"] \intersect saw["ingress_pending"] = {}
        /\ step < 5 => saw["ingress_pending"] = {}
        /\ step >= 8 => began \ visible \subseteq saw["oldest_ingress"]
        /\ saw["oldest_ingress"] \subseteq accepted

\* What was overdue when get_stats began is so by its own clock.
AgeInv ==
    kind # Null /\ kind = "stats" =>
        /\ began \subseteq accepted
        /\ \A e \in began : clock - AcceptedAt[e] > MaxAge
        /\ step >= 4 =>
            /\ now \in Nat /\ now <= clock
            /\ \A e \in began : now - AcceptedAt[e] > MaxAge

\* get_stats: the breakdowns are counted after the total, by type after by source.
BreakdownInv ==
    kind # Null /\ kind = "stats" =>
        /\ saw["total_events"] \subseteq visible /\ saw["by_source"] \subseteq visible
        /\ step >= 2 => saw["total_events"] \subseteq saw["by_source"]
        /\ step >= 3 => saw["by_source"] \subseteq saw["by_type"]

\* llm_stats and tool_stats: only rows of their domains are counted by name.
NameInv ==
    \A q \in {"by_model", "by_tool"} : \A e \in saw[q] : Domain(e) \in {"llm", "tool"}

\* The invariant that makes the properties inductive.
IInv == TypeOK /\ IdleInv /\ ActivityInv /\ SnapshotInv /\ AgeInv

\* What the counts that are broken down need besides.
CountInv == BreakdownInv /\ NameInv

-----------------------------------------------------------------------------
\* The statements that matter, by their place.
LEMMA Places ==
    /\ DOMAIN Statements = {"stats", "job", "task", "llm", "tool"}
    /\ \A k \in DOMAIN Statements : Len(Statements[k]) \in Nat
    /\ Len(Statements["stats"]) = 8
    /\ \A i \in 1 .. 8 :
        /\ Statements["stats"][i] \notin {"seen", "terminal", "by_model", "by_tool"}
        /\ Statements["stats"][i] = "total_events" <=> i = 1
        /\ Statements["stats"][i] = "by_source" <=> i = 2
        /\ Statements["stats"][i] = "by_type" <=> i = 3
        /\ Statements["stats"][i] = "now" <=> i = 4
        /\ Statements["stats"][i] = "ingress_pending" <=> i = 5
        /\ Statements["stats"][i] = "oldest_ingress" <=> i = 8
    /\ \A k \in {"job", "task"} :
        /\ Len(Statements[k]) = 3
        /\ \A i \in 1 .. 3 :
            /\ Statements[k][i] \notin {"now", "by_model", "by_tool"}
            /\ Statements[k][i] = "seen" <=> i = 2
            /\ Statements[k][i] = "terminal" <=> i = 3
BY DEF Statements

-----------------------------------------------------------------------------
(* The invariant.                                                          *)

LEMMA InitInv == Init => IInv
<1> SUFFICES ASSUME Init PROVE IInv
    OBVIOUS
<1>1. TypeOK
    BY StatsAssumption DEF Init, TypeOK, Store!Init, Store!TypeOK
<1>2. IdleInv
    BY DEF Init, IdleInv
<1> QED
    BY <1>1, <1>2 DEF Init, IInv, ActivityInv, SnapshotInv, AgeInv

\* The store only grows, details included, and leaves the request alone: a row that
\* matches goes on to match.
LEMMA StoreStep ==
    ASSUME IInv, UNCHANGED <<load, request>>, TypeOK',
           clock' >= clock,
           accepted \subseteq accepted', visible \subseteq visible', details \subseteq details'
    PROVE  IInv'
<1> USE DEF IInv
<1>1. clock \in Int /\ clock' \in Int /\ MaxAge \in Int
    BY StatsAssumption DEF TypeOK
<1>2. IdleInv'
    BY DEF IdleInv, request
<1>3. kind' = kind /\ params' = params /\ saw' = saw /\ step' = step /\ began' = began
      /\ now' = now
    BY DEF request
<1>4. Matching \subseteq Matching'
    <2> DEFINE Fits(e) ==
            /\ Domain(e) = kind
            /\ params.since # Null => AcceptedAt[e] >= params.since
            /\ params.filter # Null => Detail(e).filter = params.filter
    <2>1. Matching = {e \in details : Fits(e)}
        BY DEF Matching, MatchingOf
    <2>2. Matching' = {e \in details' : Fits(e)}
        BY <1>3 DEF Matching, MatchingOf
    <2> QED
        BY <2>1, <2>2
<1>5. ActivityInv'
    BY <1>3, <1>4 DEF ActivityInv
<1>6. SnapshotInv'
    BY <1>3 DEF SnapshotInv
<1>7. \A e \in began : AcceptedAt[e] \in Int
    BY StatsAssumption DEF TypeOK
<1>8. AgeInv'
    BY <1>1, <1>3, <1>7 DEF AgeInv
<1> QED
    BY <1>2, <1>5, <1>6, <1>8

LEMMA TickInv == IInv /\ Tick => IInv'
<1> SUFFICES ASSUME IInv, Tick PROVE IInv'
    OBVIOUS
<1>1. TypeOK'
    BY StatsAssumption DEF IInv, TypeOK, Tick, Store!TypeOK, store, request
<1> QED
    BY <1>1, StoreStep DEF IInv, TypeOK, Tick, store

LEMMA AcceptInv == ASSUME NEW e \in Events PROVE IInv /\ Accept(e) => IInv'
<1> SUFFICES ASSUME IInv, Accept(e) PROVE IInv'
    OBVIOUS
<1>1. TypeOK'
    BY DEF IInv, TypeOK, Accept, Store!Accept, Store!TypeOK, request
<1> QED
    BY <1>1, StoreStep DEF IInv, TypeOK, Accept, Store!Accept

LEMMA CommitInv == ASSUME NEW e \in Events PROVE IInv /\ Commit(e) => IInv'
<1> SUFFICES ASSUME IInv, Commit(e) PROVE IInv'
    OBVIOUS
<1>1. TypeOK'
    BY DEF IInv, TypeOK, Commit, Store!Commit, Store!TypeOK, request
<1>2. details \subseteq details'
    BY DEF Commit
<1> QED
    BY <1>1, <1>2, StoreStep DEF IInv, TypeOK, Commit, Store!Commit

LEMMA BeginInv == IInv /\ Begin => IInv'
<1> SUFFICES ASSUME IInv, Begin PROVE IInv'
    OBVIOUS
<1> USE DEF IInv
<1>1. load.asked \in DOMAIN Statements /\ Len(Statements[load.asked]) \in Nat
    BY Places, StatsAssumption DEF TypeOK
<1>2. step = 0 /\ \A q \in Counted : saw[q] = {}
    BY DEF Begin, IdleInv
<1>3. kind' = load.asked /\ saw' = saw /\ step' = 0 /\ now' = now /\ clock' = clock
      /\ UNCHANGED <<load, store>>
    BY <1>2 DEF Begin
<1>4. PICK p : p = params'
    OBVIOUS
<1>5. began' = IF load.asked = "stats" THEN Overdue ELSE MatchingOf(load.asked, p)
    BY <1>4 DEF Begin
<1>6. Matching' = MatchingOf(load.asked, p)
    BY <1>3, <1>4 DEF Matching, MatchingOf, store
<1>7. began' \subseteq Events
    BY <1>5 DEF Overdue, MatchingOf, TypeOK, Store!TypeOK
<1>8. params' \in Filters \union {Unfiltered, Null}
    BY DEF Begin
<1>9. TypeOK'
    BY <1>1, <1>3, <1>7, <1>8 DEF TypeOK, Store!TypeOK, store
<1>10. IdleInv'
    BY <1>2, <1>3 DEF IdleInv
<1>11. "seen" \in Counted /\ "terminal" \in Counted /\ "total_events" \in Counted
       /\ "ingress_pending" \in Counted /\ "oldest_ingress" \in Counted
    BY DEF Counted
<1>12. ActivityInv'
    BY <1>2, <1>3, <1>6, <1>5, <1>11 DEF ActivityInv, MatchingOf
<1>13. SnapshotInv'
    BY <1>2, <1>3, <1>11 DEF SnapshotInv
<1>14. kind' = "stats" =>
        /\ began' \subseteq accepted'
        /\ \A e \in began' : clock' - AcceptedAt[e] > MaxAge
    BY <1>3, <1>5 DEF Overdue, store
<1>15. AgeInv'
    BY <1>3, <1>14 DEF AgeInv
<1> QED
    BY <1>9, <1>10, <1>12, <1>13, <1>15

LEMMA EndInv == IInv /\ End => IInv'
<1> SUFFICES ASSUME IInv, End PROVE IInv'
    OBVIOUS
<1>1. TypeOK'
    BY DEF IInv, TypeOK, End, Store!TypeOK, store
<1> QED
    BY <1>1 DEF IInv, End, IdleInv, ActivityInv, SnapshotInv, AgeInv

\* A statement of one request, by its name.
Ran(q) ==
    /\ now' = (IF q = "now" THEN clock ELSE now)
    /\ saw' = (IF q \in Counted THEN [saw EXCEPT ![q] = Rows(q)] ELSE saw)

LEMMA StatementTypes ==
    ASSUME TypeOK, Statement
    PROVE  /\ TypeOK'
           /\ kind \in DOMAIN Statements
           /\ step \in Nat /\ step' = step + 1 /\ step' <= Len(Statements[kind])
           /\ Ran(Statements[kind][step'])
           /\ UNCHANGED <<load, clock, store, kind, params, began>>
<1>1. /\ kind \in DOMAIN Statements
      /\ step \in Nat /\ step' = step + 1 /\ step' <= Len(Statements[kind])
      /\ UNCHANGED <<load, clock, store, kind, params, began>>
    BY Places DEF Statement, TypeOK
<1>2. Ran(Statements[kind][step'])
    BY <1>1 DEF Statement, Ran
<1>3. \A q \in Counted : Rows(q) \subseteq Events
    BY DEF Counted, Rows, Matching, MatchingOf, TerminalRows, TypeOK, Store!TypeOK
<1>4. saw' \in [Counted -> SUBSET Events] /\ now' \in 0 .. MaxTime \union {Null}
    BY <1>2, <1>3 DEF Ran, TypeOK
<1> QED
    BY <1>1, <1>2, <1>4 DEF TypeOK, Store!TypeOK, store

\* get_stats: each statement counts what it is there for, and leaves the rest.
LEMMA StatsStep ==
    ASSUME TypeOK, Statement, kind = "stats"
    PROVE  /\ step' \in 1 .. 8
           /\ now' = IF step' = 4 THEN clock ELSE now
           /\ saw'["total_events"] = IF step' = 1 THEN visible ELSE saw["total_events"]
           /\ saw'["by_source"] = IF step' = 2 THEN visible ELSE saw["by_source"]
           /\ saw'["by_type"] = IF step' = 3 THEN visible ELSE saw["by_type"]
           /\ saw'["ingress_pending"] =
                IF step' = 5 THEN accepted \ visible ELSE saw["ingress_pending"]
           /\ saw'["oldest_ingress"] =
                IF step' = 8 THEN accepted \ visible ELSE saw["oldest_ingress"]
<1> DEFINE q == Statements["stats"][step']
<1>1. step \in Nat /\ step' = step + 1 /\ step' <= Len(Statements["stats"]) /\ Ran(q)
    BY StatementTypes
<1>2. Len(Statements["stats"]) = 8
    BY Places
<1>3. step' \in 1 .. 8
    BY <1>1, <1>2
<1>4. /\ q = "total_events" <=> step' = 1
      /\ q = "by_source" <=> step' = 2
      /\ q = "by_type" <=> step' = 3
      /\ q = "now" <=> step' = 4
      /\ q = "ingress_pending" <=> step' = 5
      /\ q = "oldest_ingress" <=> step' = 8
    BY <1>3, Places
<1>5. saw \in [Counted -> SUBSET Events]
    BY DEF TypeOK
<1> HIDE DEF q
<1>6. now' = IF step' = 4 THEN clock ELSE now
    BY <1>1, <1>4 DEF Ran
<1>7. saw'["total_events"] = IF step' = 1 THEN visible ELSE saw["total_events"]
    BY <1>1, <1>4, <1>5 DEF Ran, Rows, Counted
<1>8. saw'["by_source"] = IF step' = 2 THEN visible ELSE saw["by_source"]
    BY <1>1, <1>4, <1>5 DEF Ran, Rows, Counted
<1>9. saw'["by_type"] = IF step' = 3 THEN visible ELSE saw["by_type"]
    BY <1>1, <1>4, <1>5 DEF Ran, Rows, Counted
<1>10. saw'["ingress_pending"] =
        IF step' = 5 THEN accepted \ visible ELSE saw["ingress_pending"]
    BY <1>1, <1>4, <1>5 DEF Ran, Rows, Counted
<1>11. saw'["oldest_ingress"] =
        IF step' = 8 THEN accepted \ visible ELSE saw["oldest_ingress"]
    BY <1>1, <1>4, <1>5 DEF Ran, Rows, Counted
<1> QED
    BY <1>3, <1>6, <1>7, <1>8, <1>9, <1>10, <1>11

LEMMA StatementInv == IInv /\ Statement => IInv'
<1> SUFFICES ASSUME IInv, Statement PROVE IInv'
    OBVIOUS
<1> USE DEF IInv
<1>1. /\ TypeOK'
      /\ kind \in DOMAIN Statements
      /\ step \in Nat /\ step' = step + 1 /\ step' <= Len(Statements[kind])
      /\ Ran(Statements[kind][step'])
      /\ UNCHANGED <<load, clock, store, kind, params, began>>
    BY StatementTypes
<1>2. kind # Null
    BY DEF Statement
<1>3. IdleInv'
    BY <1>1, <1>2 DEF IdleInv
<1>4. saw \in [Counted -> SUBSET Events]
    BY DEF TypeOK
<1>5. Matching' = Matching
    BY <1>1 DEF Matching, MatchingOf, store
<1>6. ActivityInv'
    <2>1. CASE kind \notin {"job", "task"}
        BY <2>1, <1>1 DEF ActivityInv
    <2>2. CASE kind \in {"job", "task"}
        <3>1. began \subseteq Matching /\ saw["seen"] \subseteq Matching
              /\ saw["terminal"] \subseteq Matching /\ (step >= 2 => began \subseteq saw["seen"])
            BY <1>2, <2>2 DEF ActivityInv
        <3> DEFINE q == Statements[kind][step']
        <3>2. Len(Statements[kind]) = 3
            BY <2>2, Places
        <3>3. step' \in 1 .. 3
            BY <1>1, <3>2
        <3>4. (q = "seen" <=> step' = 2) /\ (q = "terminal" <=> step' = 3)
            BY <2>2, <3>3, Places
        <3>5. Ran(q)
            BY <1>1
        <3> HIDE DEF q
        <3>6. saw'["seen"] = IF step' = 2 THEN Matching ELSE saw["seen"]
            BY <1>4, <3>4, <3>5 DEF Ran, Rows, Counted
        <3>7. saw'["terminal"] = IF step' = 3 THEN TerminalRows ELSE saw["terminal"]
            BY <1>4, <3>4, <3>5 DEF Ran, Rows, Counted
        <3>8. TerminalRows \subseteq Matching
            BY DEF TerminalRows
        <3> QED
            BY <1>1, <1>5, <3>1, <3>6, <3>7, <3>8 DEF ActivityInv
    <2> QED
        BY <2>1, <2>2
<1>7. CASE kind # "stats"
    BY <1>1, <1>3, <1>6, <1>7 DEF SnapshotInv, AgeInv
<1>8. CASE kind = "stats"
    <2>1. step' \in 1 .. 8
        BY <1>8, StatsStep
    <2>2. saw'["total_events"] = IF step' = 1 THEN visible ELSE saw["total_events"]
        BY <1>8, StatsStep
    <2>3. saw'["ingress_pending"] =
            IF step' = 5 THEN accepted \ visible ELSE saw["ingress_pending"]
        BY <1>8, StatsStep
    <2>4. saw'["oldest_ingress"] =
            IF step' = 8 THEN accepted \ visible ELSE saw["oldest_ingress"]
        BY <1>8, StatsStep
    <2>5. now' = IF step' = 4 THEN clock ELSE now
        BY <1>8, StatsStep
    <2>6. visible \subseteq accepted /\ clock \in Nat /\ MaxAge \in Nat
        BY StatsAssumption DEF TypeOK, Store!TypeOK
    <2>7. AgeInv'
        BY <1>1, <1>2, <1>8, <2>5, <2>6 DEF AgeInv, store
    <2>8. SnapshotInv'
        <3>1. began \subseteq accepted
            BY <1>2, <1>8 DEF AgeInv
        <3> QED
            BY <1>1, <1>2, <1>8, <2>1, <2>2, <2>3, <2>4, <2>6, <3>1 DEF SnapshotInv, store
    <2> QED
        BY <1>1, <1>3, <1>6, <2>7, <2>8
<1> QED
    BY <1>7, <1>8

LEMMA NextInv == IInv /\ [Next]_vars => IInv'
<1> SUFFICES ASSUME IInv, [Next]_vars PROVE IInv'
    OBVIOUS
<1>1. CASE UNCHANGED vars
    <2>1. TypeOK' /\ IdleInv'
        BY <1>1 DEF IInv, vars, store, request, TypeOK, Store!TypeOK, IdleInv
    <2> QED
        BY <1>1, <2>1, StoreStep DEF IInv, vars, store, TypeOK
<1>2. CASE Next
    BY <1>2, TickInv, AcceptInv, CommitInv, BeginInv, StatementInv, EndInv DEF Next
<1> QED
    BY <1>1, <1>2

\* The snapshots of a request fit the store, in every reachable state.
THEOREM Invariance == Spec => []IInv
BY InitInv, NextInv, PTL DEF Spec

\* Counts are of events, clocks and snapshots stay in their ranges (get_stats, job_stats).
THEOREM TypeCorrect == Spec => []TypeOK
BY Invariance, PTL DEF IInv

-----------------------------------------------------------------------------
(* Induction, by least counterexamples, and sums over finite sets.         *)

\* Every nonempty set of naturals has a least element.
LEMMA LeastElement ==
    ASSUME NEW T \in SUBSET Nat, T # {}
    PROVE  \E m \in T : \A n \in T : m <= n
<1> DEFINE R == OpToRel(<, Nat)
<1>1. \A m, n \in Nat : <<n, m>> \in R <=> n < m
    BY DEF OpToRel
<1>2. IsWellFoundedOn(R, Nat)
    BY NatLessThanWellFounded
<1> HIDE DEF R
<1>3. PICK m \in T : \A n \in T : ~ (<<n, m>> \in R)
    BY <1>2, WFMin
<1>4. \A n \in T : ~(n < m)
    BY <1>1, <1>3
<1> QED
    BY <1>4

LEMMA LeastNat ==
    ASSUME NEW T \in SUBSET Nat, T # {}
    PROVE  Min(T) \in T /\ \A n \in T : Min(T) <= n
<1>1. PICK m \in T : \A n \in T : m <= n
    BY LeastElement
<1> QED
    BY <1>1 DEF Min

\* A set of naturals with zero and all its successors holds them all.
LEMMA NatSetInduction ==
    ASSUME NEW T \in SUBSET Nat, 0 \in T, \A n \in T : n + 1 \in T
    PROVE  T = Nat
<1> SUFFICES ASSUME Nat \ T # {} PROVE FALSE
    OBVIOUS
<1>1. PICK m \in Nat \ T : \A n \in Nat \ T : m <= n
    BY LeastElement
<1>2. m - 1 \in Nat /\ m - 1 < m /\ (m - 1) + 1 = m
    BY <1>1
<1>3. m - 1 \in T
    BY <1>1, <1>2
<1>4. (m - 1) + 1 \in T
    BY <1>2, <1>3
<1> QED
    BY <1>1, <1>2, <1>4

One(s) == CHOOSE x \in s : TRUE

\* The recursion of MapThenSumSet: g serves for the smaller sets.
SumRule(counts, g) ==
    [s \in SUBSET DOMAIN counts |->
        IF s = {} THEN 0 ELSE counts[One(s)] + g[s \ {One(s)}]]

Sums(counts) == CHOOSE g : g = SumRule(counts, g)

LEMMA TotalIsSums == ASSUME NEW counts PROVE Total(counts) = Sums(counts)[DOMAIN counts]
BY DEF Total, MapThenSumSet, MapThenFoldSet, Sums, SumRule, One

\* There is a function of that kind: applied n times, the rule is right for all sets of
\* less than n elements.
LEMMA SumsExist ==
    ASSUME NEW D, IsFiniteSet(D), NEW counts \in [D -> Nat]
    PROVE  Sums(counts) = SumRule(counts, Sums(counts))
<1> DEFINE Upto(n) == {s \in SUBSET D : Cardinality(s) < n}
           Good == {n \in Nat : \E g \in [SUBSET D -> Int] :
                                    \A s \in Upto(n) : g[s] = SumRule(counts, g)[s]}
<1>1. \A s \in SUBSET D : IsFiniteSet(s) /\ Cardinality(s) \in Nat
                          /\ Cardinality(s) <= Cardinality(D)
    BY FS_Subset, FS_CardinalityType
<1>2. \A s \in SUBSET D : s # {} =>
        One(s) \in s /\ Cardinality(s \ {One(s)}) = Cardinality(s) - 1
    BY <1>1, FS_RemoveElement DEF One
<1>3. 0 \in Good
    <2>1. Upto(0) = {}
        BY <1>1
    <2>2. [s \in SUBSET D |-> 0] \in [SUBSET D -> Int]
        OBVIOUS
    <2> QED
        BY <2>1, <2>2
<1>4. ASSUME NEW n \in Good PROVE n + 1 \in Good
    <2>1. PICK g \in [SUBSET D -> Int] : \A s \in Upto(n) : g[s] = SumRule(counts, g)[s]
        OBVIOUS
    <2> DEFINE h == SumRule(counts, g)
    <2>2. h \in [SUBSET D -> Int]
        <3>1. \A s \in SUBSET D : s # {} => counts[One(s)] + g[s \ {One(s)}] \in Int
            BY <1>2
        <3> QED
            BY <3>1 DEF SumRule
    <2>3. ASSUME NEW s \in Upto(n + 1), s # {} PROVE h[s] = SumRule(counts, h)[s]
        <3>1. s \ {One(s)} \in Upto(n)
            BY <1>1, <1>2, <2>3
        <3>2. g[s \ {One(s)}] = h[s \ {One(s)}]
            BY <2>1, <3>1
        <3>3. h[s] = counts[One(s)] + g[s \ {One(s)}]
            BY <2>3 DEF SumRule
        <3>4. SumRule(counts, h)[s] = counts[One(s)] + h[s \ {One(s)}]
            <4> HIDE DEF h
            <4> QED BY <2>3 DEF SumRule
        <3> QED
            BY <3>2, <3>3, <3>4
    <2>4. h[{}] = SumRule(counts, h)[{}]
        BY DEF SumRule
    <2> HIDE DEF h
    <2>5. \A s \in Upto(n + 1) : h[s] = SumRule(counts, h)[s]
        BY <2>3, <2>4
    <2> QED
        BY <2>2, <2>5
<1>5. Cardinality(D) + 1 \in Good
    <2>1. Good \in SUBSET Nat
        OBVIOUS
    <2> HIDE DEF Good
    <2>2. Good = Nat
        BY <1>3, <1>4, <2>1, NatSetInduction
    <2> QED
        BY <1>1, <2>2
<1>6. PICK g \in [SUBSET D -> Int] :
        \A s \in Upto(Cardinality(D) + 1) : g[s] = SumRule(counts, g)[s]
    BY <1>5
<1>7. g = SumRule(counts, g)
    <2>1. \A s \in SUBSET D : s \in Upto(Cardinality(D) + 1)
        BY <1>1
    <2>2. \A s \in SUBSET D : g[s] = SumRule(counts, g)[s]
        BY <1>6, <2>1
    <2>3. DOMAIN g = SUBSET D /\ DOMAIN SumRule(counts, g) = SUBSET D
        BY DEF SumRule
    <2>4. g = [s \in SUBSET D |-> SumRule(counts, g)[s]]
        BY <2>2
    <2>5. SumRule(counts, g) = [s \in SUBSET D |-> SumRule(counts, g)[s]]
        BY DEF SumRule
    <2> QED
        BY <2>4, <2>5
<1> QED
    BY <1>7 DEF Sums

\* The sizes of the classes of a finite set add up to the size of the set.
LEMMA ClassesAddUp ==
    ASSUME NEW S, IsFiniteSet(S), NEW D, IsFiniteSet(D), NEW class \in [S -> D],
           NEW counts, counts = [c \in D |-> Cardinality({e \in S : class[e] = c})]
    PROVE  Total(counts) = Cardinality(S)
<1> DEFINE In(s) == {e \in S : class[e] \in s}
           T == Sums(counts)
           Good == {n \in Nat : \A s \in SUBSET D :
                        Cardinality(s) = n => T[s] = Cardinality(In(s))}
<1>1. \A s \in SUBSET D : IsFiniteSet(s) /\ Cardinality(s) \in Nat
    BY FS_Subset, FS_CardinalityType
<1>2. \A s \in SUBSET S : IsFiniteSet(s) /\ Cardinality(s) \in Nat
    BY FS_Subset, FS_CardinalityType
<1>3. counts \in [D -> Nat]
    BY <1>2
<1>4. T = SumRule(counts, T)
    BY <1>3, SumsExist
<1> HIDE DEF T
<1>5. \A s \in SUBSET D :
        T[s] = IF s = {} THEN 0 ELSE counts[One(s)] + T[s \ {One(s)}]
    BY <1>3, <1>4 DEF SumRule
<1>6. 0 \in Good
    <2>1. \A s \in SUBSET D : Cardinality(s) = 0 => s = {}
        BY <1>1, FS_EmptySet
    <2>2. In({}) = {} /\ Cardinality(In({})) = 0
        BY FS_EmptySet
    <2> QED
        BY <1>5, <2>1, <2>2
<1>7. ASSUME NEW n \in Good PROVE n + 1 \in Good
    <2> SUFFICES ASSUME NEW s \in SUBSET D, Cardinality(s) = n + 1
                 PROVE  T[s] = Cardinality(In(s))
        OBVIOUS
    <2> DEFINE x == One(s)
               rest == s \ {x}
    <2>1. s # {}
        <3>1. n \in Nat /\ Cardinality(s) # 0
            OBVIOUS
        <3> QED
            BY <1>1, <3>1, FS_EmptySet
    <2>2. x \in s
        BY <2>1 DEF One
    <2>3. Cardinality(rest) = n
        <3>1. IsFiniteSet(s) /\ n \in Nat
            BY <1>1
        <3>2. Cardinality(rest) = Cardinality(s) - 1
            BY <2>2, <3>1, FS_RemoveElement
        <3> QED
            BY <3>1, <3>2
    <2>4. T[rest] = Cardinality(In(rest))
        BY <2>3
    <2>5. T[s] = counts[x] + T[rest]
        BY <1>5, <2>1
    <2> HIDE DEF x
    <2>6. counts[x] = Cardinality(In({x}))
        <3>1. In({x}) = {e \in S : class[e] = x}
            OBVIOUS
        <3> QED
            BY <2>2, <3>1
    <2>7. In(s) = In({x}) \union In(rest) /\ In({x}) \intersect In(rest) = {}
        BY <2>2
    <2>8. In({x}) \in SUBSET S /\ In(rest) \in SUBSET S
        OBVIOUS
    <2> HIDE DEF In
    <2>9. Cardinality(In(s)) = Cardinality(In({x})) + Cardinality(In(rest))
        <3>1. /\ IsFiniteSet(In({x})) /\ IsFiniteSet(In(rest))
              /\ Cardinality(In({x})) \in Nat /\ Cardinality(In(rest)) \in Nat
            BY <1>2, <2>8
        <3>2. Cardinality(In(s)) = Cardinality(In({x})) + Cardinality(In(rest))
                                    - Cardinality(In({x}) \intersect In(rest))
            BY <2>7, <3>1, FS_Union
        <3>3. Cardinality(In({x}) \intersect In(rest)) = 0
            BY <2>7, FS_EmptySet
        <3> QED
            BY <3>1, <3>2, <3>3
    <2> QED
        BY <2>4, <2>5, <2>6, <2>9
<1>8. D \in SUBSET D /\ Cardinality(D) \in Good
    <2>1. Good \in SUBSET Nat
        OBVIOUS
    <2> HIDE DEF Good
    <2>2. Good = Nat
        BY <1>6, <1>7, <2>1, NatSetInduction
    <2> QED
        BY <1>1, <2>2
<1>9. T[D] = Cardinality(In(D))
    BY <1>8
<1>10. In(D) = S
    OBVIOUS
<1> QED
    BY <1>3, <1>9, <1>10, TotalIsSums DEF T

-----------------------------------------------------------------------------
(* What follows for the answers.                                           *)

\* What job_stats and task_stats count as active has no terminal row when the last
\* statement runs.
THEOREM Activity == Spec => ActiveIsActive
<1>1. ASSUME IInv, Statement, Answered', kind \in {"job", "task"}, NEW key \in active'
      PROVE  LET rows == {e \in Matching : Detail(e).key = key}
             IN  rows # {} /\ \A e \in rows : State(e) \notin TerminalStates[kind]
    <2>1. /\ kind' = kind /\ step' = step + 1 /\ step \in Nat
          /\ Ran(Statements[kind][step'])
        BY <1>1, StatementTypes DEF IInv
    <2>2. step' = 3
        BY <1>1, <2>1, Places DEF Answered
    <2>3. Statements[kind][step'] = "terminal"
        BY <1>1, <2>2, Places
    <2>4. saw \in [Counted -> SUBSET Events] /\ kind # Null
        BY <1>1 DEF IInv, TypeOK, Statement
    <2>5. saw'["terminal"] = TerminalRows /\ saw'["seen"] = saw["seen"]
        BY <2>1, <2>3, <2>4 DEF Ran, Rows, Counted
    <2>6. saw["seen"] \subseteq Matching
        BY <1>1, <2>4 DEF IInv, ActivityInv
    <2>7. PICK e \in saw["seen"] : Detail(e).key = key
        BY <1>1, <2>5 DEF active, Keys
    <2>8. \A d \in TerminalRows : Detail(d).key # key
        BY <1>1, <2>5 DEF active, Keys
    <2> QED
        BY <2>6, <2>7, <2>8 DEF TerminalRows
<1>2. IInv /\ [Next]_vars =>
        [ Statement /\ Answered' /\ kind \in {"job", "task"} =>
          \A key \in active' :
            LET rows == {e \in Matching : Detail(e).key = key}
            IN  rows # {} /\ \A e \in rows : State(e) \notin TerminalStates[kind] ]_vars
    BY <1>1
<1> QED
    BY <1>2, Invariance, PTL DEF Spec, ActiveIsActive

\* Every job that matched when the request came is counted.
THEOREM JobsCounted == Spec => []EveryJobCounted
<1>1. ASSUME IInv, Answered, kind \in {"job", "task"}
      PROVE  /\ {Detail(e).key : e \in began} \subseteq active \union Keys("terminal")
             /\ active \union Keys("terminal") \subseteq {Detail(e).key : e \in Matching}
    <2>1. step >= 2 /\ kind # Null
        BY <1>1, Places DEF Answered
    <2>2. began \subseteq saw["seen"] /\ saw["seen"] \subseteq Matching
          /\ saw["terminal"] \subseteq Matching
        BY <1>1, <2>1 DEF IInv, ActivityInv
    <2> QED
        BY <2>2 DEF active, Keys
<1>2. IInv => EveryJobCounted
    BY <1>1 DEF EveryJobCounted, Answers
<1> QED
    BY <1>2, Invariance, PTL

\* No event is counted twice by get_stats.
THEOREM CountsDisjoint == ASSUME IsFiniteSet(Events) PROVE Spec => []CountedOnce
<1>1. ASSUME IInv, Answers("stats") PROVE total_events + ingress_pending <= Cardinality(accepted)
    <2> DEFINE T == saw["total_events"]
               P == saw["ingress_pending"]
    <2>1. T \subseteq accepted /\ P \subseteq accepted /\ T \intersect P = {}
        BY <1>1 DEF Answers, Answered, IInv, SnapshotInv, TypeOK, Store!TypeOK
    <2>2. IsFiniteSet(accepted)
        BY <1>1, FS_Subset DEF IInv, TypeOK, Store!TypeOK
    <2>3. IsFiniteSet(T) /\ IsFiniteSet(P) /\ IsFiniteSet(T \intersect P)
        BY <2>1, <2>2, FS_Subset, FS_EmptySet
    <2>4. Cardinality(T \union P) = Cardinality(T) + Cardinality(P) - Cardinality(T \intersect P)
        BY <2>3, FS_Union
    <2>5. Cardinality(T \intersect P) = 0
        BY <2>1, FS_EmptySet
    <2>6. Cardinality(T \union P) <= Cardinality(accepted)
        BY <2>1, <2>2, FS_Subset
    <2>7. Cardinality(T) \in Nat /\ Cardinality(P) \in Nat
        BY <2>3, FS_CardinalityType
    <2> QED
        BY <2>4, <2>5, <2>6, <2>7 DEF total_events, ingress_pending, Count
<1>2. IInv => CountedOnce
    BY <1>1 DEF CountedOnce
<1> QED
    BY <1>2, Invariance, PTL

\* /health reports what is overdue, and nothing else.
THEOREM HealthSafety == Spec => []HealthTimely
<1>1. ASSUME IInv, Answers("stats")
      PROVE  /\ ~(began \subseteq visible) => health = "degraded"
             /\ health = "degraded" => \E e \in accepted : clock - AcceptedAt[e] > MaxAge
    <2> DEFINE O == saw["oldest_ingress"]
               S == {AcceptedAt[e] : e \in O}
               age == now - Min(S)
    <2>1. kind # Null /\ kind = "stats" /\ step = 8
        BY <1>1, Places DEF Answers, Answered
    <2>2. O \subseteq accepted /\ began \ visible \subseteq O
        BY <1>1, <2>1 DEF IInv, SnapshotInv
    <2>3. now \in Nat /\ now <= clock /\ \A e \in began : now - AcceptedAt[e] > MaxAge
        BY <1>1, <2>1 DEF IInv, AgeInv
    <2>4. accepted \subseteq Events /\ clock \in Nat /\ MaxAge \in Nat
          /\ \A e \in Events : AcceptedAt[e] \in Nat
        BY <1>1, StatsAssumption DEF IInv, TypeOK, Store!TypeOK
    <2>5. S \in SUBSET Nat
        BY <2>2, <2>4
    <2>6. CASE O = {}
        <3>1. oldest_age = 0
            BY <2>6 DEF oldest_age
        <3> QED
            BY <2>2, <2>4, <2>6, <3>1 DEF health
    <2>7. CASE O # {}
        <3>1. S # {}
            BY <2>7
        <3>2. Min(S) \in S /\ \A n \in S : Min(S) <= n
            <4> HIDE DEF S
            <4> QED
                BY <2>5, <3>1, LeastNat
        <3>3. PICK e \in O : Min(S) = AcceptedAt[e]
            BY <3>2
        <3>4. oldest_age = Max({0, age})
            BY <2>7 DEF oldest_age
        <3>5. age \in Int
            BY <2>3, <2>5, <3>2
        <3>6. oldest_age = IF age > 0 THEN age ELSE 0
            <4> HIDE DEF age
            <4>1. PICK m \in {0, age} : \A n \in {0, age} : m >= n
                BY <3>5
            <4>2. Max({0, age}) \in {0, age} /\ \A n \in {0, age} : Max({0, age}) >= n
                BY <4>1 DEF Max
            <4> QED
                BY <3>4, <3>5, <4>2
        <3>7. health = "degraded" <=> age > MaxAge
            BY <2>4, <3>5, <3>6 DEF health
        <3>8. ASSUME NEW d \in began \ visible PROVE age > MaxAge
            <4>1. AcceptedAt[d] \in S
                BY <2>2
            <4>2. Min(S) <= AcceptedAt[d] /\ Min(S) \in Nat
                BY <2>5, <3>2, <4>1
            <4>3. now - AcceptedAt[d] > MaxAge /\ AcceptedAt[d] \in Nat
                BY <2>3, <2>5, <4>1
            <4> HIDE DEF S
            <4> QED
                BY <2>3, <2>4, <4>2, <4>3
        <3>9. age > MaxAge => clock - AcceptedAt[e] > MaxAge
            BY <2>2, <2>3, <2>4, <3>3
        <3> QED
            BY <2>2, <3>7, <3>8, <3>9
    <2> QED
        BY <2>6, <2>7
<1>2. IInv => HealthTimely
    BY <1>1 DEF HealthTimely
<1> QED
    BY <1>2, Invariance, PTL

-----------------------------------------------------------------------------
(* Counts that are broken down.                                            *)

LEMMA CountInit == Init => CountInv
BY DEF Init, CountInv, BreakdownInv, NameInv, Counted

\* A step that leaves the request alone.
LEMMA CountStays ==
    ASSUME CountInv, UNCHANGED request, visible \subseteq visible'
    PROVE  CountInv'
BY DEF CountInv, BreakdownInv, NameInv, request

LEMMA CountStatement == IInv /\ CountInv /\ Statement => CountInv'
<1> SUFFICES ASSUME IInv, CountInv, Statement PROVE CountInv'
    OBVIOUS
<1>1. /\ kind \in DOMAIN Statements
      /\ step \in Nat /\ step' = step + 1 /\ step' <= Len(Statements[kind])
      /\ Ran(Statements[kind][step'])
      /\ UNCHANGED <<load, clock, store, kind, params, began>>
    BY StatementTypes DEF IInv
<1>2. saw \in [Counted -> SUBSET Events] /\ visible' = visible /\ kind # Null
    BY <1>1 DEF IInv, TypeOK, store, Statement
<1> DEFINE q == Statements[kind][step']
<1>3. q \in {"by_model", "by_tool"} => kind \in {"llm", "tool"}
    <2>1. CASE kind = "stats"
        <3>1. step' \in 1 .. 8
            BY <2>1, StatsStep DEF IInv
        <3> QED
            BY <2>1, <3>1, Places
    <2>2. CASE kind \in {"job", "task"}
        <3>1. Len(Statements[kind]) = 3
            BY <2>2, Places
        <3>2. step' \in 1 .. 3
            BY <1>1, <3>1
        <3>3. \A i \in 1 .. 3 : Statements[kind][i] \notin {"by_model", "by_tool"}
            BY <2>2, Places
        <3> QED
            BY <3>2, <3>3
    <2> QED
        BY <1>1, <2>1, <2>2, Places
<1>4. ASSUME NEW p \in {"by_model", "by_tool"}, NEW e \in saw'[p]
      PROVE  Domain(e) \in {"llm", "tool"}
    <2>1. CASE p # q
        <3>1. saw'[p] = saw[p]
            BY <1>1, <1>2, <2>1 DEF Ran, Counted
        <3> QED
            BY <3>1 DEF CountInv, NameInv
    <2>2. CASE p = q
        <3>1. saw'[p] = {d \in Matching : State(d) = CountedState[kind]}
            BY <1>1, <1>2, <2>2 DEF Ran, Rows, Counted
        <3> QED
            BY <1>3, <2>2, <3>1 DEF Matching, MatchingOf
    <2> QED
        BY <2>1, <2>2
<1>5. NameInv'
    BY <1>4 DEF NameInv
<1>6. BreakdownInv'
    <2>1. CASE kind # "stats"
        BY <1>1, <2>1 DEF BreakdownInv
    <2>2. CASE kind = "stats"
        <3>1. step' \in 1 .. 8
            BY <2>2, StatsStep DEF IInv
        <3>2. saw'["total_events"] = IF step' = 1 THEN visible ELSE saw["total_events"]
            BY <2>2, StatsStep DEF IInv
        <3>3. saw'["by_source"] = IF step' = 2 THEN visible ELSE saw["by_source"]
            BY <2>2, StatsStep DEF IInv
        <3>4. saw'["by_type"] = IF step' = 3 THEN visible ELSE saw["by_type"]
            BY <2>2, StatsStep DEF IInv
        <3> QED
            BY <1>1, <1>2, <2>2, <3>1, <3>2, <3>3, <3>4 DEF CountInv, BreakdownInv
    <2> QED
        BY <2>1, <2>2
<1> QED
    BY <1>5, <1>6 DEF CountInv

LEMMA CountNext == IInv /\ CountInv /\ [Next]_vars => CountInv'
<1> SUFFICES ASSUME IInv, CountInv, [Next]_vars PROVE CountInv'
    OBVIOUS
<1>1. CASE Tick \/ UNCHANGED vars
    BY <1>1, CountStays DEF Tick, vars, store
<1>2. ASSUME NEW e \in Events, Accept(e) \/ Commit(e) PROVE CountInv'
    BY <1>2, CountStays DEF Accept, Commit, Store!Accept, Store!Commit
<1>3. CASE Begin
    <2>1. saw' = saw /\ \A q \in Counted : saw[q] = {}
        BY <1>3 DEF Begin, IInv, IdleInv
    <2> QED
        BY <2>1 DEF CountInv, BreakdownInv, NameInv, Counted
<1>4. CASE End
    BY <1>4 DEF End, CountInv, BreakdownInv, NameInv, Counted
<1> QED
    BY <1>1, <1>2, <1>3, <1>4, CountStatement DEF Next

\* What is counted by source, type or name has been counted in the order of the code.
THEOREM CountInvariance == Spec => []CountInv
<1>1. Init => IInv
    BY InitInv
<1> QED
    BY Invariance, CountInit, CountNext, PTL DEF Spec

\* A breakdown by a column of events adds up to the rows it was made of.
LEMMA ByAddsUp ==
    ASSUME NEW q, IsFiniteSet(saw[q]), NEW column
    PROVE  Total(By(q, column)) = Cardinality(saw[q])
<1> DEFINE S == saw[q]
           D == {column[e] : e \in S}
           class == [e \in S |-> column[e]]
<1>1. class \in Surjection(S, D)
    BY DEF Surjection
<1>2. IsFiniteSet(D) /\ class \in [S -> D]
    BY <1>1, FS_Surjection
<1>3. By(q, column) = [c \in D |-> Cardinality({e \in S : class[e] = c})]
    <2>1. \A c \in D : {e \in S : class[e] = c} = {e \in S : column[e] = c}
        OBVIOUS
    <2> QED
        BY <2>1 DEF By
<1> HIDE DEF S, D, class
<1>4. IsFiniteSet(S)
    BY DEF S
<1>5. Total(By(q, column)) = Cardinality(S)
    BY <1>2, <1>3, <1>4, ClassesAddUp
<1> QED
    BY <1>5 DEF S

\* The breakdowns of get_stats are at least as recent as its total.
THEOREM Breakdowns == ASSUME IsFiniteSet(Events) PROVE Spec => []BreakdownsKeepUp
<1>1. ASSUME IInv, CountInv, Answers("stats")
      PROVE  total_events <= Total(by_source) /\ Total(by_source) <= Total(by_type)
    <2>1. kind # Null /\ kind = "stats" /\ step = 8
        BY <1>1, Places DEF Answers, Answered
    <2>2. saw["total_events"] \subseteq saw["by_source"] /\ saw["by_source"] \subseteq saw["by_type"]
        BY <1>1, <2>1 DEF CountInv, BreakdownInv
    <2>3. saw["by_type"] \in SUBSET Events
        BY <1>1 DEF IInv, TypeOK, Counted
    <2>4. IsFiniteSet(saw["by_type"])
        BY <2>3, FS_Subset
    <2>5. IsFiniteSet(saw["by_source"])
          /\ Cardinality(saw["by_source"]) <= Cardinality(saw["by_type"])
        BY <2>2, <2>4, FS_Subset
    <2>6. Cardinality(saw["total_events"]) <= Cardinality(saw["by_source"])
        BY <2>2, <2>5, FS_Subset
    <2>7. Total(by_type) = Cardinality(saw["by_type"])
        BY <2>4, ByAddsUp DEF by_type
    <2>8. Total(by_source) = Cardinality(saw["by_source"])
        BY <2>5, ByAddsUp DEF by_source
    <2> QED
        BY <2>5, <2>6, <2>7, <2>8 DEF total_events, Count
<1>2. IInv /\ CountInv => BreakdownsKeepUp
    BY <1>1 DEF BreakdownsKeepUp
<1> QED
    BY <1>2, Invariance, CountInvariance, PTL

\* Only NULL goes by "unknown", unless a client says so itself.
LEMMA NamesDiffer ==
    ASSUME CountInv, NEW q \in {"by_model", "by_tool"}, "unknown" \notin Keys(q),
           NEW k \in Keys(q), NEW l \in Keys(q), Name(k) = Name(l)
    PROVE  k = l
<1>1. ASSUME NEW e \in saw[q] PROVE Detail(e).key = Null \/ Detail(e).key # ""
    <2>1. Domain(e) \in {"llm", "tool"}
        BY DEF CountInv, NameInv
    <2> QED
        BY <2>1 DEF Detail, LLMDetail, ToolDetail, Get
<1>2. \A m \in Keys(q) : m = Null \/ m # ""
    BY <1>1 DEF Keys
<1> QED
    BY <1>2 DEF Name

\* llm_stats and tool_stats lose no row in the dict they group by name.
THEOREM NameTotals == ASSUME IsFiniteSet(Events) PROVE Spec => []NamesAddUp
<1>1. ASSUME IInv, CountInv, NEW q \in {"by_model", "by_tool"}, "unknown" \notin Keys(q)
      PROVE  Total(by_name(q)) = Count(q)
    <2> DEFINE S == saw[q]
               D == {Name(key) : key \in Keys(q)}
               class == [e \in S |-> Name(Detail(e).key)]
               KeyOf(n) == CHOOSE k \in Keys(q) : Name(k) = n
    <2>1. IsFiniteSet(S)
        <3>1. S \in SUBSET Events
            BY <1>1 DEF IInv, TypeOK, Counted
        <3> QED
            BY <3>1, FS_Subset
    <2>2. class \in Surjection(S, D)
        BY DEF Surjection, Keys
    <2>3. IsFiniteSet(D) /\ class \in [S -> D]
        BY <2>1, <2>2, FS_Surjection DEF Surjection
    <2>4. \A n \in D : KeyOf(n) \in Keys(q) /\ Name(KeyOf(n)) = n
        OBVIOUS
    <2>5. ASSUME NEW n \in D
          PROVE  {e \in S : class[e] = n} = {e \in S : Detail(e).key = KeyOf(n)}
        <3>1. \A e \in S : Detail(e).key \in Keys(q)
            BY DEF Keys
        <3>2. \A e \in S : Name(Detail(e).key) = n <=> Detail(e).key = KeyOf(n)
            <4> HIDE DEF KeyOf
            <4> QED
                BY <1>1, <2>4, <3>1, NamesDiffer
        <3> QED
            BY <3>2
    <2>6. by_name(q) = [n \in D |-> Cardinality({e \in S : class[e] = n})]
        <3>1. by_name(q) = [n \in D |-> Cardinality({e \in S : Detail(e).key = KeyOf(n)})]
            BY DEF by_name
        <3> HIDE DEF class, KeyOf, D, S
        <3> QED
            BY <2>5, <3>1
    <2> HIDE DEF class, D
    <2> QED
        BY <2>1, <2>3, <2>6, ClassesAddUp DEF Count
<1>2. IInv /\ CountInv => NamesAddUp
    BY <1>1 DEF NamesAddUp
<1> QED
    BY <1>2, Invariance, CountInvariance, PTL

-----------------------------------------------------------------------------
(* Prices.                                                                 *)

\* What is left of a model's name without its provider is a name.
LEMMA NormalizedName ==
    ASSUME NEW model \in Seq(STRING)
    PROVE  Normalized(model) \in Seq(STRING)
<1>1. CASE ~ \E i \in DOMAIN model : model[i] = "/"
    BY <1>1 DEF Normalized
<1>2. CASE \E i \in DOMAIN model : model[i] = "/"
    <2> DEFINE Slashes == {i \in DOMAIN model : model[i] = "/"}
               IsFirst(i) == model[i] = "/" /\ \A j \in 1 .. i - 1 : model[j] # "/"
               first == CHOOSE i \in DOMAIN model : IsFirst(i)
    <2>1. Slashes \in SUBSET Nat /\ Slashes # {} /\ DOMAIN model = 1 .. Len(model)
          /\ Len(model) \in Nat
        BY <1>2
    <2>2. PICK m \in Slashes : \A n \in Slashes : m <= n
        <3> HIDE DEF Slashes
        <3> QED
            BY <2>1, LeastElement
    <2>3. m \in DOMAIN model /\ IsFirst(m)
        BY <2>1, <2>2
    <2>4. first \in 1 .. Len(model)
        BY <2>1, <2>3
    <2>5. Normalized(model) = SubSeq(model, first + 1, Len(model))
        BY <1>2 DEF Normalized
    <2> HIDE DEF first
    <2> QED
        BY <2>1, <2>4, <2>5
<1> QED
    BY <1>1, <1>2

\* No row of the table hides a longer one that comes later.
LEMMA LongestFirst ==
    ASSUME NEW model \in Seq(STRING), NEW i \in DOMAIN Pricing, NEW j \in DOMAIN Pricing,
           i < j, Matches(model, i), Matches(model, j)
    PROVE  Len(Pricing[j]) <= Len(Pricing[i])
<1> DEFINE name == Normalized(model)
<1>1. name \in Seq(STRING)
    BY NormalizedName
<1>2. Matches(model, i) => Len(Pricing[i]) <= Len(name)
                           /\ SubSeq(name, 1, Len(Pricing[i])) = Pricing[i]
    BY DEF Matches
<1>3. Matches(model, j) => Len(Pricing[j]) <= Len(name)
                           /\ SubSeq(name, 1, Len(Pricing[j])) = Pricing[j]
    BY DEF Matches
<1> HIDE DEF name
<1>4. \A r \in DOMAIN Pricing : Len(Pricing[r]) \in 2 .. 4
    BY DEF Pricing
<1>5. \A k \in 1 .. Len(Pricing[i]) : Pricing[i][k] = name[k]
    BY <1>1, <1>2, <1>4
<1>6. \A k \in 1 .. Len(Pricing[j]) : Pricing[j][k] = name[k]
    BY <1>1, <1>3, <1>4
<1>7. \A k \in 1 .. 3 : k <= Len(Pricing[i]) /\ k <= Len(Pricing[j])
                            => Pricing[i][k] = Pricing[j][k]
    BY <1>4, <1>5, <1>6
<1>8. Pricing[i][2] = Pricing[j][2]
    BY <1>4, <1>7
<1>9. CASE i \in {1, 2, 3, 6, 8}
    <2> DEFINE mine == Len(Pricing[i])
               other == Len(Pricing[j])
    <2>1. mine = 4
        BY <1>9 DEF Pricing
    <2>2. other \in 2 .. 4
        BY <1>4
    <2>3. other <= mine
        <3> HIDE DEF mine, other
        <3> QED
            BY <2>1, <2>2
    <2> QED
        BY <2>3
<1>10. CASE i \in {4, 5}
    BY <1>8, <1>10 DEF Pricing
<1>11. CASE i = 7
    BY <1>7, <1>8, <1>11 DEF Pricing
<1> QED
    <2>1. i \in 1 .. 9 /\ j \in 1 .. 9
        BY DEF Pricing
    <2> QED
        BY <1>9, <1>10, <1>11, <2>1

\* The first row that matches is the most specific one, of any model.
THEOREM PriceIsMostSpecific == Spec => []MostSpecificPrice
<1>1. ASSUME NEW model \in Models, NEW i \in DOMAIN Pricing, Matches(model, i)
      PROVE  Len(Pricing[i]) <= Len(Pricing[PriceRow(model)])
    <2> DEFINE rows == {r \in DOMAIN Pricing : Matches(model, r)}
    <2>1. DOMAIN Pricing = 1 .. 9
        BY DEF Pricing
    <2>2. rows \in SUBSET Nat /\ rows # {} /\ i \in rows
        BY <1>1, <2>1
    <2>3. \A r \in rows : r \in DOMAIN Pricing /\ Matches(model, r)
        OBVIOUS
    <2>4. PriceRow(model) = CHOOSE r \in rows : \A s \in rows : r <= s
        BY <2>2 DEF PriceRow
    <2> HIDE DEF rows
    <2>5. PriceRow(model) \in rows /\ PriceRow(model) <= i
        <3>1. PICK r \in rows : \A s \in rows : r <= s
            BY <2>2, LeastElement
        <3>2. PriceRow(model) \in rows /\ \A s \in rows : PriceRow(model) <= s
            BY <2>4, <3>1
        <3> QED
            BY <2>2, <3>2
    <2>6. PICK row : row = PriceRow(model)
        OBVIOUS
    <2>7. row \in DOMAIN Pricing /\ Matches(model, row) /\ row <= i /\ row \in Nat /\ i \in Nat
        BY <2>2, <2>3, <2>5, <2>6
    <2>8. CASE row = i
        <3>1. Len(Pricing[i]) \in Int
            BY DEF Pricing
        <3> QED
            BY <2>6, <2>8, <3>1
    <2>9. CASE row # i
        <3>1. row < i
            BY <2>7, <2>9
        <3>2. model \in Seq(STRING)
            BY ModelsAssumption
        <3> QED
            BY <1>1, <2>6, <2>7, <3>1, <3>2, LongestFirst
    <2> QED
        BY <2>8, <2>9
<1>2. MostSpecificPrice
    BY <1>1 DEF MostSpecificPrice
<1> QED
    BY <1>2, PTL
=============================================================================
