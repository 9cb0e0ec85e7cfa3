------------------------------- MODULE Registry -------------------------------
(***************************************************************************)
(* POST /sources, POST and DELETE /webhooks, and the sources a committer   *)
(* registers on its own (api.py, store.py): check, then write, then        *)
(* answer, then COMMIT, by many requests at a time.                        *)
(*                                                                         *)
(* READ COMMITTED: a SELECT sees what is committed; a write waits for an   *)
(* uncommitted one of the same row, or of the same unique key, to end.     *)
(* The ORM's part is modelled as the code meets it: a row that a session   *)
(* has loaded keeps its loaded values, an UPDATE sets the columns that     *)
(* differ from them and fails if the row is gone, a DELETE does not.       *)
(***************************************************************************)
EXTENDS Integers, FiniteSets

CONSTANTS
    Urls,       \* keys of webhooks
    Sources,    \* keys of sources
    Posts,      \* POST /webhooks and POST /sources requests
    Deletes,    \* DELETE /webhooks/{id} requests
    Ensures,    \* _ensure_source calls, each in a committer's transaction
    KeyOf,      \* the url or source of each post and ensure
    Body,       \* what each of them asks for: a value for every column
    Loads,      \* sets of requests, one of which is sent in a behaviour
    NoRow,
    MaxFaults   \* bound: failures and crashes in one behaviour

Ids == Posts \union Ensures     \* a row goes by the request that inserted it
Keys == Urls \union Sources
Requests == Ids \union Deletes

Values == UNION {{Body[r][c] : c \in DOMAIN Body[r]} : r \in Ids}

\* A row may mix the columns of several bodies: see Updated.
Rows == UNION {[id : {r}, body : [DOMAIN Body[r] -> Values]] : r \in Ids}

ASSUME RegistryAssumption ==
    /\ Urls \intersect Sources = {}
    /\ KeyOf \in [Ids -> Keys] /\ \A e \in Ensures : KeyOf[e] \in Sources
    /\ Posts \intersect Ensures = {} /\ Deletes \intersect Ids = {}
    /\ \A r \in Ids : Body[r] = [c \in DOMAIN Body[r] |-> Body[r][c]]
    /\ \A q, r \in Ids : KeyOf[q] = KeyOf[r] => DOMAIN Body[q] = DOMAIN Body[r]
    /\ NoRow \notin Rows
    /\ Loads \subseteq SUBSET Requests
    /\ MaxFaults \in Nat

VARIABLES
    table,      \* the committed row of each key
    pc,         \* where each request is
    loaded,     \* the row in each request's session, as it was loaded
    existed,    \* whether the SELECT that decides the status found a row
    change,     \* what each request has flushed
    status,     \* what its client was told
    created,    \* auxiliary: rows whose INSERT was committed
    deleted,    \* auxiliary: rows whose DELETE was committed
    faults

vars == <<table, pc, loaded, existed, change, status, created, deleted, faults>>
session == <<loaded, existed>>
committed == <<table, created, deleted>>

Init ==
    /\ table = [k \in Keys |-> NoRow]
    /\ \E sent \in Loads :
        pc = [r \in Requests |->
                IF r \notin sent THEN "done"
                ELSE IF r \in Posts /\ KeyOf[r] \in Urls THEN "peek" ELSE "select"]
    /\ loaded = [r \in Requests |-> NoRow]
    /\ existed = [r \in Requests |-> FALSE]
    /\ change = [r \in Requests |-> "none"]
    /\ status = [r \in Requests |-> "none"]
    /\ created = {} /\ deleted = {}
    /\ faults = 0

Goto(r, label) == pc' = [pc EXCEPT ![r] = label]
Tell(r, code) == status' = [status EXCEPT ![r] = code]

InTable(id) == table[KeyOf[id]] # NoRow /\ table[KeyOf[id]].id = id

\* The row r writes, and its key.
RowOf(r) == IF loaded[r] = NoRow THEN r ELSE loaded[r].id
Target(r) == KeyOf[RowOf(r)]

\* Requests whose transaction holds an uncommitted write.
Writing == {q \in Requests : pc[q] \in {"flushed", "answered"} /\ change[q] # "none"}

\* Mutant: an INSERT does not wait for an uncommitted one.
KeyBusyNever(r) == r \notin Requests

KeyBusy(r) == \E q \in Writing \ {r} : Target(q) = Target(r)

RowBusy(r) == \E q \in Writing \ {r} : RowOf(q) = RowOf(r)

-----------------------------------------------------------------------------
(* The reads.                                                              *)

\* register_webhook asks first, for its status code only.
Peek(r) ==
    /\ pc[r] = "peek"
    /\ loaded' = [loaded EXCEPT ![r] = table[KeyOf[r]]]
    /\ existed' = [existed EXCEPT ![r] = table[KeyOf[r]] # NoRow]
    /\ Goto(r, "select")
    /\ UNCHANGED <<committed, change, status, faults>>

\* A SELECT that finds a row the session already has returns it as it was loaded.
Refreshed(r, row) ==
    IF loaded[r] # NoRow /\ row # NoRow /\ row.id = loaded[r].id THEN loaded[r] ELSE row

\* create_or_update_webhook and register_source look the key up; for a source this
\* decides the status too.  _ensure_source has nothing to do if it is there.
Select(r) ==
    /\ pc[r] = "select" /\ r \in Ids
    /\ LET row == table[KeyOf[r]] IN
       /\ loaded' = [loaded EXCEPT ![r] = Refreshed(r, row)]
       /\ existed' = IF KeyOf[r] \in Sources
                     THEN [existed EXCEPT ![r] = row # NoRow] ELSE existed
       /\ Goto(r, IF r \in Ensures /\ row # NoRow THEN "done" ELSE "write")
    /\ UNCHANGED <<committed, change, status, faults>>

\* delete_webhook: 404 for an id that is not in the table, be it deleted, not yet
\* committed or never given out.
SelectById(r) ==
    /\ pc[r] = "select" /\ r \in Deletes
    /\ \/ \E id \in {i \in Ids : KeyOf[i] \in Urls /\ InTable(i)} :
            /\ loaded' = [loaded EXCEPT ![r] = table[KeyOf[id]]]
            /\ Goto(r, "write")
            /\ UNCHANGED status
       \/ /\ Goto(r, "done")
          /\ Tell(r, "404")
          /\ UNCHANGED loaded
    /\ UNCHANGED <<committed, existed, change, faults>>

-----------------------------------------------------------------------------
(* The writes, each the flush of one session.                              *)

Flush(r, what) ==
    /\ change' = [change EXCEPT ![r] = what]
    /\ Goto(r, "flushed")
    /\ UNCHANGED <<committed, session, status, faults>>

\* The error is raised: get_session rolls back, the client is told 500.
Raise(r) ==
    /\ Goto(r, "done")
    /\ Tell(r, "500")
    /\ UNCHANGED <<committed, session, change, faults>>

\* Mutant: _ensure_source is an INSERT ... ON CONFLICT DO UPDATE.
InsertOrUpdate(r) ==
    /\ pc[r] = "write" /\ loaded[r] = NoRow
    /\ ~KeyBusy(r) /\ (table[KeyOf[r]] = NoRow \/ r \in Ensures)
    /\ Flush(r, "insert")

Insert(r) ==
    /\ pc[r] = "write" /\ loaded[r] = NoRow
    /\ ~KeyBusy(r) /\ table[KeyOf[r]] = NoRow
    /\ Flush(r, "insert")

\* Mutant: an uncommitted INSERT of the key is a conflict at once.
ConflictAtOnce(r) ==
    /\ pc[r] = "write" /\ loaded[r] = NoRow
    /\ KeyBusy(r) \/ table[KeyOf[r]] # NoRow
    /\ IF r \in Posts
       THEN Raise(r)
       ELSE Goto(r, "done") /\ UNCHANGED <<committed, session, change, status, faults>>

\* Mutant: after the IntegrityError the INSERT is tried again.
ConflictRetried(r) ==
    /\ pc[r] = "write" /\ loaded[r] = NoRow
    /\ ~KeyBusy(r) /\ table[KeyOf[r]] # NoRow
    /\ UNCHANGED vars

\* IntegrityError: swallowed by _ensure_source only.
Conflict(r) ==
    /\ pc[r] = "write" /\ loaded[r] = NoRow
    /\ ~KeyBusy(r) /\ table[KeyOf[r]] # NoRow
    /\ IF r \in Posts
       THEN Raise(r)
       ELSE Goto(r, "done") /\ UNCHANGED <<committed, session, change, status, faults>>

\* Columns whose new value differs from the loaded one.
Changed(r) == {c \in DOMAIN Body[r] : Body[r][c] # loaded[r].body[c]}

\* Mutant: nobody looks at the number of rows the UPDATE matched.
UpdateAnyway(r) ==
    /\ pc[r] = "write" /\ r \in Posts /\ loaded[r] # NoRow
    /\ ~RowBusy(r)
    /\ Flush(r, "update")

\* With nothing to set there is no UPDATE, and no lock.  An UPDATE of a row that is
\* gone raises a StaleDataError.
Update(r) ==
    /\ pc[r] = "write" /\ r \in Posts /\ loaded[r] # NoRow
    /\ IF Changed(r) = {} THEN Flush(r, "none")
       ELSE /\ ~RowBusy(r)
            /\ IF InTable(loaded[r].id) THEN Flush(r, "update") ELSE Raise(r)

\* A DELETE that matches no row draws only a warning, and locks nothing.
Delete(r) ==
    /\ pc[r] = "write" /\ r \in Deletes
    /\ ~RowBusy(r)
    /\ Flush(r, IF InTable(loaded[r].id) THEN "delete" ELSE "none")

-----------------------------------------------------------------------------
(* The answer, then the COMMIT.                                            *)

Code(r) == IF r \in Deletes THEN "204" ELSE IF existed[r] THEN "200" ELSE "201"

Answer(r) ==
    /\ pc[r] = "flushed"
    /\ IF r \in Ensures THEN UNCHANGED status ELSE Tell(r, Code(r))
    /\ Goto(r, "answered")
    /\ UNCHANGED <<committed, session, change, faults>>

\* Mutant: an UPDATE writes the whole document, with the changed columns alone.
UpdatedOnly(row, r) == [row EXCEPT !.body = [c \in Changed(r) |-> Body[r][c]]]

\* The row after r's UPDATE of the columns that changed; the others keep what they
\* are now, which need not be what r asked for.
Updated(row, r) ==
    [row EXCEPT !.body = [c \in DOMAIN row.body |->
        IF c \in Changed(r) THEN Body[r][c] ELSE row.body[c]]]

\* What r's transaction makes of the row of its key.
Written(r) ==
    LET row == table[Target(r)]
    IN  CASE change[r] = "insert" -> [id |-> r, body |-> Body[r]]
          [] change[r] # "insert" /\ ~InTable(RowOf(r)) -> row
          [] change[r] = "update" /\ InTable(RowOf(r)) -> Updated(row, r)
          [] change[r] = "delete" /\ InTable(RowOf(r)) -> NoRow

Commit(r) ==
    /\ pc[r] = "answered"
    /\ table' = IF change[r] = "none" THEN table ELSE [table EXCEPT ![Target(r)] = Written(r)]
    /\ created' = IF change[r] = "insert" THEN created \union {r} ELSE created
    /\ deleted' = IF change[r] = "delete" THEN deleted \union {RowOf(r)} ELSE deleted
    /\ Goto(r, "done")
    /\ UNCHANGED <<session, change, status, faults>>

\* A statement or the COMMIT fails, or a process dies with the requests it serves:
\* all is rolled back, and who was not answered yet is told 500 or nothing.
Fail(S) ==
    /\ faults < MaxFaults
    /\ faults' = faults + 1
    /\ pc' = [r \in Requests |-> IF r \in S THEN "done" ELSE pc[r]]
    /\ status' = [r \in Requests |->
                    IF r \in S /\ status[r] = "none" THEN "failed" ELSE status[r]]
    /\ UNCHANGED <<committed, session, change>>

Step(r) ==
    \/ Peek(r) \/ Select(r) \/ SelectById(r)
    \/ Insert(r) \/ Conflict(r) \/ Update(r) \/ Delete(r)
    \/ Answer(r) \/ Commit(r)

Finished == (\A r \in Requests : pc[r] = "done") /\ UNCHANGED vars

Next ==
    \/ \E r \in Requests : Step(r)
    \/ \E S \in (SUBSET {r \in Requests : pc[r] # "done"}) \ {{}} : Fail(S)
    \/ Finished

\* As in AcceptApi: handlers are run on, statements end once they wait for nobody.
Spec == Init /\ [][Next]_vars /\ \A r \in Requests : WF_vars(Step(r))

TypeOK ==
    /\ table \in [Keys -> Rows \union {NoRow}]
    /\ pc \in [Requests -> {"peek", "select", "write", "flushed", "answered", "done"}]
    /\ loaded \in [Requests -> Rows \union {NoRow}]
    /\ existed \in [Requests -> BOOLEAN]
    /\ change \in [Requests -> {"none", "insert", "update", "delete"}]
    /\ status \in [Requests -> {"none", "200", "201", "204", "404", "500", "failed"}]
    /\ deleted \subseteq created /\ created \subseteq Ids
    /\ faults \in 0 .. MaxFaults

-----------------------------------------------------------------------------
(* What makes it correct.                                                  *)

\* A row whose INSERT was committed stands, under the id it was answered with, until
\* a DELETE of that id is committed, and never comes back: of many clients and committers
\* that register one key at a time one creates its row, whatever the others are told, and
\* an UPDATE does not revive what was deleted.
StandsUntilDeleted ==
    {id \in Ids : InTable(id)} = created \ deleted

\* Whoever is refused without a fault lost to a write that took effect, never to one
\* that was rolled back: its key has been inserted by another, or its row deleted.
RefusedForAWinner ==
    \A r \in Posts :
        status[r] = "500" =>
            IF loaded[r] = NoRow
            THEN \E q \in created \ {r} : KeyOf[q] = KeyOf[r]
            ELSE loaded[r].id \in deleted

\* When a registration that has changed anything is committed, the columns it changed
\* are in the table, in the row its client was told of.
RegistrationLands ==
    [][\A r \in Posts :
        Commit(r) /\ change[r] # "none" =>
            LET row == table'[KeyOf[r]]
            IN  /\ row # NoRow /\ row.id = RowOf(r)
                /\ loaded[r] # NoRow =>
                      \A c \in Changed(r) : row.body[c] = Body[r][c]]_vars

\* A committer that finds a source missing never overwrites what a client registers
\* meanwhile: a source's row only changes by the COMMIT of a POST, once it is there.
AutoRegistrationKeeps ==
    [][\A k \in Sources :
        table[k] # NoRow /\ table'[k] # table[k] => \E r \in Posts : Commit(r)]_vars

\* Nobody waits for ever, whatever the others do with the same key.
EveryRequestEnds == \A r \in Requests : <>(pc[r] = "done")
=============================================================================
