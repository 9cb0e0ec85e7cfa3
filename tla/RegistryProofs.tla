---------------------------- MODULE RegistryProofs ----------------------------
(***************************************************************************)
(* The theorems about Registry, for any number of clients, committers and  *)
(* keys: what the unique keys and the row locks of the two tables come to. *)
(***************************************************************************)
EXTENDS Registry, TLAPS

\* A row lies under its own key, and was committed by a request that is over.
TableInv ==
    /\ \A k \in Keys : table[k] # NoRow => table[k].id \in Ids /\ KeyOf[table[k].id] = k
    /\ \A r \in created : pc[r] = "done"
    /\ StandsUntilDeleted

\* What a session has loaded was committed, and is what it asked for; who has not
\* written has changed nothing, who was not answered was told nothing.
SessionOf(r) ==
    /\ loaded[r] # NoRow =>
        /\ loaded[r].id \in created
        /\ r \in Ids => KeyOf[loaded[r].id] = KeyOf[r]
        /\ r \in Deletes => KeyOf[loaded[r].id] \in Urls
    /\ pc[r] = "peek" => r \in Posts
    /\ pc[r] \in {"peek", "select", "write"} => change[r] = "none"
    /\ r \in Deletes /\ pc[r] \in {"write", "flushed", "answered"} => loaded[r] # NoRow
    /\ r \in Ensures /\ pc[r] # "done" => loaded[r] = NoRow
    /\ pc[r] \in {"peek", "select", "write", "flushed"} => status[r] = "none"
    /\ status[r] = "500" => pc[r] = "done"

SessionInv == \A r \in Requests : SessionOf(r)

\* An INSERT has its key for itself, an UPDATE or DELETE its row.
WriteOf(r) ==
    /\ change[r] = "insert" => r \in Ids /\ loaded[r] = NoRow /\ table[KeyOf[r]] = NoRow
    /\ change[r] = "update" => r \in Posts /\ loaded[r] # NoRow /\ InTable(loaded[r].id)
    /\ change[r] = "delete" => r \in Deletes /\ loaded[r] # NoRow /\ InTable(loaded[r].id)

WriteInv ==
    /\ \A r \in Writing : WriteOf(r)
    /\ \A q, r \in Writing : Target(q) = Target(r) => q = r

\* Whoever is refused lost to a write that took effect.
RefusedOf(r) ==
    status[r] = "500" =>
        IF loaded[r] = NoRow
        THEN \E q \in created \ {r} : KeyOf[q] = KeyOf[r]
        ELSE loaded[r].id \in deleted

\* The invariant that makes the properties inductive.
IInv == TypeOK /\ TableInv /\ SessionInv /\ WriteInv /\ RefusedForAWinner

-----------------------------------------------------------------------------
(* The rows.                                                               *)

\* A row has the columns of its id.
LEMMA RowShape ==
    ASSUME NEW row \in Rows
    PROVE  /\ row.id \in Ids
           /\ row.body \in [DOMAIN Body[row.id] -> Values]
           /\ row = [id |-> row.id, body |-> row.body]
BY DEF Rows

\* A new row, and a row with other values, is a row.
LEMMA NewRow ==
    ASSUME NEW r \in Ids, NEW body \in [DOMAIN Body[r] -> Values]
    PROVE  [id |-> r, body |-> body] \in Rows
BY DEF Rows

\* The body of a request is one.
LEMMA BodyRow == \A r \in Ids : Body[r] \in [DOMAIN Body[r] -> Values]
<1> SUFFICES ASSUME NEW r \in Ids PROVE Body[r] \in [DOMAIN Body[r] -> Values]
    OBVIOUS
<1>1. \A c \in DOMAIN Body[r] : Body[r][c] \in Values
    BY DEF Values
<1> QED
    BY <1>1, RegistryAssumption

\* An UPDATE keeps the id and sets what has changed.
LEMMA UpdatedRow ==
    ASSUME NEW r \in Posts, NEW row \in Rows, loaded[r] \in Rows,
           KeyOf[row.id] = KeyOf[r]
    PROVE  /\ Updated(row, r) \in Rows
           /\ Updated(row, r).id = row.id
           /\ \A c \in Changed(r) : Updated(row, r).body[c] = Body[r][c]
<1> DEFINE body == [c \in DOMAIN row.body |->
                      IF c \in Changed(r) THEN Body[r][c] ELSE row.body[c]]
<1>1. r \in Ids /\ row.id \in Ids /\ row.body \in [DOMAIN Body[row.id] -> Values]
    BY RowShape DEF Ids
<1>2. DOMAIN row.body = DOMAIN Body[r] /\ DOMAIN Body[row.id] = DOMAIN Body[r]
    BY <1>1, RegistryAssumption
<1>3. Changed(r) \subseteq DOMAIN Body[r]
    BY DEF Changed
<1>4. \A c \in DOMAIN row.body :
        (IF c \in Changed(r) THEN Body[r][c] ELSE row.body[c]) \in Values
    BY <1>1, <1>2, <1>3, BodyRow
<1>5. body \in [DOMAIN Body[row.id] -> Values] /\ \A c \in Changed(r) : body[c] = Body[r][c]
    BY <1>2, <1>3, <1>4
<1>6. Updated(row, r) = [row EXCEPT !.body = body]
    BY DEF Updated
<1> HIDE DEF body
<1>7. Updated(row, r) = [id |-> row.id, body |-> body]
    BY <1>6, RowShape
<1> QED
    BY <1>1, <1>5, <1>7, NewRow

-----------------------------------------------------------------------------
(* The steps.                                                              *)

LEMMA InitInv == Init => IInv
<1> SUFFICES ASSUME Init PROVE IInv
    OBVIOUS
<1>1. TypeOK
    BY RegistryAssumption DEF Init, TypeOK
<1>2. /\ \A r \in Requests :
            /\ pc[r] \in {"peek", "select", "done"} /\ loaded[r] = NoRow
            /\ pc[r] = "peek" => r \in Posts
            /\ change[r] = "none" /\ status[r] = "none"
      /\ \A k \in Keys : table[k] = NoRow
      /\ created = {} /\ deleted = {}
    BY DEF Init
<1>3. TableInv
    BY <1>2, RegistryAssumption DEF TableInv, StandsUntilDeleted, InTable
<1>4. SessionInv
    BY <1>2 DEF SessionInv, SessionOf
<1>5. WriteInv
    BY <1>2 DEF WriteInv, Writing
<1>6. RefusedForAWinner
    BY <1>2 DEF RefusedForAWinner, Requests, Ids
<1> QED
    BY <1>1, <1>3, <1>4, <1>5, <1>6 DEF IInv

\* A step of one request that leaves the tables alone keeps the invariant if it keeps
\* the request's own part of it and takes no row or key another writes.
LEMMA LocalStep ==
    ASSUME IInv, NEW r \in Requests, pc[r] # "done",
           UNCHANGED committed, TypeOK',
           \A q \in Requests \ {r} :
               /\ pc'[q] = pc[q] /\ loaded'[q] = loaded[q]
               /\ change'[q] = change[q] /\ status'[q] = status[q],
           SessionOf(r)', RefusedOf(r)',
           r \in Writing' =>
               /\ WriteOf(r)'
               /\ \A q \in Writing \ {r} : Target(q) # Target(r)'
    PROVE  IInv'
<1> USE DEF IInv
<1>1. TableInv'
  <2>1. \A q \in created' : q # r /\ q \in Requests
      BY DEF TableInv, TypeOK, committed, Requests
  <2> QED
      BY <2>1 DEF TableInv, StandsUntilDeleted, InTable, committed
<1>2. SessionInv'
    BY DEF SessionInv, SessionOf, committed
<1>3. \A q \in Writing' \ {r} : q \in Writing /\ Target(q)' = Target(q)
    BY DEF Writing, Target, RowOf
<1>4. WriteInv'
  <2>1. ASSUME NEW q \in Writing' \ {r}
        PROVE  WriteOf(q)'
      BY <1>3 DEF WriteInv, WriteOf, InTable, committed, Writing
  <2> QED
      BY <1>3, <2>1 DEF WriteInv
<1>5. RefusedForAWinner'
    BY DEF RefusedForAWinner, RefusedOf, committed, Requests, Ids
<1> QED
    BY <1>1, <1>2, <1>4, <1>5

\* What is in the table was created and not deleted.
LEMMA Found ==
    ASSUME IInv, NEW k \in Keys, table[k] # NoRow
    PROVE  /\ table[k] \in Rows /\ table[k].id \in created /\ table[k].id \notin deleted
           /\ KeyOf[table[k].id] = k
<1>1. table[k].id \in Ids /\ KeyOf[table[k].id] = k
    BY DEF IInv, TableInv
<1>2. InTable(table[k].id)
    BY <1>1 DEF InTable
<1> QED
    BY <1>1, <1>2 DEF IInv, TypeOK, TableInv, StandsUntilDeleted

\* A row that was deleted is no longer there; one that was created and is not there
\* was deleted.
LEMMA Gone ==
    ASSUME IInv, NEW id \in created, ~InTable(id)
    PROVE  id \in deleted
BY DEF IInv, TypeOK, TableInv, StandsUntilDeleted

\* The reads.
LEMMA ReadSteps ==
    ASSUME IInv, NEW r \in Requests, Peek(r) \/ Select(r) \/ SelectById(r)
    PROVE  IInv'
<1> USE DEF IInv
<1>1. /\ pc[r] \in {"peek", "select"} /\ SessionOf(r)
      /\ change[r] = "none" /\ status[r] = "none"
    BY DEF Peek, Select, SelectById, SessionInv, SessionOf
<1>2. /\ r \in Ids => KeyOf[r] \in Keys /\ r \notin Deletes
      /\ pc[r] = "peek" => r \in Ids /\ r \notin Ensures
    BY <1>1, RegistryAssumption DEF SessionOf, Ids
<1>3. PICK row \in Rows \union {NoRow} :
        /\ loaded' = [loaded EXCEPT ![r] = row]
        /\ row # NoRow =>
             /\ row.id \in created
             /\ r \in Ids => KeyOf[row.id] = KeyOf[r]
             /\ r \in Deletes => KeyOf[row.id] \in Urls
        /\ pc' \in {[pc EXCEPT ![r] = label] : label \in {"select", "write", "done"}}
        /\ r \in Deletes /\ pc'[r] = "write" => row # NoRow
        /\ r \in Ensures /\ pc'[r] # "done" => row = NoRow
        /\ existed' \in [Requests -> BOOLEAN]
        /\ UNCHANGED <<committed, change, faults>>
        /\ status' \in {status, [status EXCEPT ![r] = "404"]}
        /\ status' # status => pc'[r] = "done"
  <2>1. CASE Peek(r)
    <3>1. table[KeyOf[r]] \in Rows \union {NoRow}
        BY <1>2, <2>1 DEF Peek, TypeOK
    <3>2. table[KeyOf[r]] # NoRow => table[KeyOf[r]].id \in created
                                    /\ KeyOf[table[KeyOf[r]].id] = KeyOf[r]
        BY <1>2, <2>1, Found DEF Peek
    <3> QED
        BY <1>2, <2>1, <3>1, <3>2 DEF Peek, Goto, TypeOK
  <2>2. CASE Select(r)
    <3> DEFINE found == table[KeyOf[r]]
               row == Refreshed(r, found)
    <3>1. r \in Ids /\ found \in Rows \union {NoRow}
        BY <1>2, <2>2 DEF Select, TypeOK
    <3>2. found # NoRow => found.id \in created /\ KeyOf[found.id] = KeyOf[r]
        BY <1>2, <2>2, Found DEF Select
    <3>3. /\ row \in {found, loaded[r]} /\ (found = NoRow => row = NoRow)
          /\ row = loaded[r] /\ row # NoRow => loaded[r] \in Rows
        BY <3>1 DEF Refreshed, TypeOK
    <3>4. row \in Rows \union {NoRow}
        BY <3>1, <3>3
    <3>5. row # NoRow => row.id \in created /\ KeyOf[row.id] = KeyOf[r]
        BY <1>1, <3>1, <3>2, <3>3 DEF SessionOf
    <3>6. /\ loaded' = [loaded EXCEPT ![r] = row]
          /\ pc' = [pc EXCEPT ![r] = IF r \in Ensures /\ found # NoRow THEN "done" ELSE "write"]
          /\ existed' \in [Requests -> BOOLEAN]
          /\ UNCHANGED <<committed, change, status, faults>>
        BY <2>2 DEF Select, Goto, TypeOK
    <3> HIDE DEF row, found
    <3>7. r \in Ensures /\ pc'[r] # "done" => row = NoRow
        BY <3>3, <3>6 DEF TypeOK
    <3> QED
        BY <1>2, <3>1, <3>4, <3>5, <3>6, <3>7
  <2>3. CASE SelectById(r)
    <3>1. r \in Deletes /\ r \notin Ids /\ r \notin Ensures
        BY <1>2, <2>3 DEF SelectById, Ids
    <3>2. CASE \E id \in {i \in Ids : KeyOf[i] \in Urls /\ InTable(i)} :
                 /\ loaded' = [loaded EXCEPT ![r] = table[KeyOf[id]]]
                 /\ Goto(r, "write")
                 /\ UNCHANGED status
      <4>1. PICK id \in Ids : /\ KeyOf[id] \in Urls /\ InTable(id)
                              /\ loaded' = [loaded EXCEPT ![r] = table[KeyOf[id]]]
                              /\ Goto(r, "write")
                              /\ UNCHANGED status
          BY <3>2
      <4>2. /\ table[KeyOf[id]] \in Rows /\ table[KeyOf[id]].id \in created
            /\ table[KeyOf[id]] # NoRow
            /\ KeyOf[table[KeyOf[id]].id] \in Urls
          BY <4>1, Found, RegistryAssumption DEF InTable
      <4> QED
          BY <2>3, <3>1, <4>1, <4>2, ZenonT(40) DEF SelectById, Goto, TypeOK
    <3>3. CASE /\ Goto(r, "done")
               /\ Tell(r, "404")
               /\ UNCHANGED loaded
      <4>1. loaded' = [loaded EXCEPT ![r] = loaded[r]] /\ loaded[r] \in Rows \union {NoRow}
          BY <3>3 DEF TypeOK
      <4> QED
          BY <1>1, <2>3, <3>1, <3>3, <4>1 DEF SelectById, Goto, Tell, TypeOK, SessionOf
    <3> QED
        BY <2>3, <3>2, <3>3 DEF SelectById
  <2> QED
      BY <2>1, <2>2, <2>3
<1>4. /\ UNCHANGED <<table, created, deleted, change, faults>> /\ UNCHANGED committed
      /\ loaded'[r] = row /\ existed' \in [Requests -> BOOLEAN]
      /\ pc'[r] \in {"select", "write", "done"}
      /\ status'[r] \in {"none", "404"}
      /\ status'[r] = "404" => pc'[r] = "done"
    BY <1>1, <1>3 DEF TypeOK, committed
<1>5. /\ pc' \in [Requests -> {"peek", "select", "write", "flushed", "answered", "done"}]
      /\ status' \in [Requests -> {"none", "200", "201", "204", "404", "500", "failed"}]
      /\ loaded' \in [Requests -> Rows \union {NoRow}]
    BY <1>3 DEF TypeOK
<1>6. TypeOK'
    BY <1>4, <1>5 DEF TypeOK
<1>7. \A q \in Requests \ {r} :
        /\ pc'[q] = pc[q] /\ loaded'[q] = loaded[q]
        /\ change'[q] = change[q] /\ status'[q] = status[q]
    BY <1>3 DEF TypeOK
<1>8. SessionOf(r)'
    BY <1>1, <1>3, <1>4 DEF SessionOf
<1>9. RefusedOf(r)' /\ r \notin Writing'
    BY <1>1, <1>4 DEF RefusedOf, Writing
<1> QED
    BY <1>1, <1>4, <1>6, <1>7, <1>8, <1>9, LocalStep

\* A flush, the answer after it, or an error.
LEMMA OwnSteps ==
    ASSUME IInv, NEW r \in Requests, pc[r] \in {"write", "flushed"},
           NEW label \in {"flushed", "answered", "done"}, Goto(r, label),
           NEW what \in {"none", "insert", "update", "delete"},
           change' = [change EXCEPT ![r] = what],
           NEW code \in {"none", "200", "201", "204", "500"},
           status' = [status EXCEPT ![r] = code],
           label = "flushed" => code = "none",
           code = "500" => label = "done" /\ RefusedOf(r)',
           UNCHANGED <<committed, session, faults>>,
           label # "done" /\ what # "none" =>
               /\ WriteOf(r)'
               /\ \A q \in Writing \ {r} : Target(q) # Target(r)
    PROVE  IInv'
<1> USE DEF IInv
<1>1. SessionOf(r)
    BY DEF SessionInv
<1>2. TypeOK'
    BY DEF TypeOK, Goto, committed, session
<1>3. /\ pc'[r] = label /\ change'[r] = what /\ status'[r] = code
      /\ loaded' = loaded /\ created' = created
      /\ \A q \in Requests \ {r} :
            /\ pc'[q] = pc[q] /\ loaded'[q] = loaded[q]
            /\ change'[q] = change[q] /\ status'[q] = status[q]
    BY DEF TypeOK, Goto, committed, session
<1>4. SessionOf(r)'
    BY <1>1, <1>3 DEF SessionOf
<1>5. RefusedOf(r)'
    BY <1>3 DEF RefusedOf
<1>6. Target(r)' = Target(r)
    BY <1>3 DEF Target, RowOf
<1>7. r \in Writing' =>
        /\ WriteOf(r)'
        /\ \A q \in Writing \ {r} : Target(q) # Target(r)'
    BY <1>3, <1>6 DEF Writing
<1> QED
    BY <1>2, <1>3, <1>4, <1>5, <1>7, LocalStep

\* A request that inserts: the key is free, and nobody else is about to write it.
LEMMA InsertStep ==
    ASSUME IInv, NEW r \in Requests, Insert(r)
    PROVE  IInv'
<1>1. SessionOf(r) /\ pc[r] = "write" /\ loaded[r] = NoRow
    BY DEF IInv, SessionInv, Insert
<1>2. r \in Ids /\ status[r] = "none"
    BY <1>1 DEF SessionOf, Requests
<1>3. /\ Goto(r, "flushed") /\ change' = [change EXCEPT ![r] = "insert"]
      /\ UNCHANGED <<committed, session, faults>>
      /\ status' = [status EXCEPT ![r] = "none"]
    BY <1>2 DEF Insert, Flush, IInv, TypeOK
<1>4. WriteOf(r)'
    BY <1>1, <1>2, <1>3 DEF Insert, WriteOf, committed, session, IInv, TypeOK
<1>5. \A q \in Writing \ {r} : Target(q) # Target(r)
    BY DEF Insert, KeyBusy
<1> QED
    BY <1>1, <1>3, <1>4, <1>5, OwnSteps

\* A request that loses a race for its key: the winner has committed.
LEMMA ConflictStep ==
    ASSUME IInv, NEW r \in Requests, Conflict(r)
    PROVE  IInv'
<1>1. SessionOf(r) /\ pc[r] = "write" /\ loaded[r] = NoRow
    BY DEF IInv, SessionInv, Conflict
<1>2. r \in Ids /\ status[r] = "none" /\ change[r] = "none" /\ KeyOf[r] \in Keys
    BY <1>1, RegistryAssumption DEF SessionOf, Requests
<1>3. r \notin created
    BY <1>1 DEF IInv, TableInv
<1>4. /\ Goto(r, "done") /\ change' = [change EXCEPT ![r] = "none"]
      /\ UNCHANGED <<committed, session, faults>>
      /\ \E code \in {"none", "500"} : status' = [status EXCEPT ![r] = code]
    BY <1>2 DEF Conflict, Raise, Tell, IInv, TypeOK
<1>5. RefusedOf(r)'
  <2>1. table[KeyOf[r]].id \in created /\ KeyOf[table[KeyOf[r]].id] = KeyOf[r]
      BY <1>2, Found DEF Conflict
  <2> QED
      BY <1>1, <1>3, <1>4, <2>1 DEF RefusedOf, committed, session
<1> QED
    BY <1>1, <1>4, <1>5, OwnSteps

\* A request that takes a row for itself: nobody else is about to write it, or to insert
\* its key.
LEMMA RowTaken ==
    ASSUME IInv, NEW r \in Requests, loaded[r] # NoRow, InTable(loaded[r].id), ~RowBusy(r)
    PROVE  \A q \in Writing \ {r} : Target(q) # Target(r)
<1> SUFFICES ASSUME NEW q \in Writing \ {r}, Target(q) = Target(r)
             PROVE  FALSE
    OBVIOUS
<1>1. WriteOf(q) /\ change[q] \in {"insert", "update", "delete"}
    BY DEF IInv, WriteInv, Writing, TypeOK
<1>2. RowOf(r) = loaded[r].id
    BY DEF RowOf
<1>3. CASE change[q] = "insert"
    BY <1>1, <1>2, <1>3 DEF WriteOf, Target, RowOf, InTable
<1>4. CASE change[q] \in {"update", "delete"}
  <2>1. RowOf(q) = loaded[q].id /\ InTable(loaded[q].id)
      BY <1>1, <1>4 DEF WriteOf, RowOf
  <2> QED
      BY <1>2, <2>1 DEF Target, InTable, RowBusy
<1> QED
    BY <1>1, <1>3, <1>4

LEMMA UpdateStep ==
    ASSUME IInv, NEW r \in Requests, Update(r)
    PROVE  IInv'
<1>1. SessionOf(r) /\ pc[r] = "write" /\ loaded[r] # NoRow /\ r \in Posts
    BY DEF IInv, SessionInv, Update
<1>2. status[r] = "none" /\ change[r] = "none" /\ loaded[r].id \in created
    BY <1>1 DEF SessionOf
<1>3. status = [status EXCEPT ![r] = "none"] /\ change = [change EXCEPT ![r] = "none"]
    BY <1>2 DEF IInv, TypeOK
<1>4. CASE Flush(r, "none")
    BY <1>1, <1>3, <1>4, OwnSteps DEF Flush
<1>5. CASE Flush(r, "update") /\ InTable(loaded[r].id) /\ ~RowBusy(r)
  <2>1. WriteOf(r)'
      BY <1>1, <1>5 DEF Flush, WriteOf, InTable, committed, session, IInv, TypeOK
  <2>2. \A q \in Writing \ {r} : Target(q) # Target(r)
      BY <1>1, <1>5, RowTaken
  <2> QED
      BY <1>1, <1>3, <1>5, <2>1, <2>2, OwnSteps DEF Flush
<1>6. CASE Raise(r) /\ ~InTable(loaded[r].id)
  <2>1. loaded[r].id \in deleted
      BY <1>2, <1>6, Gone
  <2>2. RefusedOf(r)'
      BY <1>1, <1>6, <2>1 DEF RefusedOf, Raise, committed, session
  <2> QED
      BY <1>1, <1>3, <1>6, <2>2, OwnSteps DEF Raise, Tell
<1> QED
    BY <1>4, <1>5, <1>6 DEF Update

LEMMA DeleteStep ==
    ASSUME IInv, NEW r \in Requests, Delete(r)
    PROVE  IInv'
<1>1. SessionOf(r) /\ pc[r] = "write" /\ r \in Deletes
    BY DEF IInv, SessionInv, Delete
<1>2. status[r] = "none" /\ change[r] = "none" /\ loaded[r] # NoRow
    BY <1>1 DEF SessionOf
<1>3. status = [status EXCEPT ![r] = "none"]
    BY <1>2 DEF IInv, TypeOK
<1>4. CASE InTable(loaded[r].id)
  <2>1. Flush(r, "delete") /\ ~RowBusy(r)
      BY <1>4 DEF Delete
  <2>2. WriteOf(r)'
      BY <1>1, <1>2, <1>4, <2>1 DEF Flush, WriteOf, InTable, committed, session, IInv, TypeOK
  <2>3. \A q \in Writing \ {r} : Target(q) # Target(r)
      BY <1>2, <1>4, <2>1, RowTaken
  <2> QED
      BY <1>1, <1>3, <2>1, <2>2, <2>3, OwnSteps DEF Flush
<1>5. CASE ~InTable(loaded[r].id)
    BY <1>1, <1>3, <1>5, OwnSteps DEF Delete, Flush
<1> QED
    BY <1>4, <1>5

LEMMA AnswerStep ==
    ASSUME IInv, NEW r \in Requests, Answer(r)
    PROVE  IInv'
<1>1. SessionOf(r) /\ pc[r] = "flushed"
    BY DEF IInv, SessionInv, Answer
<1>2. status[r] = "none" /\ change[r] \in {"none", "insert", "update", "delete"}
    BY <1>1 DEF SessionOf, IInv, TypeOK
<1>3. change = [change EXCEPT ![r] = change[r]]
    BY DEF IInv, TypeOK
<1>4. PICK code \in {"none", "200", "201", "204"} : status' = [status EXCEPT ![r] = code]
    BY <1>2 DEF Answer, Tell, Code, IInv, TypeOK
<1>5. change[r] # "none" =>
        WriteOf(r)' /\ \A q \in Writing \ {r} : Target(q) # Target(r)
  <2>1. ASSUME change[r] # "none" PROVE r \in Writing
      BY <1>1, <2>1 DEF Writing
  <2> QED
      BY <2>1 DEF IInv, WriteInv, WriteOf, InTable, Answer, committed, session
<1> QED
    BY <1>1, <1>2, <1>3, <1>4, <1>5, OwnSteps DEF Answer

\* What a COMMIT leaves under the key it writes, which nobody else writes.
LEMMA CommitRow ==
    ASSUME IInv, NEW r \in Writing, Commit(r)
    PROVE  /\ r \in Requests /\ Target(r) \in Keys
           /\ table' = [table EXCEPT ![Target(r)] = Written(r)]
           /\ \/ /\ change[r] = "insert" /\ r \in Ids /\ loaded[r] = NoRow
                 /\ table[KeyOf[r]] = NoRow /\ r \notin created
                 /\ Written(r) \in Rows /\ Written(r).id = r /\ RowOf(r) = r
                 /\ created' = created \union {r} /\ deleted' = deleted
              \/ /\ change[r] = "update" /\ r \in Posts /\ loaded[r] # NoRow
                 /\ InTable(RowOf(r)) /\ RowOf(r) \in Ids /\ Target(r) = KeyOf[r]
                 /\ Written(r) \in Rows /\ Written(r).id = RowOf(r)
                 /\ \A c \in Changed(r) : Written(r).body[c] = Body[r][c]
                 /\ created' = created /\ deleted' = deleted
              \/ /\ change[r] = "delete" /\ r \in Deletes /\ Target(r) \in Urls
                 /\ InTable(RowOf(r)) /\ RowOf(r) \in created
                 /\ Written(r) = NoRow
                 /\ created' = created /\ deleted' = deleted \union {RowOf(r)}
<1> USE DEF IInv
<1>1. /\ r \in Requests /\ pc[r] = "answered" /\ SessionOf(r) /\ WriteOf(r)
      /\ change[r] \in {"insert", "update", "delete"}
    BY DEF Writing, Commit, TypeOK, SessionInv, WriteInv
<1>2. table' = [table EXCEPT ![Target(r)] = Written(r)]
    BY <1>1 DEF Commit
<1>3. CASE change[r] = "insert"
  <2>1. r \in Ids /\ loaded[r] = NoRow /\ table[KeyOf[r]] = NoRow
      BY <1>1, <1>3 DEF WriteOf
  <2>2. RowOf(r) = r /\ Target(r) = KeyOf[r]
      BY <2>1 DEF RowOf, Target
  <2>3. Written(r) = [id |-> r, body |-> Body[r]]
      BY <1>3 DEF Written
  <2>4. Written(r) \in Rows /\ Written(r).id = r
      BY <2>1, <2>3, BodyRow, NewRow
  <2>5. r \notin created
      BY <1>1 DEF TableInv
  <2> QED
      BY <1>1, <1>2, <1>3, <2>1, <2>2, <2>4, <2>5, RegistryAssumption DEF Commit
<1>4. CASE change[r] = "update"
  <2>1. r \in Posts /\ loaded[r] # NoRow /\ InTable(RowOf(r)) /\ RowOf(r) = loaded[r].id
      BY <1>1, <1>4 DEF WriteOf, RowOf
  <2>2. /\ r \in Ids /\ Target(r) = KeyOf[r] /\ Target(r) \in Keys
        /\ RowOf(r) \in Ids /\ loaded[r] \in Rows
      BY <1>1, <2>1, RegistryAssumption DEF SessionOf, Target, Ids, TypeOK
  <2>3. /\ table[Target(r)] \in Rows /\ table[Target(r)].id = RowOf(r)
        /\ KeyOf[table[Target(r)].id] = KeyOf[r]
      BY <2>1, <2>2 DEF InTable, Target, TypeOK
  <2>4. Written(r) = Updated(table[Target(r)], r)
      BY <1>4, <2>1 DEF Written
  <2>5. /\ Written(r) \in Rows /\ Written(r).id = RowOf(r)
        /\ \A c \in Changed(r) : Written(r).body[c] = Body[r][c]
      BY <2>1, <2>2, <2>3, <2>4, UpdatedRow
  <2> QED
      BY <1>1, <1>2, <1>4, <2>1, <2>2, <2>5 DEF Commit
<1>5. CASE change[r] = "delete"
  <2>1. r \in Deletes /\ loaded[r] # NoRow /\ InTable(RowOf(r)) /\ RowOf(r) = loaded[r].id
      BY <1>1, <1>5 DEF WriteOf, RowOf
  <2>2. Target(r) \in Urls /\ RowOf(r) \in created
      BY <1>1, <2>1 DEF SessionOf, Target
  <2>3. Written(r) = NoRow
      BY <1>5, <2>1 DEF Written
  <2> QED
      BY <1>1, <1>2, <1>5, <2>1, <2>2, <2>3 DEF Commit, Keys
<1> QED
    BY <1>1, <1>3, <1>4, <1>5

LEMMA CommitStep ==
    ASSUME IInv, NEW r \in Requests, Commit(r)
    PROVE  IInv'
<1> USE DEF IInv
<1>1. /\ pc[r] = "answered" /\ pc' = [pc EXCEPT ![r] = "done"]
      /\ UNCHANGED <<session, change, status, faults>>
    BY DEF Commit, Goto
<1>2. /\ loaded' = loaded /\ change' = change /\ status' = status /\ pc'[r] = "done"
      /\ \A q \in Requests \ {r} : pc'[q] = pc[q]
    BY <1>1 DEF TypeOK, session
<1>3. SessionOf(r) /\ status[r] # "500" /\ r \notin Writing'
    BY <1>1, <1>2 DEF SessionInv, SessionOf, Writing
<1>4. CASE change[r] = "none"
  <2>1. UNCHANGED committed
      BY <1>4 DEF Commit, committed
  <2>2. TypeOK'
      BY <1>1, <2>1 DEF TypeOK, committed, session
  <2>3. SessionOf(r)' /\ RefusedOf(r)'
      BY <1>2, <1>3, <2>1 DEF SessionOf, RefusedOf, committed
  <2> QED
      BY <1>1, <1>2, <1>3, <2>1, <2>2, <2>3, LocalStep
<1>5. CASE change[r] # "none"
  <2>1. r \in Writing
      BY <1>1, <1>5 DEF Writing
  <2> DEFINE k == Target(r)
             new == Written(r)
  <2>2. /\ k \in Keys /\ table' = [table EXCEPT ![k] = new]
        /\ new \in Rows \union {NoRow}
        /\ created \subseteq created' /\ created' \subseteq created \union {r}
        /\ created' \subseteq Ids
        /\ deleted \subseteq deleted' /\ deleted' \subseteq created'
        /\ new # NoRow => new.id = RowOf(r) /\ RowOf(r) \in Ids
      BY <2>1, CommitRow DEF TypeOK
  <2>3. TypeOK'
      BY <1>1, <2>2 DEF TypeOK, session
  <2>4. \A q \in created' : pc'[q] = "done"
      BY <1>2, <2>2 DEF TableInv, TypeOK, Requests
  <2>5. \A j \in Keys : table'[j] = IF j = k THEN new ELSE table[j]
      BY <2>2 DEF TypeOK
  <2>6. \A j \in Keys : table'[j] # NoRow => table'[j].id \in Ids /\ KeyOf[table'[j].id] = j
      BY <2>2, <2>5 DEF TableInv, Target
  <2>7. StandsUntilDeleted'
    <3>1. ASSUME NEW id \in Ids
          PROVE  InTable(id)' <=> id \in created' \ deleted'
      <4>1. KeyOf[id] \in Keys /\ (InTable(id) <=> id \in created \ deleted)
          BY RegistryAssumption DEF TableInv, StandsUntilDeleted
      <4>2. InTable(id)' <=> IF KeyOf[id] = k THEN new # NoRow /\ new.id = id ELSE InTable(id)
          BY <2>5, <4>1 DEF InTable
      <4>3. CASE change[r] = "insert"
        <5>1. /\ RowOf(r) = r /\ k = KeyOf[r] /\ r \in Ids /\ r \notin created
              /\ table[k] = NoRow /\ new # NoRow /\ new.id = r
              /\ created' = created \union {r} /\ deleted' = deleted
            BY <2>1, <4>3, CommitRow, RegistryAssumption DEF Target
        <5>2. deleted \subseteq created
            BY DEF TypeOK
        <5> QED
            BY <4>1, <4>2, <5>1, <5>2 DEF InTable
      <4>4. CASE change[r] = "update"
        <5>1. /\ InTable(RowOf(r)) /\ k = KeyOf[RowOf(r)]
              /\ new # NoRow /\ new.id = RowOf(r)
              /\ created' = created /\ deleted' = deleted
            BY <2>1, <4>4, CommitRow, RegistryAssumption DEF Target
        <5> QED
            BY <4>1, <4>2, <5>1 DEF InTable
      <4>5. CASE change[r] = "delete"
        <5>1. /\ InTable(RowOf(r)) /\ k = KeyOf[RowOf(r)] /\ new = NoRow
              /\ created' = created /\ deleted' = deleted \union {RowOf(r)}
            BY <2>1, <4>5, CommitRow DEF Target
        <5> QED
            BY <4>1, <4>2, <5>1 DEF InTable
      <4> QED
          BY <1>5, <4>3, <4>4, <4>5 DEF TypeOK
    <3> QED
        BY <2>2, <3>1 DEF StandsUntilDeleted
  <2>8. SessionInv'
    <3>1. ASSUME NEW q \in Requests
          PROVE  SessionOf(q)'
      <4>1. SessionOf(q)
          BY DEF SessionInv
      <4>2. CASE q = r
          BY <1>2, <1>3, <2>2, <4>2 DEF SessionOf
      <4>3. CASE q # r
          BY <1>2, <2>2, <4>1, <4>3 DEF SessionOf
      <4> QED
          BY <4>2, <4>3
    <3> QED
        BY <3>1 DEF SessionInv
  <2>9. WriteInv'
    <3>1. \A q \in Writing' : q \in Writing \ {r} /\ Target(q)' = Target(q) /\ Target(q) # k
        BY <1>2, <1>3, <2>1 DEF Writing, Target, RowOf, WriteInv
    <3>2. ASSUME NEW q \in Writing'
          PROVE  WriteOf(q)'
      <4>1. WriteOf(q) /\ Target(q) # k /\ q \in Requests /\ SessionOf(q)
          BY <3>1 DEF WriteInv, SessionInv, Writing
      <4>2. change[q] = "insert" => table'[KeyOf[q]] = NoRow
          BY <2>5, <4>1, RegistryAssumption DEF WriteOf, Target, RowOf
      <4>3. change[q] \in {"update", "delete"} => InTable(loaded[q].id)'
        <5>1. ASSUME change[q] \in {"update", "delete"}
              PROVE  /\ InTable(loaded[q].id) /\ KeyOf[loaded[q].id] # k
                     /\ loaded[q].id \in Ids
            BY <4>1, <5>1 DEF WriteOf, Target, RowOf, SessionOf, TypeOK
        <5> QED
            BY <1>2, <2>5, <5>1, RegistryAssumption DEF InTable
      <4> QED
          BY <1>2, <4>1, <4>2, <4>3 DEF WriteOf
    <3> QED
        BY <3>1, <3>2 DEF WriteInv
  <2>10. RefusedForAWinner'
      BY <1>2, <2>2 DEF RefusedForAWinner
  <2> QED
      BY <2>3, <2>4, <2>6, <2>7, <2>8, <2>9, <2>10 DEF TableInv
<1> QED
    BY <1>4, <1>5

\* Requests that end with their transactions rolled back.
LEMMA FailStep ==
    ASSUME IInv, NEW S \in SUBSET {r \in Requests : pc[r] # "done"}, Fail(S)
    PROVE  IInv'
<1> USE DEF IInv
<1>1. UNCHANGED <<table, created, deleted, loaded, existed, change>>
    BY DEF Fail, committed, session
<1>2. \A r \in Requests :
        /\ pc'[r] = IF r \in S THEN "done" ELSE pc[r]
        /\ status'[r] = IF r \in S /\ status[r] = "none" THEN "failed" ELSE status[r]
    BY DEF Fail
<1>3. TypeOK'
  <2>1. faults' \in 0 .. MaxFaults
      BY RegistryAssumption DEF Fail, TypeOK
  <2>2. pc' \in [Requests -> {"peek", "select", "write", "flushed", "answered", "done"}]
      BY DEF Fail, TypeOK
  <2>3. status' \in [Requests -> {"none", "200", "201", "204", "404", "500", "failed"}]
      BY DEF Fail, TypeOK
  <2> QED
      BY <1>1, <2>1, <2>2, <2>3 DEF TypeOK
<1>4. TableInv'
    BY <1>1, <1>2 DEF TableInv, TypeOK, StandsUntilDeleted, InTable, Requests
<1>5. SessionInv'
    BY <1>1, <1>2 DEF SessionInv, SessionOf
<1>6. Writing' \subseteq Writing
    BY <1>1, <1>2 DEF Writing
<1>7. WriteInv'
    BY <1>1, <1>6 DEF WriteInv, WriteOf, InTable, Target, RowOf
<1>8. RefusedForAWinner'
    BY <1>1, <1>2 DEF RefusedForAWinner, Requests, Ids
<1> QED
    BY <1>3, <1>4, <1>5, <1>7, <1>8

LEMMA NextInv == IInv /\ [Next]_vars => IInv'
<1> SUFFICES ASSUME IInv, [Next]_vars PROVE IInv'
    OBVIOUS
<1>1. CASE UNCHANGED vars
    BY <1>1 DEF vars, IInv, TypeOK, TableInv, StandsUntilDeleted, InTable, SessionInv,
                SessionOf, WriteInv, WriteOf, Writing, Target, RowOf, RefusedForAWinner
<1>2. ASSUME NEW r \in Requests, Step(r)
      PROVE  IInv'
    BY <1>2, ReadSteps, InsertStep, ConflictStep, UpdateStep, DeleteStep, AnswerStep,
       CommitStep DEF Step
<1>3. ASSUME NEW S \in SUBSET {r \in Requests : pc[r] # "done"}, Fail(S)
      PROVE  IInv'
    BY <1>3, FailStep
<1> QED
    BY <1>1, <1>2, <1>3 DEF Next, Finished

-----------------------------------------------------------------------------
(* The theorems.                                                           *)

\* The inductive invariant holds throughout: no two transactions write one key of
\* webhooks or sources at a time.
THEOREM Invariance == Spec => []IInv
<1> QED
    BY InitInv, NextInv, PTL DEF Spec

\* Type correctness: an UPDATE that sets some columns leaves a row of the table.
THEOREM TypeCorrect == Spec => []TypeOK
<1>1. IInv => TypeOK
    BY DEF IInv
<1> QED
    BY <1>1, Invariance, PTL

\* A row stands, under the id its creator was given, from the COMMIT of its INSERT to
\* the COMMIT of its DELETE (create_or_update_webhook, register_source, _ensure_source,
\* delete_webhook), for any number of requests.
THEOREM Standing == Spec => []StandsUntilDeleted
<1>1. IInv => StandsUntilDeleted
    BY DEF IInv, TableInv
<1> QED
    BY <1>1, Invariance, PTL

\* A registration refused with an IntegrityError or StaleDataError lost to a write that
\* was committed.
THEOREM Refusal == Spec => []RefusedForAWinner
<1>1. IInv => RefusedForAWinner
    BY DEF IInv
<1> QED
    BY <1>1, Invariance, PTL

\* What a registration changes is in the table when its COMMIT is through.
THEOREM Landing == Spec => RegistrationLands
<1> DEFINE A == \A r \in Posts :
        Commit(r) /\ change[r] # "none" =>
            LET row == table'[KeyOf[r]]
            IN  /\ row # NoRow /\ row.id = RowOf(r)
                /\ loaded[r] # NoRow =>
                      \A c \in Changed(r) : row.body[c] = Body[r][c]
<1>1. ASSUME IInv, [Next]_vars
      PROVE  A
  <2> SUFFICES ASSUME NEW r \in Posts, Commit(r), change[r] # "none"
               PROVE  LET row == table'[KeyOf[r]]
                      IN  /\ row # NoRow /\ row.id = RowOf(r)
                          /\ loaded[r] # NoRow =>
                                \A c \in Changed(r) : row.body[c] = Body[r][c]
      OBVIOUS
  <2>1. r \in Writing /\ r \in Ids /\ r \notin Deletes
      BY RegistryAssumption DEF Writing, Commit, Requests, Ids
  <2>2. /\ Target(r) = KeyOf[r] /\ table' = [table EXCEPT ![KeyOf[r]] = Written(r)]
        /\ KeyOf[r] \in Keys
        /\ Written(r) \in Rows /\ Written(r).id = RowOf(r)
        /\ loaded[r] # NoRow => \A c \in Changed(r) : Written(r).body[c] = Body[r][c]
      BY <1>1, <2>1, CommitRow DEF Target
  <2>3. table'[KeyOf[r]] = Written(r)
      BY <1>1, <2>2 DEF IInv, TypeOK
  <2> QED
      BY <2>2, <2>3, RegistryAssumption
<1>2. IInv /\ [Next]_vars => [A]_vars
    BY <1>1
<1> QED
    BY <1>2, Invariance, PTL DEF Spec, RegistrationLands

\* A committer that registers a source leaves alone what is there.
THEOREM Keeping == Spec => AutoRegistrationKeeps
<1> DEFINE A == \A k \in Sources :
        table[k] # NoRow /\ table'[k] # table[k] => \E r \in Posts : Commit(r)
<1>1. ASSUME IInv, [Next]_vars
      PROVE  A
  <2> SUFFICES ASSUME NEW k \in Sources, table[k] # NoRow, table'[k] # table[k]
               PROVE  \E r \in Posts : Commit(r)
      OBVIOUS
  <2>1. PICK r \in Requests : Commit(r)
      BY <1>1 DEF Next, Step, Fail, Finished, vars, committed, Peek, Select, SelectById,
                  Insert, Conflict, Update, Delete, Answer, Flush, Raise
  <2>2. r \in Writing
      BY <2>1 DEF Commit, Writing
  <2>3. /\ table' = [table EXCEPT ![Target(r)] = Written(r)]
        /\ change[r] = "insert" => table[Target(r)] = NoRow
        /\ change[r] = "delete" => Target(r) \in Urls
        /\ change[r] \in {"insert", "update", "delete"}
        /\ change[r] = "update" => r \in Posts
      BY <1>1, <2>1, <2>2, CommitRow DEF Target
  <2>4. Target(r) = k
      BY <1>1, <2>3 DEF IInv, TypeOK, Keys
  <2> QED
      BY <2>1, <2>3, <2>4, RegistryAssumption
<1>2. IInv /\ [Next]_vars => [A]_vars
    BY <1>1
<1> QED
    BY <1>2, Invariance, PTL DEF Spec, AutoRegistrationKeeps
=============================================================================
