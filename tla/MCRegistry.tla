----------------------------- MODULE MCRegistry -----------------------------
(* A url that up to three requests register and up to two delete, or a    *)
(* source that two requests and two committers register: keys do not       *)
(* interact.                                                               *)
EXTENDS Registry

CONSTANTS u, s, w1, w2, w3, s1, s2, d1, d2, e1, e2

MCKeyOf == [r \in Ids |-> IF r \in {w1, w2, w3} THEN u ELSE s]

\* w1 and w2 differ from w3 in a column each; a committer asks for empty metadata.
MCBody ==
    [r \in Ids |->
        CASE r = w1 -> [secret |-> 1, event_types |-> 0]
          [] r = w2 -> [secret |-> 0, event_types |-> 1]
          [] r = w3 -> [secret |-> 0, event_types |-> 0]
          [] r = s1 -> [metadata |-> 1]
          [] r = s2 -> [metadata |-> 2]
          [] r \in Ensures -> [metadata |-> 0]]
=============================================================================
