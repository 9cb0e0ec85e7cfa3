----------------------------- MODULE MCAcceptApi -----------------------------
(* Three requests for one key, two with an empty one.                      *)
EXTENDS AcceptApi

CONSTANTS r1, r2, r3, r4, r5, k

MCKeyOf == [r \in Requests |-> CASE r \in {r1, r2, r3} -> k
                                 [] OTHER -> EmptyKey]
=============================================================================
