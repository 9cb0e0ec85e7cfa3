------------------------------ MODULE MCPasloe ------------------------------
(* Two processes, two requests with one key, one webhook, one fault.       *)
EXTENDS Pasloe

CONSTANTS p1, p2, s1, h1, k

MCEvents == {1, 2}
MCKeyOf == [r \in Events |-> k]
MCSourceOf == [e \in Events |-> CHOOSE s \in Sources : TRUE]
MCSubscribes == [h \in Hooks |-> Events]
=============================================================================
