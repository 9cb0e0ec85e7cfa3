--------------------------- MODULE MCCommitterLive ---------------------------
(* The instance of MCCommitter, with time enough for every failure to burn a *)
(* lease and a back-off.                                                     *)
EXTENDS CommitterLive

MCEvents == {1, 2}
MCSourceOf == [e \in Events |-> CHOOSE s \in Sources : TRUE]
MCDomainEvents == {}
=============================================================================
