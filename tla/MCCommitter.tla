----------------------------- MODULE MCCommitter -----------------------------
(* Two committer processes, two events of one source, one of them with a    *)
(* detail table; batches of two.                                            *)
EXTENDS Committer, TLC

MCEvents == {1, 2}
MCSourceOf == [e \in Events |-> CHOOSE s \in Sources : TRUE]
MCDomainEvents == {1}
WorkerSymmetry == Permutations(Workers)
=============================================================================
