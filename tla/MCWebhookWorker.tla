--------------------------- MODULE MCWebhookWorker ---------------------------
(* Two webhook workers and one row that concerns two hooks, one that stays *)
(* registered and one that comes and goes.                                 *)
EXTENDS WebhookWorker, TLC

CONSTANTS h1, h2

MCRows == {1}
MCSubscribes == [h \in Hooks |-> {1}]
WorkerSymmetry == Permutations(Workers)
=============================================================================
