---------------------------- MODULE MCWebhookLive ----------------------------
(* Two rows: the first concerns h1 alone, the second h2 alone.              *)
EXTENDS WebhookLive

CONSTANTS h1, h2

MCRows == {1, 2}
MCSubscribes == [h \in Hooks |-> IF h = h1 THEN {1} ELSE {2}]
=============================================================================
