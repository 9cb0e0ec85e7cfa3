------------------------------- MODULE MCCursor -------------------------------
(* Five events, one of which the filters leave out, two times, pages of two. *)
EXTENDS Cursor

MCEvents == 1 .. 5
MCWanted == {1, 2, 3, 5}
=============================================================================
