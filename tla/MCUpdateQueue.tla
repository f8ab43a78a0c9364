---------------------------- MODULE MCUpdateQueue ----------------------------
(* Updates 1 and 2 are messages of one actor, 3 is a callback query. *)
EXTENDS UpdateQueue
CONSTANTS ann
MCActor3 == <<ann, ann, NoActor>>
=============================================================================
