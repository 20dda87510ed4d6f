---------------------------- MODULE MCRetention ----------------------------
(* One user, the sweeper and the thread that shuts down.                   *)
EXTENDS Retention

CONSTANTS u1, sweeper, main, s1

OneUser == {u1}
OfOne == {u1, sweeper, main}
BothKinds == {"session", "scratch"}
Nothing == {}
OneSource == {s1}
=============================================================================
