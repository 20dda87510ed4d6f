---------------------------- MODULE MCProgrammer ----------------------------
(* Two callers; a program that waits for nothing, and one that waits from   *)
(* its start and again in its second step.                                  *)
EXTENDS Programmer

CONSTANTS c1, c2

TwoCallers == {c1, c2}
Short == {<<"set">>, <<"wait", "wait">>}
=============================================================================
