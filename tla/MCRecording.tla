---------------------------- MODULE MCRecording ----------------------------
(* Two threads that start and stop recordings, one source, one emitter.    *)
EXTENDS Recording, TLC

CONSTANTS c1, c2, s1, e1

TwoCallers == {c1, c2}
OneSource == {s1}
OneEmitter == {e1}

OneKind == {"session"}

Symmetric == Permutations(TwoCallers)
=============================================================================
