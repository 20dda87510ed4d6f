------------------------------ MODULE MCWaits ------------------------------
(* Two steps in a row that wait under the default name.                     *)
EXTENDS Waits, TLC

CONSTANTS w1, w2, wait

MCTwo == (w1 :> wait) @@ (w2 :> wait)
============================================================================
