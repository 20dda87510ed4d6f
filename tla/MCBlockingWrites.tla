-------------------------- MODULE MCBlockingWrites --------------------------
(* One signal of one device, one client, and a writer for each time it is   *)
(* put on the rig.                                                          *)
EXTENDS BlockingWrites

CONSTANTS s1, c1, w1, w2

OneSignal == {s1}
OneClient == {c1}
TwoWriters == {w1, w2}
=============================================================================
