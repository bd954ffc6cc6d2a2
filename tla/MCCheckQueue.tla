---------------------------- MODULE MCCheckQueue ----------------------------
(* Two workers and a master, four checks of which one fails: whoever comes *)
(* to the full queue first takes two of them at once.                      *)
EXTENDS CheckQueue

CONSTANTS w1, w2, m, c1, c2, c3, c4

MCWorker == {w1, w2}
MCCheck == {c1, c2, c3, c4}
MCBad == {c3}
=============================================================================
