------------------------------- MODULE MCMirror -------------------------------
(* Mirror with one output and one geometry.  The output is plugged in when    *)
(* the program starts, which streams to a device, with or without stdout.     *)
EXTENDS Mirror

CONSTANTS o1, g1

MCOutputs == {o1}
MCGeoms == {g1}

MCInit == Init /\ plugged = {o1} /\ 1 \in asked /\ Out!File \notin asked
MCSpec == MCInit /\ [][Next]_vars /\ Fairness
=============================================================================
