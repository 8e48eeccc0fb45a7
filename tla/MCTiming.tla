------------------------------ MODULE MCTiming ------------------------------
(* Timing with CLOCK_REALTIME set back or forward: by less than a period, and *)
(* by more than the longest pause.                                            *)
EXTENDS Timing

MCOffsets == {-12, -2, 0, 5}
=============================================================================
