---------------------------- MODULE MCScreencopy ----------------------------
(* Screencopy on a small instance: two outputs, two geometries, two stamps.  *)
EXTENDS Screencopy

CONSTANTS o1, o2, g1, g2

MCOutputs == {o1, o2}
MCGeoms == {g1, g2}
=============================================================================
