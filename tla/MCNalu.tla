------------------------------- MODULE MCNalu -------------------------------
(* Nalu with all NAL units up to a length, two of them joined by a short start *)
(* code, parameter sets of 4 bytes, the least an SPS has, and one that is too  *)
(* long for its size variable.                                                *)
EXTENDS Nalu

WellFormed(u) ==
  Stretch(u) /\ \A i \in 1 .. Len(u) - 2 : ~(u[i] = 0 /\ u[i + 1] = 0 /\ u[i + 2] = 1)
Nals(n) == {u \in UNION {[1 .. m -> Byte] : m \in 1 .. n} : WellFormed(u)}

MCStretches == Nals(3) \union {u \o ShortCode \o v : u \in Nals(1), v \in Nals(2)}
MCSingle == Nals(2)
MCSps == {u \in Nals(4) : Len(u) = 4} \union {[i \in 1 .. 9 |-> 2]}
MCPps == Nals(2)
=============================================================================
