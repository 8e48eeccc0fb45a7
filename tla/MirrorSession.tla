--------------------------- MODULE MirrorSession ---------------------------
(***************************************************************************)
(* What the program promises to every output - an AirPlay 1.0 device, a    *)
(* file, stdout: it receives a prefix of ONE mirroring session.  A session *)
(* opens with the HTTP headers and the property list, announces itself     *)
(* with a heartbeat, describes the codec once, and then carries the        *)
(* pictures 1, 2, 3, ... in turn, each exactly once, each as a header      *)
(* followed by its data.                                                   *)
(***************************************************************************)
EXTENDS Naturals, Sequences, FiniteSets

CONSTANT Sinks

VARIABLE streams  (* what has been written to each output *)

Types == {"http", "plist", "heartbeat", "codec", "avcc", "video", "data"}
Messages == [type : Types, pic : Nat]
Plain(t) == [type |-> t, pic |-> 0]
Picture(t, n) == [type |-> t, pic |-> n]

After(m) ==
  CASE m.type = "http" -> Plain("plist")
    [] m.type = "plist" -> Plain("heartbeat")
    [] m.type = "heartbeat" -> Plain("codec")
    [] m.type = "codec" -> Plain("avcc")
    [] m.type = "avcc" -> Picture("video", 1)
    [] m.type = "video" -> Picture("data", m.pic)
    [] m.type = "data" -> Picture("video", m.pic + 1)

IsData(m) == m.type = "data"
PicturesIn(s) == Cardinality({i \in 1 .. Len(s) : IsData(s[i])})

NextMessage(s) == IF s = <<>> THEN Plain("http") ELSE After(s[Len(s)])

SessionInit == streams = [n \in Sinks |-> <<>>]

Write(n) == streams' = [streams EXCEPT ![n] = Append(@, NextMessage(streams[n]))]

SessionNext == \E n \in Sinks : Write(n)

SessionSpec == SessionInit /\ [][SessionNext]_streams
=============================================================================
