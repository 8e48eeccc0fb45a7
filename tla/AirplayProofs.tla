--------------------------- MODULE AirplayProofs ---------------------------
(***************************************************************************)
(* Proofs about Airplay, for any number of devices, any size of the kernel *)
(* buffers and any number of pictures: the inductive invariant, the two    *)
(* safety properties it implies and the refinement of MirrorSession.       *)
(***************************************************************************)
EXTENDS Airplay, TLAPS, SequenceTheorems, FiniteSets, FiniteSetTheorems

-----------------------------------------------------------------------------
(* Messages and the session grammar.                                         *)

(* The messages that occur are messages. *)
LEMMA PlainTyped == ASSUME NEW t \in Types PROVE Plain(t) \in Messages
BY DEF Plain, Messages

LEMMA PictureTyped ==
  ASSUME NEW t \in Types, NEW p \in Nat
  PROVE  Picture(t, p) \in Messages
BY DEF Picture, Messages

(* What follows on a plain message or on a message of a picture. *)
LEMMA Grammar ==
  /\ NextMessage(<<>>) = Plain("http")
  /\ After(Plain("http")) = Plain("plist")
  /\ After(Plain("plist")) = Plain("heartbeat")
  /\ After(Plain("heartbeat")) = Plain("codec")
  /\ After(Plain("codec")) = Plain("avcc")
  /\ After(Plain("avcc")) = Picture("video", 1)
  /\ \A p \in Nat : /\ After(Picture("video", p)) = Picture("data", p)
                    /\ After(Picture("data", p)) = Picture("video", p + 1)
BY DEF NextMessage, After, Plain, Picture

(* The next message depends on the last one only. *)
LEMMA NextAfterAppend ==
  ASSUME NEW s \in Seq(Messages), NEW m \in Messages
  PROVE  NextMessage(Append(s, m)) = After(m)
BY DEF NextMessage

(* The messages of a packet. *)
LEMMA PacketTyped ==
  ASSUME NEW p \in Nat
  PROVE  Packet(p) \in Seq(Messages) /\ FirstPacket(p) \in Seq(Messages)
BY PlainTyped, PictureTyped DEF Packet, FirstPacket, Types

-----------------------------------------------------------------------------
(* Every step preserves the invariant.                                       *)

(* Types. *)
LEMMA TypingStep ==
  ASSUME TypeOK, Next
  PROVE  TypeOK'
<1>a. \A c \in Sinks : c + 1 \in 1 .. Past
  BY AirplayAssumption DEF Sinks, Past, Stdout
<1> USE AirplayAssumption DEF TypeOK, Phases, SinkStates
<1>1. ASSUME OpenOutput PROVE TypeOK'
  <2>1. cursor' \in 1 .. Past /\ phase' \in Phases
    BY ONLY <1>a, <1>1, TypeOK DEF OpenOutput
  <2>2. sink' \in [Sinks -> SinkStates]
    BY ONLY <1>1, TypeOK DEF OpenOutput
  <2> QED
    BY <1>1, <2>1, <2>2 DEF OpenOutput, packetVars, netVars
<1>2. ASSUME CheckOutputs PROVE TypeOK'
  BY <1>2 DEF CheckOutputs, packetVars, netVars, Past, Stdout
<1>3. ASSUME InitMirroring PROVE TypeOK'
  <2>1. Handshake \in Seq(Messages)
    BY PlainTyped DEF Handshake, Types
  <2> QED
    BY <1>3, <2>1 DEF InitMirroring, netVars
<1>4. ASSUME EmitPacket(pictures + 1) PROVE TypeOK'
  <2>1. pictures + 1 \in Nat
    OBVIOUS
  <2>2. /\ Packet(pictures + 1) \in Seq(Messages)
        /\ FirstPacket(pictures + 1) \in Seq(Messages)
    BY ONLY <2>1, PacketTyped
  <2>3. todo' \in Seq(Messages)
    BY ONLY <1>4, <2>2 DEF EmitPacket
  <2>4. refresh' \in BOOLEAN
    BY ONLY <1>4 DEF EmitPacket, RefreshDone
  <2>5. pictures' \in Nat
    BY ONLY <1>4, <2>1 DEF EmitPacket
  <2>6. UNCHANGED <<asked, phase, cursor, sink, log, streams, taken>>
    BY ONLY <1>4 DEF EmitPacket, netVars
  <2> QED
    BY <2>3, <2>4, <2>5, <2>6
<1>5. ASSUME RefuseExtradata PROVE TypeOK'
  BY <1>5 DEF RefuseExtradata, packetVars, netVars
<1>6. ASSUME SkipMissing PROVE TypeOK'
  <2>1. AfterMissing \in 1 .. Past
    BY <1>a, <1>6 DEF SkipMissing, AfterMissing, Sending, File, Past, Stdout, Sinks
  <2> QED
    BY <1>6, <2>1 DEF SkipMissing, Sending, packetVars, netVars
<1>7. ASSUME Send PROVE TypeOK'
  <2>1. Head(todo) \in Messages
    BY <1>7 DEF Send, Sending
  <2>2. streams' \in [Sinks -> Seq(Messages)]
    BY <1>7, <2>1 DEF Send, Sending
  <2> QED
    BY <1>a, <1>7, <2>2 DEF Send, Sending, packetVars
<1>8. ASSUME SendLost PROVE TypeOK'
  BY <1>a, <1>8 DEF SendLost, AfterError, Sending, packetVars, netVars
<1>9. ASSUME BrokenPipe PROVE TypeOK'
  BY <1>9 DEF BrokenPipe, packetVars, netVars
<1>10. ASSUME MessageSent PROVE TypeOK'
  <2>1. Head(todo) \in Messages /\ Tail(todo) \in Seq(Messages)
    BY <1>10 DEF MessageSent
  <2> QED
    BY <1>10, <2>1 DEF MessageSent, netVars, Past, Stdout
<1>11. ASSUME CloseOutputs PROVE TypeOK'
  BY <1>11 DEF CloseOutputs, packetVars, netVars
<1>12. ASSUME Abort PROVE TypeOK'
  BY <1>12 DEF Abort, packetVars, netVars
<1>13. ASSUME NEW n \in Sinks, DeviceRead(n) PROVE TypeOK'
  BY <1>13 DEF DeviceRead, packetVars
<1>14. ASSUME NEW n \in Sinks, DeviceClose(n) PROVE TypeOK'
  BY <1>14 DEF DeviceClose, packetVars, netVars
<1> QED
  BY <1>1, <1>2, <1>3, <1>4, <1>5, <1>6, <1>7, <1>8, <1>9, <1>10, <1>11, <1>12,
     <1>13, <1>14 DEF Next, SendToOutputs

(* The sequence facts about sending the first of the messages. *)
LEMMA SendFirst ==
  ASSUME NEW t \in Seq(Messages), t # <<>>
  PROVE  /\ Head(t) \in Messages /\ Head(t) = t[1]
         /\ Tail(t) \in Seq(Messages) /\ Len(Tail(t)) = Len(t) - 1
         /\ \A i \in 1 .. Len(t) - 1 : Tail(t)[i] = t[i + 1]
         /\ Tail(t) = <<>> => NextMessage(t) = After(Head(t))
         /\ Tail(t) # <<>> => /\ Head(Tail(t)) = t[2]
                             /\ NextMessage(Tail(t)) = NextMessage(t)
<1>1. /\ Len(t) \in Nat \ {0} /\ Head(t) \in Messages /\ Head(t) = t[1]
      /\ Tail(t) \in Seq(Messages) /\ Len(Tail(t)) = Len(t) - 1
      /\ \A i \in 1 .. Len(t) - 1 : Tail(t)[i] = t[i + 1]
  OBVIOUS
<1> DEFINE r == Tail(t)
<1> HIDE DEF r
<1>0. /\ Len(t) \in Nat \ {0} /\ r \in Seq(Messages) /\ Len(r) = Len(t) - 1
      /\ \A i \in 1 .. Len(t) - 1 : r[i] = t[i + 1]
  BY <1>1 DEF r
<1>2. ASSUME r = <<>> PROVE NextMessage(t) = After(Head(t))
  <2>1. Len(r) = 0
    BY <1>2
  <2>2. Len(t) = 1
    BY <1>0, <2>1
  <2> QED
    BY <1>1, <2>2 DEF NextMessage
<1>3. ASSUME r # <<>>
      PROVE  Head(r) = t[2] /\ NextMessage(r) = NextMessage(t)
  <2>1. Len(r) \in Nat \ {0}
    BY <1>0, <1>3
  <2>2. Len(t) - 1 \in 1 .. Len(t) - 1 /\ 1 \in 1 .. Len(t) - 1
    BY <1>0, <2>1
  <2>3. r[Len(r)] = t[Len(t)]
    <3>1. r[Len(t) - 1] = t[(Len(t) - 1) + 1]
      BY <1>0, <2>2
    <3>2. (Len(t) - 1) + 1 = Len(t)
      BY <1>0
    <3> QED
      BY <1>0, <3>1, <3>2
  <2>4. Head(r) = t[2]
    <3>1. Head(r) = r[1] /\ r[1] = t[1 + 1]
      BY <1>0, <1>3, <2>2
    <3> QED
      BY <3>1
  <2> QED
    BY <1>3, <2>3, <2>4 DEF NextMessage
<1> QED
  BY <1>1, <1>2, <1>3 DEF r

(* A step that leaves the messages alone, and main() where it is or ends it. *)
LEMMA GrammarKept ==
  ASSUME GrammarInv, UNCHANGED packetVars,
         \/ phase' = phase
         \/ phase' \in {"ended", "killed"}
         \/ phase = "connect" /\ phase' = "ready"
  PROVE  GrammarInv'
BY DEF GrammarInv, packetVars

(* The session grammar. *)
LEMMA GrammarStep ==
  ASSUME TypeOK, GrammarInv, Next
  PROVE  GrammarInv'
<1>1. ASSUME InitMirroring PROVE GrammarInv'
  <2>0. /\ log = <<>> /\ todo = <<>> /\ refresh /\ pictures = 0
        /\ log' = <<>> /\ refresh' /\ pictures' = 0
    BY <1>1 DEF InitMirroring, GrammarInv
  <2>1. CASE phase' = "live" /\ todo' = Handshake
    <3>1. /\ todo' # <<>> /\ Len(todo') = 2
          /\ todo'[1] = Plain("http") /\ todo'[2] = Plain("plist")
          /\ Head(todo') = Plain("http")
      BY <2>1 DEF Handshake
    <3>2. NextMessage(todo') = Plain("heartbeat")
      BY <3>1, Grammar DEF NextMessage
    <3>3. \A i \in 1 .. Len(todo') - 1 : todo'[i + 1] = After(todo'[i])
      BY <3>1, Grammar
    <3> QED
      BY <2>0, <2>1, <3>1, <3>2, <3>3, Grammar DEF GrammarInv
  <2>2. CASE phase' = "ended" /\ UNCHANGED todo
    BY <1>1, <2>0, <2>2 DEF GrammarInv, InitMirroring
  <2> QED
    BY <1>1, <2>1, <2>2 DEF InitMirroring
<1>2. ASSUME EmitPacket(pictures + 1) PROVE GrammarInv'
  <2> DEFINE p == pictures + 1
  <2>0. p \in Nat /\ todo = <<>> /\ phase = "live"
    BY <1>2 DEF EmitPacket, TypeOK
  <2>1. NextMessage(log) = IF refresh THEN Plain("heartbeat") ELSE Picture("video", p)
    BY <2>0 DEF GrammarInv
  <2>2. /\ todo' = IF refresh THEN FirstPacket(p) ELSE Packet(p)
        /\ refresh' = FALSE /\ pictures' = p /\ log' = log /\ phase' = "live"
    BY <1>2, <2>0 DEF EmitPacket, RefreshDone
  <2>3. CASE refresh
    <3>0. p = 1
      <4>1. pictures = 0
        BY ONLY <2>3, GrammarInv DEF GrammarInv
      <4> QED
        BY ONLY <4>1
    <3>1. /\ todo' # <<>> /\ Len(todo') = 5 /\ Head(todo') = Plain("heartbeat")
          /\ todo'[1] = Plain("heartbeat") /\ todo'[2] = Plain("codec")
          /\ todo'[3] = Plain("avcc")
          /\ todo'[4] = Picture("video", 1) /\ todo'[5] = Picture("data", 1)
      BY <2>2, <2>3, <3>0 DEF FirstPacket
    <3>2. \A i \in 1 .. Len(todo') - 1 : todo'[i + 1] = After(todo'[i])
      <4>1. /\ todo'[1 + 1] = After(todo'[1]) /\ todo'[2 + 1] = After(todo'[2])
            /\ todo'[3 + 1] = After(todo'[3])
        BY <3>1, Grammar
      <4>2. todo'[4 + 1] = After(todo'[4])
        BY <3>1, Grammar
      <4>3. 1 .. Len(todo') - 1 = {1, 2, 3, 4}
        BY <3>1
      <4> QED
        BY <4>1, <4>2, <4>3
    <3>3. NextMessage(todo') = Picture("video", p + 1)
      BY <3>0, <3>1, Grammar DEF NextMessage
    <3>4. Head(todo') = NextMessage(log')
      BY <2>1, <2>2, <2>3, <3>1
    <3> QED
      BY <2>2, <3>1, <3>2, <3>3, <3>4 DEF GrammarInv
  <2>4. CASE ~refresh
    <3>1. /\ todo' # <<>> /\ Len(todo') = 2 /\ Head(todo') = Picture("video", p)
          /\ todo'[1] = Picture("video", p) /\ todo'[2] = Picture("data", p)
      BY <2>2, <2>4 DEF Packet
    <3>2. \A i \in 1 .. Len(todo') - 1 : todo'[i + 1] = After(todo'[i])
      BY <2>0, <3>1, Grammar
    <3>3. NextMessage(todo') = Picture("video", p + 1)
      BY <2>0, <3>1, Grammar DEF NextMessage
    <3>4. Head(todo') = NextMessage(log')
      BY <2>1, <2>2, <2>4, <3>1
    <3> QED
      BY <2>2, <3>1, <3>2, <3>3, <3>4 DEF GrammarInv
  <2> QED
    BY <2>3, <2>4
<1>3. ASSUME MessageSent PROVE GrammarInv'
  <2>0. /\ todo \in Seq(Messages) /\ log \in Seq(Messages)
        /\ todo # <<>> /\ phase = "live"
    BY <1>3 DEF MessageSent, TypeOK
  <2>1. /\ log' = Append(log, Head(todo)) /\ todo' = Tail(todo)
        /\ UNCHANGED <<phase, refresh, pictures>>
    BY <1>3 DEF MessageSent
  <2>2. NextMessage(log') = After(Head(todo))
    BY <2>0, <2>1, SendFirst, NextAfterAppend
  <2>3. \A i \in 1 .. Len(todo) - 1 : todo[i + 1] = After(todo[i])
    BY DEF GrammarInv
  <2>4. todo' # <<>> => Head(todo') = NextMessage(log')
    <3>1. SUFFICES ASSUME todo' # <<>> PROVE todo[2] = After(todo[1])
      BY <2>0, <2>1, <2>2, SendFirst
    <3>2. 1 \in 1 .. Len(todo) - 1
      BY <2>0, <2>1, <3>1, SendFirst
    <3> QED
      BY <2>3, <3>2
  <2>5. \A i \in 1 .. Len(todo') - 1 : todo'[i + 1] = After(todo'[i])
    BY <2>0, <2>1, <2>3, SendFirst
  <2>6. NextMessage(IF todo' = <<>> THEN log' ELSE todo') = NextMessage(todo)
    BY <2>0, <2>1, <2>2, SendFirst
  <2> QED
    BY <2>0, <2>1, <2>4, <2>5, <2>6 DEF GrammarInv
<1>4. ASSUME OpenOutput \/ CheckOutputs PROVE GrammarInv'
  BY <1>4, GrammarKept DEF OpenOutput, CheckOutputs
<1>5. ASSUME RefuseExtradata \/ SkipMissing \/ Send \/ SendLost \/ BrokenPipe
      PROVE  GrammarInv'
  BY <1>5, GrammarKept DEF RefuseExtradata, SkipMissing, Send, SendLost, BrokenPipe
<1>6. ASSUME \/ CloseOutputs \/ Abort
             \/ \E n \in Sinks : DeviceRead(n) \/ DeviceClose(n)
      PROVE  GrammarInv'
  BY <1>6, GrammarKept DEF CloseOutputs, Abort, DeviceRead, DeviceClose
<1> QED
  BY <1>1, <1>2, <1>3, <1>4, <1>5, <1>6 DEF Next, SendToOutputs

(* What the definitions say of the numbers of the outputs. *)
LEMMA Numbers ==
  /\ Past \in Nat /\ Sinks \subseteq Nat
  /\ \A n \in Sinks : n < Past /\ ~(n < 1) /\ n + 1 \in 1 .. Past
BY AirplayAssumption DEF Sinks, Past, Stdout

(* The slots stay filled from the first one on. *)
LEMMA TableStep ==
  ASSUME TypeOK, TableInv, Next
  PROVE  TableInv'
<1> USE AirplayAssumption DEF TableInv, Running, TypeOK
<1>a. Sockets \subseteq Sinks /\ Sockets \subseteq Nat /\ File \notin Sockets
  BY DEF Sockets, Sinks, File, Stdout
<1>1. ASSUME OpenOutput PROVE TableInv'
  <2>1. /\ phase = "connect" /\ cursor \in Sinks /\ cursor \in Nat /\ UNCHANGED asked
        /\ \A n \in Sockets : sink[n] # "none" <=> n \in asked /\ n < cursor
    BY <1>1, Numbers DEF OpenOutput
  <2>2. \A n \in Sockets : n < cursor + 1 <=> n < cursor \/ n = cursor
    BY ONLY <1>a, <2>1
  <2>3. CASE /\ cursor \in asked /\ sink' = [sink EXCEPT ![cursor] = "open"]
             /\ cursor' = cursor + 1 /\ UNCHANGED phase
    <3>1. \A n \in Sockets : sink'[n] = IF n = cursor THEN "open" ELSE sink[n]
      BY <1>a, <2>1, <2>3
    <3>2. \A n \in Sockets : sink'[n] # "none" <=> n \in asked /\ n < cursor'
      BY <2>1, <2>2, <2>3, <3>1
    <3> QED
      BY <2>1, <2>3, <3>2
  <2>4. CASE /\ cursor \notin asked \/ cursor = File
             /\ cursor' = cursor + 1 /\ UNCHANGED <<phase, sink>>
    <3>1. \A n \in Sockets : sink[n] # "none" <=> n \in asked /\ n < cursor'
      BY <1>a, <2>1, <2>2, <2>4
    <3> QED
      BY <2>1, <2>4, <3>1
  <2>5. CASE phase' = "ended"
    BY <2>1, <2>5
  <2> QED
    BY <1>1, <2>3, <2>4, <2>5 DEF OpenOutput
<1>2. ASSUME CheckOutputs PROVE TableInv'
  BY <1>2 DEF CheckOutputs, Sockets, Stdout, Past, packetVars, netVars
<1>3. ASSUME InitMirroring \/ EmitPacket(pictures + 1) PROVE TableInv'
  BY <1>3 DEF InitMirroring, EmitPacket, netVars
<1>4. ASSUME RefuseExtradata \/ BrokenPipe \/ Abort PROVE TableInv'
  BY <1>4 DEF RefuseExtradata, BrokenPipe, Abort
<1>5. ASSUME SkipMissing \/ Send \/ MessageSent PROVE TableInv'
  BY <1>5 DEF SkipMissing, Send, MessageSent, Sending
<1>6. ASSUME SendLost PROVE TableInv'
  <2>1. /\ phase = "live" /\ UNCHANGED <<asked, phase>> /\ sink[cursor] = "closing"
        /\ sink' = sink \/ sink' = [sink EXCEPT ![cursor] = "broken"]
    BY <1>6 DEF SendLost, Sending
  <2>2. \A n \in Sockets : sink'[n] # "none" <=> sink[n] # "none"
    BY <1>a, <2>1
  <2> QED
    BY <2>1, <2>2
<1>7. ASSUME CloseOutputs PROVE TableInv'
  BY <1>7 DEF CloseOutputs
<1>8. ASSUME NEW n \in Sinks, DeviceRead(n) \/ DeviceClose(n) PROVE TableInv'
  <2>1. /\ UNCHANGED <<asked, phase, cursor>> /\ sink[n] = "open"
        /\ sink' = sink \/ sink' = [sink EXCEPT ![n] = "closing"]
    BY <1>8 DEF DeviceRead, DeviceClose
  <2>2. \A m \in Sockets : sink'[m] # "none" <=> sink[m] # "none"
    BY <1>a, <2>1
  <2> QED
    BY <2>1, <2>2
<1> QED
  BY <1>1, <1>2, <1>3, <1>4, <1>5, <1>6, <1>7, <1>8 DEF Next, SendToOutputs

(* The loop passes over outputs only when they are not connected: behind the  *)
(* first 0 slot there is no device.                                           *)
LEMMA PassedOver ==
  ASSUME TypeOK, TableInv, SkipMissing \/ SendLost
  PROVE  /\ cursor \in Sinks /\ cursor' \in Nat /\ cursor < cursor'
         /\ \A n \in Sinks : ~(n < cursor) /\ n < cursor' => sink[n] # "open"
         /\ \A n \in Sinks : sink'[n] = "open" => sink[n] = "open"
         /\ todo # <<>> /\ UNCHANGED <<phase, todo, log, streams, taken>>
<1>1. /\ cursor \in Sinks /\ sink[cursor] # "open" /\ phase = "live"
      /\ todo # <<>> /\ UNCHANGED <<phase, todo, log, streams, taken>>
      /\ \A n \in Sinks : sink'[n] = "open" => sink[n] = "open"
  BY DEF SkipMissing, SendLost, Sending, TypeOK, packetVars, netVars
<1>2. CASE cursor' = cursor + 1
  BY <1>1, <1>2, Numbers
<1>3. CASE SkipMissing /\ cursor \in Sockets
  <2>1. cursor' = File /\ cursor < File
    BY <1>3, AirplayAssumption DEF SkipMissing, AfterMissing, Sockets, File
  <2>2. ASSUME NEW n \in Sinks, ~(n < cursor), n < cursor' PROVE sink[n] # "open"
    <3>1. n \in Sockets /\ cursor \in 1 .. n
      BY <1>3, <2>1, <2>2, AirplayAssumption DEF Sinks, Sockets, File, Stdout
    <3>2. cursor \notin asked
      BY <1>1, <1>3 DEF TableInv, Running, SkipMissing
    <3>3. n \notin asked
      BY <3>1, <3>2 DEF TableInv, CommandLines
    <3> QED
      BY <1>1, <3>1, <3>3 DEF TableInv, Running
  <2> QED
    BY <1>1, <2>1, <2>2, AirplayAssumption DEF File
<1> QED
  BY <1>2, <1>3 DEF SkipMissing, SendLost, AfterMissing, AfterError

(* While the outputs are opened nothing has been sent. *)
LEMMA NothingSent ==
  ASSUME TypeOK, GrammarInv, QueueInv, phase = "connect", NEW n \in Sinks
  PROVE  streams[n] = <<>> /\ log = <<>> /\ todo = <<>>
<1>1. log = <<>> /\ todo = <<>>
  BY DEF GrammarInv
<1>2. Len(streams[n]) <= Len(log)
  BY <1>1 DEF QueueInv
<1>3. streams[n] \in Seq(Messages) /\ Len(log) = 0
  BY <1>1 DEF TypeOK
<1>4. Len(streams[n]) = 0
  BY <1>2, <1>3
<1> QED
  BY <1>1, <1>3, <1>4, EmptySeq

(* A step that leaves messages, streams and position alone and connects no   *)
(* output.                                                                   *)
LEMMA InStepKept ==
  ASSUME TypeOK, InStep, UNCHANGED <<todo, log, cursor, streams>>,
         \A n \in Sinks : sink'[n] = "open" => sink[n] = "open"
  PROVE  InStep'
BY DEF InStep

(* The outputs stay in step. *)
LEMMA InStepStep ==
  ASSUME TypeOK, TableInv, GrammarInv, InStep, QueueInv, Next
  PROVE  InStep'
<1>1. ASSUME OpenOutput PROVE InStep'
  BY <1>1, NothingSent DEF OpenOutput, InStep, packetVars, netVars
<1>2. ASSUME CheckOutputs PROVE InStep'
  BY <1>2, NothingSent DEF CheckOutputs, InStep, packetVars, netVars
<1>3. ASSUME InitMirroring \/ EmitPacket(pictures + 1) PROVE InStep'
  <2>1. /\ todo = <<>> /\ phase \in {"ready", "live"}
        /\ UNCHANGED <<cursor, sink, log, streams>>
    BY <1>3 DEF InitMirroring, EmitPacket, GrammarInv, netVars
  <2>2. cursor = 1
    BY <2>1 DEF QueueInv
  <2> QED
    BY <2>1, <2>2, Numbers DEF InStep
<1>4. ASSUME SkipMissing \/ SendLost PROVE InStep'
  <2>1. /\ cursor \in Sinks /\ cursor' \in Nat /\ cursor < cursor'
        /\ UNCHANGED <<todo, log, streams>>
    BY <1>4, PassedOver
  <2>2. \A n \in Sinks : sink'[n] = "open" => sink[n] = "open"
    BY <1>4, PassedOver
  <2>3. \A n \in Sinks : sink'[n] = "open" => (n < cursor' <=> n < cursor)
    BY <1>4, <2>1, <2>2, PassedOver, Numbers
  <2> QED
    BY <2>1, <2>2, <2>3 DEF InStep
<1>5. ASSUME Send PROVE InStep'
  <2>1. /\ cursor \in Sinks /\ sink[cursor] = "open" /\ todo # <<>>
        /\ streams' = [streams EXCEPT ![cursor] = Append(streams[cursor], Head(todo))]
        /\ cursor' = cursor + 1 /\ UNCHANGED <<todo, log, sink>>
    BY <1>5 DEF Send, Sending, packetVars
  <2> SUFFICES ASSUME NEW n \in Sinks, sink[n] = "open"
               PROVE  streams'[n] = IF n < cursor' THEN Append(log, Head(todo)) ELSE log
    BY <2>1 DEF InStep
  <2>2. CASE n = cursor
    <3>1. streams[n] = log
      BY <2>1, <2>2, Numbers DEF InStep
    <3>2. n < cursor'
      BY <2>1, <2>2, Numbers
    <3> QED
      BY <2>1, <2>2, <3>1, <3>2 DEF TypeOK
  <2>3. CASE n # cursor
    <3>1. n < cursor' <=> n < cursor
      BY <2>1, <2>3, Numbers
    <3>2. streams'[n] = streams[n]
      BY <2>1, <2>3 DEF TypeOK
    <3> QED
      BY <2>1, <3>1, <3>2 DEF InStep
  <2> QED
    BY <2>2, <2>3
<1>6. ASSUME MessageSent PROVE InStep'
  <2>1. /\ todo # <<>> /\ cursor = Past /\ log' = Append(log, Head(todo))
        /\ cursor' = 1 /\ UNCHANGED <<sink, streams>>
    BY <1>6 DEF MessageSent, netVars
  <2>2. \A n \in Sinks : n < cursor /\ ~(n < cursor')
    BY <2>1, Numbers
  <2> QED
    BY <2>1, <2>2 DEF InStep
<1>7. ASSUME RefuseExtradata \/ BrokenPipe \/ Abort PROVE InStep'
  BY <1>7, InStepKept DEF RefuseExtradata, BrokenPipe, Abort, packetVars, netVars
<1>8. ASSUME CloseOutputs PROVE InStep'
  BY <1>8, InStepKept DEF CloseOutputs, packetVars, netVars
<1>9. ASSUME NEW n \in Sinks, DeviceRead(n) \/ DeviceClose(n) PROVE InStep'
  <2>1. /\ UNCHANGED <<todo, log, cursor, streams>>
        /\ sink' = sink \/ sink' = [sink EXCEPT ![n] = "closing"]
    BY <1>9 DEF DeviceRead, DeviceClose, packetVars, netVars
  <2> QED
    BY <2>1, InStepKept DEF TypeOK
<1> QED
  BY <1>1, <1>2, <1>3, <1>4, <1>5, <1>6, <1>7, <1>8, <1>9 DEF Next, SendToOutputs

-----------------------------------------------------------------------------
(* The queues. *)
LEMMA QueueStep ==
  ASSUME TypeOK, TableInv, GrammarInv, InStep, QueueInv, Next
  PROVE  QueueInv'
<1> DEFINE Ahead == \A n \in Sinks : Len(streams[n]) <= IF todo # <<>> /\ n < cursor
                                                         THEN Len(log) + 1 ELSE Len(log)
           Unread == \A n \in Sinks \ {File} :
                       sink[n] = "open" => Len(streams[n]) <= taken[n] + SendBuf
           Position == phase \in {"ready", "live"} /\ todo = <<>> => cursor = 1
<1>a. QueueInv <=> Position /\ Ahead /\ Unread
  BY DEF QueueInv
<1>b. QueueInv' <=> Position' /\ Ahead' /\ Unread'
  BY DEF QueueInv
<1>c. /\ Len(log) \in Nat /\ \A n \in Sinks : Len(streams[n]) \in Nat /\ taken[n] \in Nat
  BY DEF TypeOK
<1>d. SendBuf \in Nat \ {0}
  BY AirplayAssumption
<1>1. ASSUME OpenOutput PROVE QueueInv'
  <2>1. /\ UNCHANGED <<todo, log, streams, taken>>
        /\ phase' \in {"connect", "ended"}
    BY <1>1 DEF OpenOutput, packetVars, netVars
  <2>2. log = <<>> /\ todo = <<>> /\ \A n \in Sinks : Len(streams[n]) = 0
    BY <1>1, <1>c, NothingSent DEF OpenOutput, GrammarInv
  <2>3. Position' /\ Ahead'
    BY <2>1, <2>2
  <2>4. Unread'
    BY <2>1, <2>2, <1>c, <1>d
  <2> QED
    BY <1>b, <2>3, <2>4
<1>2. ASSUME CheckOutputs PROVE QueueInv'
  <2>1. cursor' = 1 /\ UNCHANGED <<todo, log, streams, taken, sink>> /\ todo = <<>>
    BY <1>2 DEF CheckOutputs, GrammarInv, packetVars, netVars
  <2> QED
    BY <1>a, <1>b, <2>1
<1>3. ASSUME InitMirroring \/ EmitPacket(pictures + 1) PROVE QueueInv'
  <2>1. /\ todo = <<>> /\ phase \in {"ready", "live"}
        /\ UNCHANGED <<cursor, sink, log, streams, taken>>
    BY <1>3 DEF InitMirroring, EmitPacket, GrammarInv, netVars
  <2>2. cursor = 1
    BY <2>1 DEF QueueInv
  <2> QED
    BY <1>a, <1>b, <2>1, <2>2, Numbers
<1>4. ASSUME SkipMissing \/ SendLost PROVE QueueInv'
  <2>1. /\ cursor \in Sinks /\ cursor' \in Nat /\ cursor < cursor' /\ todo # <<>>
        /\ UNCHANGED <<phase, todo, log, streams, taken>>
    BY <1>4, PassedOver
  <2>2. \A n \in Sinks : sink'[n] = "open" => sink[n] = "open"
    BY <1>4, PassedOver
  <2>3. \A n \in Sinks : n < cursor => n < cursor'
    BY <2>1, Numbers
  <2>4. Ahead'
    BY <1>a, <1>c, <2>1, <2>3
  <2>5. Unread'
    BY <1>a, <2>1, <2>2
  <2> QED
    BY <1>b, <2>1, <2>4, <2>5
<1>5. ASSUME Send PROVE QueueInv'
  <2>1. /\ cursor \in Sinks /\ sink[cursor] = "open" /\ todo # <<>> /\ Room(cursor)
        /\ streams' = [streams EXCEPT ![cursor] = Append(streams[cursor], Head(todo))]
        /\ cursor' = cursor + 1 /\ UNCHANGED <<phase, todo, log, sink, taken>>
    BY <1>5 DEF Send, Sending, packetVars
  <2>2. Len(streams'[cursor]) = Len(streams[cursor]) + 1
    <3>1. Head(todo) \in Messages /\ streams[cursor] \in Seq(Messages)
      BY <2>1 DEF TypeOK
    <3>2. streams'[cursor] = Append(streams[cursor], Head(todo))
      BY <2>1 DEF TypeOK
    <3> QED
      BY <3>1, <3>2
  <2>3. \A n \in Sinks : n # cursor => streams'[n] = streams[n]
    BY <2>1 DEF TypeOK
  <2>4. Len(streams[cursor]) <= Len(log)
    BY <1>a, <2>1, Numbers
  <2>5. ASSUME NEW n \in Sinks PROVE Len(streams'[n]) <= IF n < cursor'
                                            THEN Len(log) + 1 ELSE Len(log)
    <3>1. CASE n = cursor
      BY <1>c, <2>1, <2>2, <2>4, <3>1, Numbers
    <3>2. CASE n # cursor
      <4>1. n < cursor' <=> n < cursor
        BY <2>1, <3>2, Numbers
      <4> QED
        BY <1>a, <2>1, <2>3, <3>2, <4>1
    <3> QED
      BY <3>1, <3>2
  <2>6. Ahead'
    BY <2>1, <2>5
  <2>7. cursor # File => Len(streams'[cursor]) <= taken[cursor] + SendBuf
    BY <1>c, <1>d, <2>1, <2>2 DEF Room
  <2>8. Unread'
    BY <1>a, <2>1, <2>3, <2>7
  <2> QED
    BY <1>b, <2>1, <2>6, <2>8
<1>6. ASSUME MessageSent PROVE QueueInv'
  <2>1. /\ todo # <<>> /\ cursor = Past /\ log' = Append(log, Head(todo))
        /\ cursor' = 1 /\ UNCHANGED <<sink, streams, taken>>
    BY <1>6 DEF MessageSent, netVars
  <2>2. Len(log') = Len(log) + 1
    BY <2>1 DEF TypeOK
  <2>3. \A n \in Sinks : n < cursor /\ ~(n < cursor')
    BY <2>1, Numbers
  <2>4. Ahead'
    BY <1>a, <1>c, <2>1, <2>2, <2>3
  <2> QED
    BY <1>a, <1>b, <2>1, <2>4
<1>7. ASSUME RefuseExtradata \/ BrokenPipe \/ Abort PROVE QueueInv'
  <2>1. /\ UNCHANGED <<todo, log, streams, taken, cursor, sink>>
        /\ phase' \in {"ended", "killed"}
    BY <1>7 DEF RefuseExtradata, BrokenPipe, Abort, packetVars, netVars
  <2> QED
    BY <1>a, <1>b, <2>1
<1>8. ASSUME CloseOutputs PROVE QueueInv'
  <2>1. /\ UNCHANGED <<todo, log, streams, taken, cursor>> /\ phase' = "ended"
        /\ \A n \in Sinks : sink'[n] # "open"
    BY <1>8 DEF CloseOutputs, packetVars, netVars
  <2> QED
    BY <1>a, <1>b, <2>1
<1>9. ASSUME NEW n \in Sinks, DeviceRead(n) PROVE QueueInv'
  <2>1. /\ UNCHANGED <<phase, todo, log, streams, cursor, sink>>
        /\ taken' = [taken EXCEPT ![n] = taken[n] + 1]
    BY <1>9 DEF DeviceRead, packetVars
  <2>2. \A m \in Sinks : taken'[m] >= taken[m] /\ taken'[m] \in Nat
    BY <1>c, <2>1 DEF TypeOK
  <2>3. Unread'
    BY <1>a, <1>c, <1>d, <2>1, <2>2
  <2> QED
    BY <1>a, <1>b, <2>1, <2>3
<1>10. ASSUME NEW n \in Sinks, DeviceClose(n) PROVE QueueInv'
  <2>1. /\ UNCHANGED <<phase, todo, log, streams, taken, cursor>>
        /\ sink' = [sink EXCEPT ![n] = "closing"]
    BY <1>10 DEF DeviceClose, packetVars, netVars
  <2>2. \A m \in Sinks : sink'[m] = "open" => sink[m] = "open"
    BY <2>1 DEF TypeOK
  <2> QED
    BY <1>a, <1>b, <2>1, <2>2
<1> QED
  BY <1>1, <1>2, <1>3, <1>4, <1>5, <1>6, <1>7, <1>8, <1>9, <1>10 DEF Next, SendToOutputs

-----------------------------------------------------------------------------
(* The pictures in the log.                                                  *)

(* Appending a message counts it if it carries a picture. *)
LEMMA PicturesAppend ==
  ASSUME NEW s \in Seq(Messages), NEW m \in Messages
  PROVE  /\ PicturesIn(s) \in Nat
         /\ PicturesIn(Append(s, m)) = PicturesIn(s) + IF IsData(m) THEN 1 ELSE 0
<1> DEFINE k == Len(s) + 1
           t == Append(s, m)
           D == {i \in 1 .. Len(s) : IsData(s[i])}
           E == {i \in 1 .. Len(t) : IsData(t[i])}
<1>1. /\ Len(s) \in Nat /\ Len(t) = k /\ t[k] = m
      /\ \A i \in 1 .. Len(s) : t[i] = s[i]
  OBVIOUS
<1>2. IsFiniteSet(D) /\ Cardinality(D) \in Nat
  <2>1. IsFiniteSet(1 .. Len(s)) /\ D \subseteq 1 .. Len(s)
    BY <1>1, FS_Interval
  <2> QED
    BY <2>1, FS_Subset, FS_CardinalityType
<1>3. E = IF IsData(m) THEN D \union {k} ELSE D
  <2> HIDE DEF t
  <2>1. 1 .. Len(t) = (1 .. Len(s)) \union {k}
    BY <1>1
  <2>2. k \notin 1 .. Len(s)
    BY <1>1
  <2> QED
    BY <1>1, <2>1, <2>2
<1>4. k \notin D
  BY <1>1
<1>5. Cardinality(D \union {k}) = Cardinality(D) + 1
  BY <1>2, <1>4, FS_AddElement
<1>6. PicturesIn(s) = Cardinality(D) /\ PicturesIn(t) = Cardinality(E)
  BY ONLY DEF PicturesIn
<1> HIDE DEF D, E
<1>7. CASE IsData(m)
  BY <1>2, <1>3, <1>5, <1>6, <1>7
<1>8. CASE ~IsData(m)
  BY <1>2, <1>3, <1>6, <1>8
<1> QED
  BY <1>7, <1>8

(* The packet stays in hand until its last message, the data, is sent. *)
LEMMA SentInHand ==
  ASSUME todo \in Seq(Messages), todo # <<>>, todo' = Tail(todo),
         \A i \in 1 .. Len(todo) - 1 : ~IsData(todo[i])
  PROVE  /\ InHand \in {0, 1} /\ InHand' \in {0, 1}
         /\ (IF IsData(Head(todo)) THEN 1 ELSE 0) + InHand' = InHand
<1> DEFINE m == Head(todo)
<1>1. /\ m = todo[1] /\ todo' \in Seq(Messages)
      /\ Len(todo') = Len(todo) - 1 /\ Len(todo) \in Nat \ {0}
      /\ \A i \in 1 .. Len(todo) - 1 : todo'[i] = todo[i + 1]
  BY SendFirst
<1> HIDE DEF m
<1>2. CASE Len(todo) = 1
  <2>1. todo' = <<>>
    BY <1>1, <1>2
  <2>2. InHand' = 0
    BY ONLY <2>1 DEF InHand
  <2>3. InHand = IF IsData(m) THEN 1 ELSE 0
    BY ONLY <1>1, <1>2, todo # <<>> DEF InHand
  <2> QED
    BY ONLY <2>2, <2>3 DEF m
<1>3. CASE Len(todo) > 1
  <2>1. ~IsData(m) /\ todo' # <<>> /\ Len(todo') = Len(todo) - 1
    <3>1. 1 \in 1 .. Len(todo) - 1 /\ Len(todo') > 0
      BY <1>1, <1>3
    <3>2. todo' # <<>>
      BY ONLY <3>1
    <3> QED
      BY <1>1, <3>1, <3>2
  <2>2. todo'[Len(todo')] = todo[Len(todo)]
    <3>1. Len(todo') \in 1 .. Len(todo) - 1 /\ Len(todo') + 1 = Len(todo)
      BY <1>1, <1>3
    <3> QED
      BY <1>1, <3>1
  <2>3. InHand' = InHand
    BY <2>1, <2>2 DEF InHand
  <2> QED
    BY <2>1, <2>3 DEF InHand, m
<1> QED
  BY <1>1, <1>2, <1>3

(* A step that leaves the messages alone, and reads only what was accepted. *)
LEMMA CountKept ==
  ASSUME TypeOK, CountInv, UNCHANGED <<todo, pictures, log>>,
         \A n \in Sinks : taken'[n] <= Len(streams'[n])
  PROVE  CountInv'
BY DEF CountInv, InHand

(* The log stays in order and each packet is counted once. *)
LEMMA CountStep ==
  ASSUME TypeOK, GrammarInv, CountInv, Next
  PROVE  CountInv'
<1>0. /\ PicturesIn(log) + InHand = pictures
      /\ \A i \in 1 .. Len(todo) - 1 : ~IsData(todo[i])
      /\ \A i \in 1 .. Len(log) - 1 : log[i + 1] = After(log[i])
      /\ \A n \in Sinks : taken[n] <= Len(streams[n])
      /\ log \in Seq(Messages) /\ todo \in Seq(Messages) /\ pictures \in Nat
  BY DEF CountInv, TypeOK
<1>1. ASSUME InitMirroring PROVE CountInv'
  <2>1. /\ todo = <<>> /\ UNCHANGED <<pictures, log, streams, taken>>
        /\ todo' = Handshake \/ UNCHANGED todo
    BY <1>1 DEF InitMirroring, GrammarInv, netVars
  <2>2. CASE todo' = Handshake
    <3>1. todo' # <<>> /\ Len(todo') = 2 /\ todo'[1].type = "http" /\ todo'[2].type = "plist"
      BY <2>2 DEF Handshake, Plain
    <3>2. \A i \in 1 .. Len(todo') - 1 : ~IsData(todo'[i])
      BY <3>1 DEF IsData
    <3>3. InHand = 0 /\ InHand' = 0
      BY <2>1, <3>1 DEF InHand, IsData
    <3> QED
      BY <1>0, <2>1, <3>2, <3>3 DEF CountInv
  <2>3. CASE UNCHANGED todo
    BY <1>0, <2>1, <2>3, CountKept
  <2> QED
    BY <2>1, <2>2, <2>3
<1>2. ASSUME EmitPacket(pictures + 1) PROVE CountInv'
  <2> DEFINE p == pictures + 1
  <2>1. /\ todo = <<>> /\ pictures' = p /\ UNCHANGED <<log, streams, taken>>
        /\ todo' = FirstPacket(p) \/ todo' = Packet(p)
    BY <1>2 DEF EmitPacket, netVars
  <2>2. /\ todo' # <<>> /\ IsData(todo'[Len(todo')])
        /\ \A i \in 1 .. Len(todo') - 1 : ~IsData(todo'[i])
    <3>1. CASE todo' = Packet(p)
      BY <3>1 DEF Packet, Picture, IsData
    <3>2. CASE todo' = FirstPacket(p)
      <4>1. /\ todo' # <<>> /\ Len(todo') = 5
            /\ todo'[1].type = "heartbeat" /\ todo'[2].type = "codec"
            /\ todo'[3].type = "avcc" /\ todo'[4].type = "video" /\ todo'[5].type = "data"
        BY ONLY <3>2 DEF FirstPacket, Plain, Picture
      <4> QED
        BY ONLY <4>1 DEF IsData
    <3> QED
      BY <2>1, <3>1, <3>2
  <2>3. InHand = 0 /\ InHand' = 1
    BY <2>1, <2>2 DEF InHand
  <2>4. PicturesIn(log)' = PicturesIn(log)
    BY <2>1
  <2>5. PicturesIn(log) = pictures
    BY <1>0, <2>3, PicturesAppend, PlainTyped DEF Types
  <2>6. PicturesIn(log)' + InHand' = pictures'
    BY <2>1, <2>3, <2>4, <2>5
  <2> QED
    BY <1>0, <2>1, <2>2, <2>6 DEF CountInv
<1>3. ASSUME MessageSent PROVE CountInv'
  <2> DEFINE m == Head(todo)
  <2>1. /\ todo # <<>> /\ log' = Append(log, m) /\ todo' = Tail(todo)
        /\ UNCHANGED <<pictures, streams, taken>>
    BY <1>3 DEF MessageSent, netVars
  <2>2. /\ m \in Messages /\ m = todo[1] /\ m = NextMessage(log)
        /\ todo' \in Seq(Messages) /\ Len(todo') = Len(todo) - 1 /\ Len(todo) \in Nat \ {0}
        /\ \A i \in 1 .. Len(todo) - 1 : todo'[i] = todo[i + 1]
    BY <1>0, <2>1, SendFirst DEF GrammarInv
  <2> HIDE DEF m
  <2>3. \A i \in 1 .. Len(log') - 1 : log'[i + 1] = After(log'[i])
    <3>1. /\ Len(log) \in Nat /\ Len(log') = Len(log) + 1 /\ log'[Len(log) + 1] = m
          /\ \A i \in 1 .. Len(log) : log'[i] = log[i]
      BY <1>0, <2>1, <2>2
    <3> SUFFICES ASSUME NEW i \in 1 .. Len(log) PROVE log'[i + 1] = After(log'[i])
      BY <3>1
    <3>2. CASE i < Len(log)
      BY <1>0, <3>1, <3>2
    <3>3. CASE i = Len(log)
      <4>1. log # <<>> /\ m = After(log[Len(log)])
        BY <2>2, <3>1, <3>3 DEF NextMessage
      <4> QED
        BY <3>1, <3>3, <4>1
    <3> QED
      BY <3>1, <3>2, <3>3
  <2>4. \A i \in 1 .. Len(todo') - 1 : ~IsData(todo'[i])
    BY <1>0, <2>2
  <2>5. /\ PicturesIn(log) \in Nat
        /\ PicturesIn(log') = PicturesIn(log) + IF IsData(m) THEN 1 ELSE 0
    BY <1>0, <2>1, <2>2, PicturesAppend
  <2>6. (IF IsData(m) THEN 1 ELSE 0) + InHand' = InHand
    BY <1>0, <2>1, SentInHand DEF m
  <2>7. PicturesIn(log)' + InHand' = pictures'
    <3> DEFINE a == PicturesIn(log)
               b == PicturesIn(log')
               d == IF IsData(m) THEN 1 ELSE 0
               h == InHand
               k == InHand'
    <3>1. /\ a \in Nat /\ d \in Nat /\ h \in Nat /\ k \in Nat
          /\ a + h = pictures /\ b = a + d /\ d + k = h
      BY <1>0, <2>5, <2>6 DEF InHand
    <3> HIDE DEF a, b, d, h, k
    <3>2. b + k = pictures
      BY ONLY <3>1
    <3> QED
      BY <2>1, <3>2 DEF b, k
  <2> QED
    BY <1>0, <2>1, <2>3, <2>4, <2>7 DEF CountInv
<1>4. ASSUME Send PROVE CountInv'
  <2>1. /\ cursor \in Sinks /\ todo # <<>> /\ UNCHANGED <<todo, pictures, log, taken>>
        /\ streams' = [streams EXCEPT ![cursor] = Append(streams[cursor], Head(todo))]
    BY <1>4 DEF Send, Sending, packetVars
  <2>2. \A n \in Sinks : Len(streams'[n]) >= Len(streams[n]) /\ taken[n] \in Nat
    <3>1. Head(todo) \in Messages /\ \A n \in Sinks : streams[n] \in Seq(Messages)
      BY <1>0, <2>1 DEF TypeOK
    <3>2. Len(Append(streams[cursor], Head(todo))) = Len(streams[cursor]) + 1
      BY <2>1, <3>1
    <3>3. \A n \in Sinks : Len(streams[n]) \in Nat /\ taken[n] \in Nat
      BY <3>1 DEF TypeOK
    <3>4. \A n \in Sinks : streams'[n] = IF n = cursor THEN Append(streams[cursor], Head(todo))
                                                        ELSE streams[n]
      BY <2>1 DEF TypeOK
    <3> QED
      BY <2>1, <3>2, <3>3, <3>4
  <2>3. \A n \in Sinks : Len(streams'[n]) \in Nat /\ Len(streams[n]) \in Nat
    <3>1. streams' \in [Sinks -> Seq(Messages)]
      BY TypingStep DEF TypeOK
    <3> QED
      BY <3>1 DEF TypeOK
  <2>4. \A n \in Sinks : taken'[n] <= Len(streams'[n])
    BY <1>0, <2>1, <2>2, <2>3
  <2> QED
    BY <2>1, <2>4, CountKept
<1>5. ASSUME NEW n \in Sinks, DeviceRead(n) PROVE CountInv'
  <2>1. /\ taken[n] < Len(streams[n]) /\ taken' = [taken EXCEPT ![n] = taken[n] + 1]
        /\ UNCHANGED <<todo, pictures, log, streams>>
    BY <1>5 DEF DeviceRead, packetVars
  <2>2. \A m \in Sinks : Len(streams[m]) \in Nat /\ taken[m] \in Nat
    BY DEF TypeOK
  <2>3. \A m \in Sinks : taken'[m] <= Len(streams'[m])
    BY <1>0, <2>1, <2>2 DEF TypeOK
  <2> QED
    BY <2>1, <2>3, CountKept
<1>6. ASSUME UNCHANGED <<todo, pictures, log, streams, taken>> PROVE CountInv'
  BY <1>0, <1>6, CountKept
<1>7. ASSUME OpenOutput \/ CheckOutputs \/ RefuseExtradata PROVE CountInv'
  BY <1>6, <1>7 DEF OpenOutput, CheckOutputs, RefuseExtradata, packetVars, netVars
<1>8. ASSUME SkipMissing \/ SendLost \/ BrokenPipe PROVE CountInv'
  BY <1>6, <1>8 DEF SkipMissing, SendLost, BrokenPipe, packetVars, netVars
<1>9. ASSUME CloseOutputs \/ Abort \/ \E n \in Sinks : DeviceClose(n) PROVE CountInv'
  BY <1>6, <1>9 DEF CloseOutputs, Abort, DeviceClose, packetVars, netVars
<1> QED
  BY <1>1, <1>2, <1>3, <1>4, <1>5, <1>7, <1>8, <1>9 DEF Next, SendToOutputs

-----------------------------------------------------------------------------
(* The invariant and what it implies.                                        *)

(* It holds when the program starts. *)
LEMMA Start == ASSUME Init PROVE DeliveryInv
<1> USE AirplayAssumption DEF Init
<1>1. TypeOK
  <2>1. asked \subseteq Sinks
    BY DEF CommandLines
  <2>2. cursor \in 1 .. Past
    BY DEF Past, Stdout
  <2> QED
    BY <2>1, <2>2 DEF TypeOK, Phases, SinkStates
<1>2. GrammarInv
  BY DEF GrammarInv
<1>3. InStep
  BY DEF InStep
<1>4. QueueInv
  BY DEF QueueInv
<1>5. TableInv
  BY DEF TableInv, Sockets, Sinks, Stdout
<1>6. CountInv
  <2>1. PicturesIn(<<>>) = 0
    BY FS_EmptySet DEF PicturesIn
  <2>2. \A n \in Sinks : Len(streams[n]) = 0 /\ taken[n] = 0
    OBVIOUS
  <2> QED
    BY <2>1, <2>2 DEF CountInv, InHand
<1> QED
  BY <1>1, <1>2, <1>3, <1>4, <1>5, <1>6 DEF DeliveryInv

(* Every step, stuttering included, preserves it. *)
LEMMA InvStep == DeliveryInv /\ [Next]_vars => DeliveryInv'
<1>1. ASSUME DeliveryInv, [Next]_vars PROVE DeliveryInv'
  <2>1. CASE Next
    BY <1>1, <2>1, TypingStep, TableStep, GrammarStep, InStepStep, QueueStep, CountStep
      DEF DeliveryInv
  <2>2. CASE UNCHANGED vars
    <3>1. UNCHANGED <<asked, phase, cursor, sink, todo, refresh, pictures, log,
                      streams, taken>>
      BY <2>2 DEF vars
    <3>2. TypeOK'
      BY <1>1, <3>1 DEF DeliveryInv, TypeOK
    <3>3. GrammarInv'
      BY <1>1, <3>1 DEF DeliveryInv, GrammarInv
    <3>4. InStep' /\ QueueInv'
      BY <1>1, <3>1 DEF DeliveryInv, InStep, QueueInv
    <3>5. TableInv'
      BY <1>1, <3>1 DEF DeliveryInv, TableInv, Running
    <3>6. CountInv'
      BY <1>1, <3>1 DEF DeliveryInv, CountInv, InHand
    <3> QED
      BY <3>2, <3>3, <3>4, <3>5, <3>6 DEF DeliveryInv
  <2> QED
    BY <1>1, <2>1, <2>2
<1> QED
  BY <1>1

(* The invariant is inductive: it holds in every reachable state. *)
THEOREM Invariance == Spec => []DeliveryInv
BY Start, InvStep, PTL DEF Spec

(* Every variable of the delivery keeps its type. *)
THEOREM TypeCorrect == Spec => []TypeOK
<1>1. DeliveryInv => TypeOK
  BY DEF DeliveryInv
<1> QED
  BY <1>1, Invariance, PTL

(* sendToOutputs keeps every output that is still connected in step: it has   *)
(* accepted the messages sent so far, whatever became of the others.          *)
THEOREM StepTogether == Spec => []InStep
<1>1. DeliveryInv => InStep
  BY DEF DeliveryInv
<1> QED
  BY <1>1, Invariance, PTL

(* The outputs are coupled by the blocking sends: no output is further ahead  *)
(* of a connected device than the buffer of that device and one message.      *)
THEOREM LagBound == Spec => []LagBounded
<1>1. ASSUME DeliveryInv PROVE LagBounded
  <2> SUFFICES ASSUME NEW n \in Sinks, NEW m \in Sinks \ {File}, sink[m] = "open"
               PROVE  Len(streams[n]) <= taken[m] + SendBuf + 1
    BY DEF LagBounded
  <2>1. /\ log \in Seq(Messages) /\ todo \in Seq(Messages)
        /\ streams[n] \in Seq(Messages) /\ streams[m] \in Seq(Messages)
        /\ taken[m] \in Nat /\ SendBuf \in Nat
    BY <1>1, AirplayAssumption DEF DeliveryInv, TypeOK
  <2>2. Len(log) <= Len(streams[m])
    <3>1. streams[m] = IF todo # <<>> /\ m < cursor THEN Append(log, Head(todo)) ELSE log
      BY <1>1 DEF DeliveryInv, InStep
    <3>2. todo # <<>> => Len(Append(log, Head(todo))) = Len(log) + 1
      <4>1. todo # <<>> => Head(todo) \in Messages
        BY ONLY <2>1
      <4> QED
        BY ONLY <2>1, <4>1
    <3> QED
      BY <2>1, <3>1, <3>2
  <2>3. Len(streams[m]) <= taken[m] + SendBuf
    BY <1>1 DEF DeliveryInv, QueueInv
  <2>4. Len(streams[n]) <= Len(log) + 1
    <3>1. Len(streams[n]) <= IF todo # <<>> /\ n < cursor THEN Len(log) + 1 ELSE Len(log)
      BY ONLY <1>1 DEF DeliveryInv, QueueInv
    <3>2. Len(log) \in Nat /\ Len(streams[n]) \in Nat
      BY ONLY <2>1
    <3> QED
      BY ONLY <3>1, <3>2
  <2> QED
    BY <2>1, <2>2, <2>3, <2>4
<1> QED
  BY <1>1, Invariance, PTL

-----------------------------------------------------------------------------
(* A step of the program writes the next message of the session to an output  *)
(* or leaves every output as it is.                                           *)
LEMMA StepMaps ==
  ASSUME DeliveryInv, [Next]_vars
  PROVE  [SessionNext]_streams
<1>1. ASSUME Send PROVE SessionNext
  <2>1. /\ cursor \in Sinks /\ sink[cursor] = "open" /\ todo # <<>>
        /\ streams' = [streams EXCEPT ![cursor] = Append(streams[cursor], Head(todo))]
    BY <1>1 DEF Send, Sending
  <2>2. streams[cursor] = log
    BY <2>1, Numbers DEF DeliveryInv, InStep
  <2>3. Head(todo) = NextMessage(streams[cursor])
    BY <2>1, <2>2 DEF DeliveryInv, GrammarInv
  <2>4. Write(cursor)
    BY <2>1, <2>3 DEF Write
  <2> QED
    BY <2>1, <2>4 DEF SessionNext
<1>2. ASSUME OpenOutput \/ CheckOutputs \/ InitMirroring \/ EmitPacket(pictures + 1)
             \/ RefuseExtradata
      PROVE  UNCHANGED streams
  BY <1>2 DEF OpenOutput, CheckOutputs, InitMirroring, EmitPacket, RefuseExtradata, netVars
<1>3. ASSUME SkipMissing \/ SendLost \/ BrokenPipe \/ MessageSent
      PROVE  UNCHANGED streams
  BY <1>3 DEF SkipMissing, SendLost, BrokenPipe, MessageSent, netVars
<1>4. ASSUME \/ CloseOutputs \/ Abort
             \/ \E n \in Sinks : DeviceRead(n) \/ DeviceClose(n)
             \/ UNCHANGED vars
      PROVE  UNCHANGED streams
  BY <1>4 DEF CloseOutputs, Abort, DeviceRead, DeviceClose, netVars, vars
<1> QED
  BY <1>1, <1>2, <1>3, <1>4 DEF Next, SendToOutputs

(* The program implements the mirroring session: every output receives a      *)
(* prefix of one well-formed session, each picture once and in turn.          *)
THEOREM Refinement == Spec => SessionSpec
<1>1. Init => SessionInit
  BY DEF Init, SessionInit
<1>2. DeliveryInv /\ [Next]_vars => [SessionNext]_streams
  BY StepMaps
<1> QED
  BY <1>1, <1>2, Invariance, PTL DEF Spec, SessionSpec
=============================================================================
