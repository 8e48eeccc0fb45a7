------------------------------ MODULE Airplay ------------------------------
(***************************************************************************)
(* The delivery half of wlroots-airplay1-mirror: opening the outputs, the  *)
(* mirroring handshake and the packets, each message handed to one output  *)
(* after the other by sendToOutputs, which blocks on an output that is     *)
(* slow to read and ignores the result of every send.                      *)
(*                                                                         *)
(* The outputs are numbered in the order sendToOutputs visits them: the    *)
(* sockets, the file, stdout.  The kernel buffer of a socket or of a pipe  *)
(* holds SendBuf messages that the other end has not read yet.             *)
(***************************************************************************)
EXTENDS Naturals, Sequences

CONSTANTS
  MaxSockets,  (* bound: the most devices -a may name, one slot each          *)
  SendBuf,     (* bound: messages a kernel buffer holds                       *)
  MaxPictures  (* bound: pictures the encoder produces                        *)

ASSUME AirplayAssumption ==
  /\ MaxSockets \in 0 .. 255                      \* output_sockets has 255 slots
  /\ MaxPictures \in Nat
  /\ SendBuf \in Nat \ {0}

VARIABLES
  asked,     (* the outputs the command line names                            *)
  phase,     (* where main() is                                               *)
  cursor,    (* the output being opened, or sent to                           *)
  sink,      (* state of each output: "none" is slot 0 or a NULL FILE pointer *)
  todo,      (* messages still to be sent, the current one first              *)
  refresh,   (* codec_data_refresh                                            *)
  pictures,  (* packets taken from the encoder so far                         *)
  log,       (* history: the messages every output has been offered           *)
  streams,   (* what each output has accepted                                 *)
  taken      (* how much of it the other end has read                         *)

vars == <<asked, phase, cursor, sink, todo, refresh, pictures, log, streams, taken>>
netVars == <<streams, taken>>
packetVars == <<todo, refresh, pictures, log>>

Sockets == 1 .. MaxSockets
File == MaxSockets + 1
Stdout == MaxSockets + 2
Sinks == 1 .. Stdout
Past == Stdout + 1

INSTANCE MirrorSession

Phases == {"connect", "ready", "live", "ended", "killed"}
SinkStates == {"none", "open", "closing", "broken", "shut"}

TypeOK ==
  /\ asked \subseteq Sinks
  /\ phase \in Phases
  /\ cursor \in 1 .. Past
  /\ sink \in [Sinks -> SinkStates]
  /\ todo \in Seq(Messages)
  /\ refresh \in BOOLEAN
  /\ pictures \in Nat
  /\ log \in Seq(Messages)
  /\ streams \in [Sinks -> Seq(Messages)]
  /\ taken \in [Sinks -> Nat]

(* Any number of addresses after -a, with or without -f and -s. *)
CommandLines == {s \in SUBSET Sinks : \A n \in s \intersect Sockets : 1 .. n \subseteq s}

Init ==
  /\ asked \in CommandLines
  /\ phase = "connect" /\ cursor = 1
  /\ sink = [n \in Sinks |-> "none"]
  /\ todo = <<>> /\ refresh = TRUE /\ pictures = 0 /\ log = <<>>
  /\ streams = [n \in Sinks |-> <<>>]
  /\ taken = [n \in Sinks |-> 0]

Running == phase \in {"connect", "ready", "live"}

-----------------------------------------------------------------------------
(* Opening the outputs.                                                      *)

(* The next output is opened.  No answer from a device ends the program; a   *)
(* file that cannot be opened is a NULL pointer and is passed over.          *)
OpenOutput ==
  /\ phase = "connect" /\ cursor \in Sinks
  /\ \/ /\ cursor \in asked
        /\ sink' = [sink EXCEPT ![cursor] = "open"]
        /\ cursor' = cursor + 1 /\ UNCHANGED phase
     \/ /\ cursor \notin asked \/ cursor = File
        /\ cursor' = cursor + 1 /\ UNCHANGED <<phase, sink>>
     \/ /\ cursor \in asked \intersect Sockets
        /\ phase' = "ended" /\ UNCHANGED <<cursor, sink>>
  /\ UNCHANGED <<asked, packetVars, netVars>>

SomeOutput == \E n \in Sinks : sink[n] # "none"

CheckOutputs ==
  /\ phase = "connect" /\ cursor = Past
  /\ phase' = IF SomeOutput THEN "ready" ELSE "ended"
  /\ cursor' = 1
  /\ UNCHANGED <<asked, sink, packetVars, netVars>>

-----------------------------------------------------------------------------
(* What is sent.                                                             *)

HeadersOnly == <<Plain("http")>>                \* seeded fault: plist not sent
Handshake == <<Plain("http"), Plain("plist")>>

(* initMirroringConnection; without stream-mirror.bplist the program ends. *)
InitMirroring ==
  /\ phase = "ready"
  /\ \/ phase' = "live" /\ todo' = Handshake
     \/ phase' = "ended" /\ UNCHANGED todo
  /\ UNCHANGED <<asked, cursor, sink, refresh, pictures, log, netVars>>

Packet(p) == <<Picture("video", p), Picture("data", p)>>

FirstPacket(p) == <<Plain("heartbeat"), Plain("codec"), Plain("avcc"),
                    Picture("video", p), Picture("data", p)>>

KeepRefresh == refresh                          \* seeded fault: flag not reset
RefreshDone == FALSE

(* One packet of the encoder, picture p: the first one is preceded by the    *)
(* heartbeat and the codec description.                                      *)
EmitPacket(p) ==
  /\ phase = "live" /\ todo = <<>>
  /\ todo' = IF refresh THEN FirstPacket(p) ELSE Packet(p)
  /\ refresh' = RefreshDone
  /\ pictures' = pictures + 1
  /\ UNCHANGED <<asked, phase, cursor, sink, log, netVars>>

(* prepareAVCCData runs between heartbeat and codec header; a third NAL unit *)
(* in the extradata ends the program there.                                  *)
RefuseExtradata ==
  /\ phase = "live" /\ todo # <<>> /\ Head(todo) = Plain("codec") /\ cursor = 1
  /\ phase' = "ended"
  /\ UNCHANGED <<asked, cursor, sink, packetVars, netVars>>

-----------------------------------------------------------------------------
(* sendToOutputs: the current message goes to one output after the other.    *)

Sending == phase = "live" /\ todo # <<>> /\ cursor \in Sinks

Room(n) == n = File \/ Len(streams[n]) - taken[n] < SendBuf

SkipTwo == cursor + 2                           \* seeded fault: an output is passed over
AfterMissing == IF cursor \in Sockets THEN File ELSE cursor + 1

(* The first 0 in output_sockets ends the loop over the slots; no file or no  *)
(* stdout is passed over.                                                     *)
SkipMissing ==
  /\ Sending /\ sink[cursor] = "none"
  /\ cursor' = AfterMissing
  /\ UNCHANGED <<asked, phase, sink, packetVars, netVars>>

(* A blocking send: the whole message, once there is room for it. *)
Send ==
  /\ Sending /\ sink[cursor] = "open" /\ Room(cursor)
  /\ streams' = [streams EXCEPT ![cursor] = Append(@, Head(todo))]
  /\ cursor' = cursor + 1
  /\ UNCHANGED <<asked, phase, sink, packetVars, taken>>

RetryLost == cursor                             \* seeded fault: sent again for ever
BreakOff == Past                                \* seeded fault: an error ends the loop
AfterError == cursor + 1

(* The other end is gone.  A socket's next sends report it or are answered by *)
(* a reset, a full disk swallows the data, and stdio's buffer in front of     *)
(* stdout one more message (a bound): the result is ignored.                  *)
SendLost ==
  /\ Sending /\ sink[cursor] = "closing"
  /\ \/ cursor # File /\ sink' = [sink EXCEPT ![cursor] = "broken"]
     \/ cursor # Stdout /\ UNCHANGED sink
  /\ cursor' = AfterError
  /\ UNCHANGED <<asked, phase, packetVars, netVars>>

(* SIGPIPE is not handled: writing on kills the process, on stdout with the   *)
(* first write that stdio makes.                                             *)
BrokenPipe ==
  /\ Sending
  /\ sink[cursor] = "broken" \/ (sink[cursor] = "closing" /\ cursor = Stdout)
  /\ phase' = "killed"
  /\ UNCHANGED <<asked, cursor, sink, packetVars, netVars>>

(* sendToOutputs returns. *)
MessageSent ==
  /\ phase = "live" /\ todo # <<>> /\ cursor = Past
  /\ log' = Append(log, Head(todo))
  /\ todo' = Tail(todo)
  /\ cursor' = 1
  /\ UNCHANGED <<asked, phase, sink, refresh, pictures, netVars>>

-----------------------------------------------------------------------------
(* The end of main: every output is closed. *)
CloseOutputs ==
  /\ phase = "live" /\ todo = <<>>
  /\ phase' = "ended"
  /\ sink' = [n \in Sinks |-> IF sink[n] = "none" THEN "none" ELSE "shut"]
  /\ UNCHANGED <<asked, cursor, packetVars, netVars>>

(* exit(): the encoder or another library call has failed, between messages; *)
(* or a signal from the terminal.                                            *)
Abort ==
  /\ Running
  /\ phase' = "ended"
  /\ UNCHANGED <<asked, cursor, sink, packetVars, netVars>>

(* The other end, while the program runs. *)
DeviceRead(n) ==
  /\ Running
  /\ n # File /\ sink[n] = "open"
  /\ taken[n] < Len(streams[n])
  /\ taken' = [taken EXCEPT ![n] = @ + 1]
  /\ UNCHANGED <<asked, phase, cursor, sink, packetVars, streams>>

DeviceClose(n) ==
  /\ Running
  /\ sink[n] = "open"
  /\ sink' = [sink EXCEPT ![n] = "closing"]
  /\ UNCHANGED <<asked, phase, cursor, packetVars, netVars>>

-----------------------------------------------------------------------------
SendToOutputs == SkipMissing \/ Send \/ SendLost \/ BrokenPipe \/ MessageSent

Next ==
  \/ OpenOutput \/ CheckOutputs
  \/ InitMirroring
  \/ pictures < MaxPictures /\ EmitPacket(pictures + 1)
  \/ RefuseExtradata
  \/ SendToOutputs
  \/ CloseOutputs \/ Abort
  \/ \E n \in Sinks : DeviceRead(n) \/ DeviceClose(n)

Spec == Init /\ [][Next]_vars

(* The process runs, and a device that stays connected keeps reading. *)
Fairness ==
  /\ WF_vars(OpenOutput \/ CheckOutputs \/ InitMirroring \/ SendToOutputs)
  /\ \A n \in Sinks : WF_vars(DeviceRead(n))

FairSpec == Spec /\ Fairness

-----------------------------------------------------------------------------
(* Properties.  SessionSpec, from MirrorSession, is one: each output receives *)
(* a prefix of the one session, whatever happens to the others.               *)

(* sendToOutputs keeps the outputs in step: every output that is still        *)
(* connected has accepted exactly the messages sent so far, and the current   *)
(* one if the loop has passed it, however slow or dead the others are.        *)
InStep ==
  \A n \in Sinks : sink[n] = "open" =>
    streams[n] = IF todo # <<>> /\ n < cursor THEN Append(log, Head(todo)) ELSE log

(* Blocking sends couple the outputs: none ever gets further ahead of what a  *)
(* connected device has read than the buffer of that device, and one message. *)
LagBounded ==
  \A n \in Sinks, m \in Sinks \ {File} :
    sink[m] = "open" => Len(streams[n]) <= taken[m] + SendBuf + 1

(* No message is stuck: sendToOutputs comes to an end for each, unless the    *)
(* program itself ends.  Only devices that have hung up are not waited for.   *)
RoundsEnd == (todo # <<>>) ~> (todo = <<>> \/ phase \in {"ended", "killed"})
-----------------------------------------------------------------------------
(* The inductive invariant behind the safety properties.                     *)

(* What has been sent, what is being sent and what the next packet will bring *)
(* are consecutive in the session.                                            *)
GrammarInv ==
  /\ todo # <<>> => Head(todo) = NextMessage(log)
  /\ \A i \in 1 .. Len(todo) - 1 : todo[i + 1] = After(todo[i])
  /\ phase = "live" =>
       NextMessage(IF todo = <<>> THEN log ELSE todo) =
         IF refresh THEN Plain("heartbeat") ELSE Picture("video", pictures + 1)
  /\ phase \in {"connect", "ready"} => log = <<>> /\ todo = <<>> /\ refresh
  /\ refresh => pictures = 0

(* No output is more than the current message ahead of the log, none has more *)
(* unread than its buffer holds.                                              *)
QueueInv ==
  /\ phase \in {"ready", "live"} /\ todo = <<>> => cursor = 1
  /\ \A n \in Sinks : Len(streams[n]) <= IF todo # <<>> /\ n < cursor
                                             THEN Len(log) + 1 ELSE Len(log)
  /\ \A n \in Sinks \ {File} : sink[n] = "open" => Len(streams[n]) <= taken[n] + SendBuf

(* The slots are filled without a gap: the first 0 is behind the last device. *)
TableInv ==
  /\ asked \in CommandLines
  /\ Running => \A n \in Sockets :
       sink[n] # "none" <=> n \in asked /\ (phase = "connect" => n < cursor)

(* The log is in the order of the session and holds the data of each packet   *)
(* but the one in hand.                                                       *)
InHand == IF todo # <<>> /\ IsData(todo[Len(todo)]) THEN 1 ELSE 0

CountInv ==
  /\ \A i \in 1 .. Len(log) - 1 : log[i + 1] = After(log[i])
  /\ \A i \in 1 .. Len(todo) - 1 : ~IsData(todo[i])
  /\ PicturesIn(log) + InHand = pictures
  /\ \A n \in Sinks : taken[n] <= Len(streams[n])

DeliveryInv == TypeOK /\ TableInv /\ GrammarInv /\ InStep /\ QueueInv /\ CountInv
=============================================================================
