------------------------------- MODULE Mirror -------------------------------
(***************************************************************************)
(* The whole program: capture (Screencopy), the encoder, delivery          *)
(* (Airplay), joined the way main() joins them.  There is one thread, so   *)
(* the two halves take turns: nothing is dispatched while a message is     *)
(* being sent, and every exit of one half is the exit of the other.  Only  *)
(* the compositor and the devices run on regardless.                       *)
(*                                                                         *)
(* The stamp of a picture is its number, from its presentation by the      *)
(* compositor, through the encoder's queue, to the data messages.          *)
(***************************************************************************)
EXTENDS Naturals, Sequences

CONSTANTS
  Outputs, Geoms, NULL,              (* of Screencopy                         *)
  MaxSockets, SendBuf, MaxPictures,  (* of Airplay; MaxPictures also bounds   *)
                                     (* the pictures the compositor presents  *)
  EncDelay                           (* pictures the encoder holds back: 0    *)
                                     (* with the zerolatency tune of the code *)

VARIABLES
  pc, handled, want, opt_output_num, outs, output, bound, buffer,
  buffer_copy_done, frames, enc,
  offered, plugged, mode, frame, wire, shm, clock, dead

VARIABLES
  asked, phase, cursor, sink, todo, refresh, pictures, log, streams, taken

VARIABLE encq  (* pictures inside the encoder, by number *)

Cap == INSTANCE Screencopy WITH MaxRequest <- 1, Stamps <- MaxPictures + 1
Out == INSTANCE Airplay

ASSUME MirrorAssumption ==
  /\ EncDelay \in Nat
  /\ MaxSockets \in 0 .. 255 /\ MaxPictures \in Nat /\ SendBuf \in Nat \ {0}
  /\ NULL \notin Outputs \union Geoms \union Cap!Stamp \union Cap!Pictures

capVars == <<pc, handled, want, opt_output_num, outs, output, bound, buffer,
             buffer_copy_done, frames, enc, offered, plugged, mode, frame, wire,
             shm, clock, dead>>
outVars == <<asked, phase, cursor, sink, todo, refresh, pictures, log, streams, taken>>
vars == <<capVars, outVars, encq>>

(* One output is asked for with -o; the globals exist before the program. *)
Init ==
  /\ Cap!Init /\ want = 1
  /\ offered = Cap!Globals
  /\ Out!Init
  /\ encq = <<>>

-----------------------------------------------------------------------------
(* Capture steps, while delivery has nothing to do.                          *)

Idle == todo = <<>>

(* The registry, then the connections to the outputs, then the events. *)
MayDispatch ==
  \/ pc = "registry"
  \/ pc = "first" /\ phase = "ready"
  \/ pc = "loop" /\ Idle

CaptureStep ==
  /\ MayDispatch
  /\ \/ \E o \in Outputs : Cap!HandleGlobalOutput(o)
     \/ \E g \in Cap!Globals : Cap!HandleGlobalOther(g)
     \/ Cap!HandleBuffer \/ Cap!HandleFlags \/ Cap!HandleReady \/ Cap!HandleFailed
     \/ Cap!StartCapture \/ Cap!DispatchReturn \/ Cap!DispatchFail
  /\ IF pc' = "abort" THEN Out!Abort ELSE UNCHANGED outVars
  /\ UNCHANGED encq

(* The compositor does not wait for the program. *)
CompositorStep ==
  /\ \/ Cap!Advertise \/ Cap!AcceptCopy \/ Cap!FailFrame \/ Cap!Disconnect
     \/ clock <= MaxPictures /\ Cap!Present
     \/ \E o \in Outputs : Cap!ChangeMode(o) \/ Cap!Plug(o) \/ Cap!Unplug(o)
  /\ UNCHANGED <<outVars, encq>>

-----------------------------------------------------------------------------
(* Delivery steps.  They happen between the capture steps of the same thread. *)

OrExit == IF phase' \in {"ended", "killed"} THEN Cap!Terminate ELSE UNCHANGED capVars

OpenOutputs ==
  /\ pc = "first"
  /\ Out!OpenOutput \/ Out!CheckOutputs
  /\ OrExit
  /\ UNCHANGED encq

(* The encoder is opened, then the handshake is sent; either may fail. *)
StartSession ==
  /\ Out!InitMirroring
  /\ Cap!Setup
  /\ pc' = "abort" <=> phase' = "ended"
  /\ UNCHANGED encq

SendStep ==
  /\ Out!SendToOutputs \/ Out!RefuseExtradata
  /\ OrExit
  /\ UNCHANGED encq

DeviceStep ==
  /\ \E n \in Out!Sinks : Out!DeviceRead(n) \/ Out!DeviceClose(n)
  /\ UNCHANGED <<capVars, encq>>

-----------------------------------------------------------------------------
(* The loop body.                                                            *)

(* avcodec_send_frame: the picture in the shared memory enters the encoder. *)
Submit ==
  /\ Idle
  /\ Cap!Encode
  /\ IF pc' = "abort"
       THEN Out!Abort /\ UNCHANGED encq
       ELSE encq' = Append(encq, shm.stamp) /\ UNCHANGED outVars

Oldest == Head(encq)

(* avcodec_receive_packet gives a packet; its messages are sent. *)
ReceivePacket ==
  /\ pc = "renew" /\ Idle
  /\ Len(encq) > EncDelay
  /\ Out!EmitPacket(Oldest)
  /\ encq' = Tail(encq)
  /\ UNCHANGED capVars

NoDrain == TRUE                                 \* seeded fault: receive not repeated
Drained == Len(encq) <= EncDelay                \* avcodec_receive_packet: EAGAIN

RenewFrame ==
  /\ Idle /\ Drained
  /\ Cap!Renew
  /\ UNCHANGED <<outVars, encq>>

(* After the loop; what the encoder still holds is freed with it. *)
CloseAll ==
  /\ Cap!Cleanup
  /\ Out!CloseOutputs
  /\ encq' = <<>>

(* A signal, or exit() in a library call. *)
Stop ==
  /\ Cap!Terminate
  /\ Out!Abort
  /\ UNCHANGED encq

MainStep ==
  \/ CaptureStep \/ OpenOutputs \/ StartSession \/ SendStep
  \/ Submit \/ ReceivePacket \/ RenewFrame \/ CloseAll

Next == MainStep \/ CompositorStep \/ DeviceStep \/ Stop

Spec == Init /\ [][Next]_vars

(* The thread runs, the compositor answers every capture, devices read. *)
Fairness ==
  /\ WF_vars(MainStep)
  /\ WF_vars(CompositorStep /\ (Cap!Advertise \/ Cap!AcceptCopy \/ Cap!Present
                                \/ (frame.output \notin plugged /\ Cap!FailFrame)))
  /\ \A n \in Out!Sinks : WF_vars(Out!DeviceRead(n) /\ UNCHANGED <<capVars, encq>>)

-----------------------------------------------------------------------------
(* Properties.                                                               *)

Presented == clock - 1

(* Every output receives a prefix of the one session, and its n-th data       *)
(* message is the n-th picture the compositor has presented: none is skipped, *)
(* sent twice or overtaken between the two ends of the program.               *)
EndToEnd == Out!SessionSpec

(* What a connected device has read is never further behind the screen than   *)
(* the picture being handled, those the encoder holds back and those in its   *)
(* own kernel buffer: a slow device slows the capture down, no queue grows.   *)
Fresh ==
  \A n \in Out!Sinks \ {Out!File} :
    sink[n] = "open" =>
      Presented <= Out!PicturesIn(SubSeq(streams[n], 1, taken[n]))
                     + 1 + EncDelay + (SendBuf + 1) \div 2

(* A program that ends in an orderly way, at the end of main, has sent every  *)
(* picture it has encoded but those the encoder held back, which it does not  *)
(* flush.                                                                     *)
NothingLost ==
  pc = "done" /\ shm # NULL /\ shm.encoded =>
    Out!PicturesIn(log) + EncDelay >= shm.stamp

(* Every picture the compositor presents is sent to all outputs, unless the   *)
(* program ends.                                                              *)
EachPictureSent ==
  \A k \in 1 .. MaxPictures - EncDelay :
    (Presented >= k) ~> (Out!PicturesIn(log) >= k \/ pc \in Cap!Ended)

-----------------------------------------------------------------------------
(* The inductive invariant behind the safety properties, beside those of the  *)
(* two halves.                                                                *)

(* Where main() is: a packet is in hand only while the loop body delivers it, *)
(* and a picture is encoded before the next one is captured.                  *)
LoopInv ==
  /\ Cap!Running <=> Out!Running
  /\ Cap!Running /\ pc # "renew" => Out!InHand = 0
  /\ pc \notin {"renew", "abort"} => Len(encq) <= EncDelay
  /\ pc = "renew" => shm.encoded
  /\ Cap!Running /\ frame.stage # "done" => shm = NULL \/ shm.encoded

(* The encoder holds the pictures that follow on the packets it has given, up *)
(* to the picture in the shared memory if that has been encoded.              *)
NumberInv ==
  /\ \A i \in 1 .. Len(encq) : encq[i] = pictures + i
  /\ shm = NULL => Presented = 0 /\ pictures = 0 /\ encq = <<>>
  /\ shm # NULL => shm.stamp = Presented
  /\ shm # NULL /\ pc # "done" =>
       pictures + Len(encq) = IF shm.encoded THEN Presented ELSE Presented - 1

(* No more than one picture is on its way between screen and log besides the  *)
(* EncDelay that the encoder keeps.                                           *)
BacklogInv ==
  Len(encq) + Out!InHand <=
    EncDelay + IF shm # NULL /\ ~shm.encoded THEN 0 ELSE 1

(* The end of main. *)
DoneInv == pc = "done" =>
  /\ todo = <<>> /\ \A n \in Out!Sinks : sink[n] # "open"
  /\ shm # NULL /\ shm.encoded => Presented <= pictures + EncDelay

JointInv ==
  /\ encq \in Seq(Nat)
  /\ LoopInv /\ NumberInv /\ BacklogInv /\ DoneInv
=============================================================================
