---------------------------- MODULE MirrorProofs ----------------------------
(***************************************************************************)
(* Proofs about the whole program, for any outputs, devices, buffer sizes, *)
(* numbers of pictures and encoder delays: its steps are steps of its two  *)
(* halves, so what is proved of those holds for it, and the pictures that  *)
(* are presented, encoded, sent and read are counted across both.          *)
(***************************************************************************)
EXTENDS Mirror, TLAPS, FiniteSets, SequenceTheorems, FiniteSetTheorems

(* The halves once more, with the lemmas that are proved about them. *)
CapP == INSTANCE ScreencopyProofs WITH MaxRequest <- 1, Stamps <- MaxPictures + 1
OutP == INSTANCE AirplayProofs

-----------------------------------------------------------------------------
(* The halves.                                                               *)

(* Both instances of the delivery count the pictures of a log alike. *)
LEMMA SameCount ==
  /\ \A S : Out!Cardinality(S) = Cardinality(S)
  /\ \A s : Out!PicturesIn(s) = OutP!PicturesIn(s)
<1>1. \A S : Out!Cardinality(S) = Cardinality(S)
  BY Zenon DEF Out!Cardinality, Cardinality
<1>2. \A S : Out!Cardinality(S) = OutP!Cardinality(S)
  BY Zenon DEF Out!Cardinality, OutP!Cardinality
<1>3. \A s : {i \in 1 .. Len(s) : Out!IsData(s[i])} = {i \in 1 .. Len(s) : OutP!IsData(s[i])}
  BY Zenon DEF Out!IsData, OutP!IsData
<1> QED
  BY <1>1, <1>2, <1>3, Zenon DEF Out!PicturesIn, OutP!PicturesIn

(* The count is a number. *)
LEMMA CountTyped ==
  ASSUME NEW s \in Seq(Out!Messages)
  PROVE  Out!PicturesIn(s) \in Nat
<1> DEFINE D == {i \in 1 .. Len(s) : Out!IsData(s[i])}
<1>1. IsFiniteSet(1 .. Len(s)) /\ D \subseteq 1 .. Len(s)
  BY FS_Interval
<1>2. IsFiniteSet(D)
  BY <1>1, FS_Subset
<1>3. Cardinality(D) \in Nat
  BY <1>2, FS_CardinalityType
<1> QED
  BY <1>3, SameCount DEF Out!PicturesIn

(* They define the same formulas. *)
LEMMA SameDelivery ==
  /\ Out!Init <=> OutP!Init
  /\ Out!Next <=> OutP!Next
  /\ Out!DeliveryInv <=> OutP!DeliveryInv
  /\ Out!DeliveryInv' <=> OutP!DeliveryInv'
  /\ Out!vars = OutP!vars /\ Out!vars' = OutP!vars'
  /\ Out!SessionInit <=> OutP!SessionInit
  /\ Out!SessionNext <=> OutP!SessionNext
<1> USE DEF
  Out!Types, Out!Messages, Out!Plain, Out!Picture, Out!After, Out!IsData,
  Out!NextMessage, Out!SessionInit, Out!Write, Out!SessionNext, Out!vars,
  Out!netVars, Out!packetVars, Out!Sockets, Out!File, Out!Stdout, Out!Sinks,
  Out!Past, Out!Phases, Out!SinkStates, Out!TypeOK, Out!CommandLines, Out!Init,
  Out!Running, Out!OpenOutput, Out!SomeOutput, Out!CheckOutputs, Out!Handshake,
  Out!InitMirroring, Out!Packet, Out!FirstPacket, Out!RefreshDone,
  Out!EmitPacket, Out!RefuseExtradata, Out!Sending, Out!Room, Out!AfterMissing,
  Out!SkipMissing, Out!Send, Out!AfterError, Out!SendLost, Out!BrokenPipe,
  Out!MessageSent, Out!CloseOutputs, Out!Abort, Out!DeviceRead,
  Out!DeviceClose, Out!SendToOutputs, Out!Next, Out!InStep, Out!GrammarInv,
  Out!QueueInv, Out!TableInv, Out!InHand, OutP!Types, OutP!Messages,
  OutP!Plain, OutP!Picture, OutP!After, OutP!IsData, OutP!NextMessage,
  OutP!SessionInit, OutP!Write, OutP!SessionNext, OutP!vars, OutP!netVars,
  OutP!packetVars, OutP!Sockets, OutP!File, OutP!Stdout, OutP!Sinks, OutP!Past,
  OutP!Phases, OutP!SinkStates, OutP!TypeOK, OutP!CommandLines, OutP!Init,
  OutP!Running, OutP!OpenOutput, OutP!SomeOutput, OutP!CheckOutputs,
  OutP!Handshake, OutP!InitMirroring, OutP!Packet, OutP!FirstPacket,
  OutP!RefreshDone, OutP!EmitPacket, OutP!RefuseExtradata, OutP!Sending,
  OutP!Room, OutP!AfterMissing, OutP!SkipMissing, OutP!Send, OutP!AfterError,
  OutP!SendLost, OutP!BrokenPipe, OutP!MessageSent, OutP!CloseOutputs,
  OutP!Abort, OutP!DeviceRead, OutP!DeviceClose, OutP!SendToOutputs, OutP!Next,
  OutP!InStep, OutP!GrammarInv, OutP!QueueInv, OutP!TableInv, OutP!InHand
<1>1. /\ Out!Init <=> OutP!Init
      /\ Out!Next <=> OutP!Next
      /\ Out!vars = OutP!vars /\ Out!vars' = OutP!vars'
      /\ Out!SessionInit <=> OutP!SessionInit
      /\ Out!SessionNext <=> OutP!SessionNext
  BY Zenon
<1>2. Out!CountInv <=> OutP!CountInv
  BY SameCount, Zenon DEF Out!CountInv, OutP!CountInv
<1>3. Out!CountInv' <=> OutP!CountInv'
  BY SameCount, Zenon DEF Out!CountInv, OutP!CountInv
<1>4. Out!DeliveryInv <=> OutP!DeliveryInv
  BY <1>2, Zenon DEF Out!DeliveryInv, OutP!DeliveryInv
<1>5. Out!DeliveryInv' <=> OutP!DeliveryInv'
  BY <1>3, Zenon DEF Out!DeliveryInv, OutP!DeliveryInv
<1> QED
  BY <1>1, <1>4, <1>5, Zenon

(* And those of the capture. *)
LEMMA SameCapture ==
  /\ Cap!Init <=> CapP!Init
  /\ Cap!Next <=> CapP!Next
  /\ Cap!InductiveInv <=> CapP!InductiveInv
  /\ Cap!InductiveInv' <=> CapP!InductiveInv'
  /\ Cap!vars = CapP!vars /\ Cap!vars' = CapP!vars'
BY Zenon DEF
  Cap!clientVars, Cap!serverVars, Cap!registryVars, Cap!vars, Cap!Globals,
  Cap!Dispatching, Cap!Ended, Cap!PCs, Cap!Stages, Cap!Events, Cap!Stamp,
  Cap!Buffers, Cap!Pictures, Cap!FrameObjects, Cap!TypeOK, Cap!NoFrame,
  Cap!Init, Cap!Announced, Cap!WantsOutput, Cap!OutputsLeft,
  Cap!HandleGlobalOutput, Cap!HandleGlobalOther, Cap!CaptureOutput,
  Cap!StartCapture, Cap!Deliver, Cap!CopyInto, Cap!HandleBuffer, Cap!Flag,
  Cap!HandleFlags, Cap!HandleReady, Cap!HandleFailed, Cap!DispatchReturn,
  Cap!AfterFail, Cap!DispatchFail, Cap!EncoderOpens, Cap!Setup, Cap!Encode,
  Cap!ResetCopyDone, Cap!Destroyed, Cap!Renew, Cap!Cleanup, Cap!Terminate,
  Cap!Serving, Cap!Pending, Cap!Advertise, Cap!AcceptCopy, Cap!NextStamp,
  Cap!Present, Cap!FailFrame, Cap!ChangeMode, Cap!Plug, Cap!Unplug,
  Cap!Disconnect, Cap!Listeners, Cap!Main, Cap!Compositor, Cap!Next,
  Cap!BoundOutput, Cap!Running, Cap!WireInv, Cap!FrameInv, Cap!BufferInv,
  Cap!ProgressInv, Cap!OutputInv, Cap!InductiveInv, CapP!clientVars,
  CapP!serverVars, CapP!registryVars, CapP!vars, CapP!Globals,
  CapP!Dispatching, CapP!Ended, CapP!PCs, CapP!Stages, CapP!Events,
  CapP!Stamp, CapP!Buffers, CapP!Pictures, CapP!FrameObjects, CapP!TypeOK,
  CapP!NoFrame, CapP!Init, CapP!Announced, CapP!WantsOutput, CapP!OutputsLeft,
  CapP!HandleGlobalOutput, CapP!HandleGlobalOther, CapP!CaptureOutput,
  CapP!StartCapture, CapP!Deliver, CapP!CopyInto, CapP!HandleBuffer,
  CapP!Flag, CapP!HandleFlags, CapP!HandleReady, CapP!HandleFailed,
  CapP!DispatchReturn, CapP!AfterFail, CapP!DispatchFail, CapP!EncoderOpens,
  CapP!Setup, CapP!Encode, CapP!ResetCopyDone, CapP!Destroyed, CapP!Renew,
  CapP!Cleanup, CapP!Terminate, CapP!Serving, CapP!Pending, CapP!Advertise,
  CapP!AcceptCopy, CapP!NextStamp, CapP!Present, CapP!FailFrame,
  CapP!ChangeMode, CapP!Plug, CapP!Unplug, CapP!Disconnect, CapP!Listeners,
  CapP!Main, CapP!Compositor, CapP!Next, CapP!BoundOutput, CapP!Running,
  CapP!WireInv, CapP!FrameInv, CapP!BufferInv, CapP!ProgressInv,
  CapP!OutputInv, CapP!InductiveInv

(* The assumptions of the halves. *)
LEMMA Assumptions ==
  /\ MaxSockets \in 0 .. 255 /\ MaxPictures \in Nat /\ SendBuf \in Nat \ {0}
  /\ MaxPictures + 1 \in Nat \ {0} /\ 1 \in Nat
  /\ NULL \notin Outputs \union Geoms \union CapP!Stamp \union CapP!Pictures
BY MirrorAssumption DEF Cap!Stamp, Cap!Pictures, CapP!Stamp, CapP!Pictures

(* The invariant of the delivery holds first and is kept by its steps. *)
LEMMA DeliveryInvariant ==
  /\ Out!Init => Out!DeliveryInv
  /\ Out!DeliveryInv /\ [Out!Next]_(Out!vars) => Out!DeliveryInv'
<1>1. OutP!Init => OutP!DeliveryInv
  BY Assumptions, OutP!Start
<1>2. OutP!DeliveryInv /\ [OutP!Next]_(OutP!vars) => OutP!DeliveryInv'
  BY Assumptions, OutP!InvStep
<1> QED
  BY <1>1, <1>2, SameDelivery

(* So does that of the capture. *)
LEMMA CaptureInvariant ==
  /\ Cap!Init => Cap!InductiveInv
  /\ Cap!InductiveInv /\ [Cap!Next]_(Cap!vars) => Cap!InductiveInv'
<1>1. CapP!Init => CapP!InductiveInv
  BY Assumptions, CapP!InvInit
<1>2. CapP!InductiveInv /\ [CapP!Next]_(CapP!vars) => CapP!InductiveInv'
  BY Assumptions, CapP!InvStep
<1> QED
  BY <1>1, <1>2, SameCapture

-----------------------------------------------------------------------------
(* Steps.                                                                    *)

(* A dispatch call hands on no picture; it may advance the frame object. *)
LEMMA CaptureEffect ==
  ASSUME Cap!InductiveInv, CaptureStep
  PROVE  /\ pc \in {"registry", "first", "loop"} /\ pc' \notin {"renew", "done"}
         /\ UNCHANGED <<shm, clock, encq, todo, pictures, log, sink, streams, taken>>
         /\ IF pc' = "abort" THEN phase' = "ended" ELSE UNCHANGED phase
         /\ frame.stage = "done" => frame'.stage = "done"
<1>1. pc' = "abort" => /\ phase' = "ended"
                       /\ UNCHANGED <<todo, pictures, log, sink, streams, taken>>
  BY DEF CaptureStep, Out!Abort, Out!packetVars, Out!netVars
<1>2. pc' # "abort" => UNCHANGED <<phase, todo, pictures, log, sink, streams, taken>>
  BY DEF CaptureStep, outVars
<1>3. /\ pc \in {"registry", "first", "loop"} /\ pc' \notin {"renew", "done"}
      /\ UNCHANGED <<shm, clock, encq>>
  BY DEF CaptureStep, MayDispatch, Cap!HandleGlobalOutput, Cap!HandleGlobalOther,
     Cap!HandleBuffer, Cap!HandleFlags, Cap!HandleReady, Cap!HandleFailed,
     Cap!StartCapture, Cap!DispatchReturn, Cap!DispatchFail, Cap!AfterFail,
     Cap!Deliver, Cap!serverVars
<1>4. ASSUME frame.stage = "done" PROVE frame' = frame
  <2>1. ~Cap!StartCapture
    BY <1>4 DEF Cap!StartCapture, Cap!InductiveInv, Cap!ProgressInv
  <2>2. Cap!HandleBuffer => frame' = frame
    BY <1>4 DEF Cap!HandleBuffer
  <2> QED
    BY <2>1, <2>2 DEF CaptureStep, Cap!HandleGlobalOutput, Cap!HandleGlobalOther,
       Cap!HandleFlags, Cap!HandleReady, Cap!HandleFailed,
       Cap!DispatchReturn, Cap!DispatchFail, Cap!serverVars
<1> QED
  BY <1>1, <1>2, <1>3, <1>4

(* The encoder holds at least one picture more than it must keep, and gives   *)
(* the one that is next.                                                      *)
LEMMA NextPacket ==
  ASSUME JointInv, Cap!InductiveInv, Out!DeliveryInv, ReceivePacket
  PROVE  /\ Len(encq) \in Nat \ {0} /\ Oldest = pictures + 1
         /\ shm # NULL /\ shm.encoded /\ pictures < MaxPictures
<1>1. encq \in Seq(Nat) /\ pc = "renew" /\ Len(encq) > EncDelay /\ EncDelay \in Nat
  BY MirrorAssumption DEF JointInv, ReceivePacket
<1>2. Len(encq) \in Nat \ {0} /\ Oldest = encq[1]
  BY <1>1 DEF Oldest
<1>3. pictures \in Nat /\ MaxPictures \in Nat /\ clock \in 1 .. MaxPictures + 1
  BY MirrorAssumption DEF Out!DeliveryInv, Out!TypeOK, Cap!InductiveInv, Cap!TypeOK, Cap!Stamp
<1>4. Oldest = pictures + 1
  BY <1>1, <1>2 DEF JointInv, NumberInv
<1>5. shm # NULL /\ shm.encoded
  BY <1>1, <1>2 DEF JointInv, NumberInv, LoopInv
<1>6. pictures + Len(encq) = clock - 1
  BY <1>1, <1>5 DEF JointInv, NumberInv, Presented
<1>7. pictures < MaxPictures
  BY <1>2, <1>3, <1>6
<1> QED
  BY <1>2, <1>4, <1>5, <1>7

(* Every step of the program is a step of the capture or leaves it alone. *)
LEMMA StepOfCapture ==
  ASSUME [Next]_vars
  PROVE  [Cap!Next]_(Cap!vars)
<1>a. UNCHANGED capVars => UNCHANGED Cap!vars
  BY DEF capVars, Cap!vars, Cap!clientVars, Cap!serverVars
<1>b. Cap!Terminate => Cap!Next
  BY DEF Cap!Next
<1>1. CaptureStep => Cap!Next
  BY DEF CaptureStep, Cap!Next, Cap!Listeners, Cap!Main
<1>2. CompositorStep => Cap!Next
  BY DEF CompositorStep, Cap!Next, Cap!Compositor
<1>3. OpenOutputs \/ SendStep => [Cap!Next]_(Cap!vars)
  BY <1>a, <1>b DEF OpenOutputs, SendStep, OrExit
<1>4. StartSession \/ Submit \/ RenewFrame \/ CloseAll => Cap!Next
  BY DEF StartSession, Submit, RenewFrame, CloseAll, Cap!Next, Cap!Main
<1>5. ReceivePacket \/ DeviceStep \/ Stop => [Cap!Next]_(Cap!vars)
  BY <1>a, <1>b DEF ReceivePacket, DeviceStep, Stop
<1>6. UNCHANGED vars => UNCHANGED capVars
  BY DEF vars
<1> QED
  BY <1>a, <1>1, <1>2, <1>3, <1>4, <1>5, <1>6 DEF Next, MainStep

(* And a step of the delivery or leaves it alone: the packet it is given is   *)
(* that of the next picture.                                                  *)
LEMMA StepOfDelivery ==
  ASSUME JointInv, Cap!InductiveInv, Out!DeliveryInv, [Next]_vars
  PROVE  [Out!Next]_(Out!vars)
<1>a. UNCHANGED outVars => UNCHANGED Out!vars
  BY DEF outVars, Out!vars
<1>1. CaptureStep => [Out!Next]_(Out!vars)
  BY <1>a DEF CaptureStep, Out!Next
<1>2. CompositorStep \/ RenewFrame => UNCHANGED Out!vars
  BY <1>a DEF CompositorStep, RenewFrame
<1>3. OpenOutputs \/ SendStep \/ StartSession \/ CloseAll \/ Stop => Out!Next
  BY DEF OpenOutputs, SendStep, StartSession, CloseAll, Stop, Out!Next
<1>4. Submit => [Out!Next]_(Out!vars)
  BY <1>a DEF Submit, Out!Next
<1>5. ReceivePacket => Out!Next
  <2> SUFFICES ASSUME ReceivePacket PROVE Out!Next
    OBVIOUS
  <2>1. Out!EmitPacket(pictures + 1) /\ pictures < MaxPictures
    BY NextPacket DEF ReceivePacket
  <2> QED
    BY <2>1 DEF Out!Next
<1>6. DeviceStep => Out!Next
  BY DEF DeviceStep, Out!Next
<1>7. UNCHANGED vars => UNCHANGED outVars
  BY DEF vars
<1> QED
  BY <1>a, <1>1, <1>2, <1>3, <1>4, <1>5, <1>6, <1>7 DEF Next, MainStep

-----------------------------------------------------------------------------
(* The joint invariant.                                                      *)

LEMMA HandTyped ==
  /\ Out!InHand \in {0, 1} /\ Out!InHand' \in {0, 1}
  /\ todo = <<>> => Out!InHand = 0
  /\ todo' = <<>> => Out!InHand' = 0
  /\ UNCHANGED todo => Out!InHand' = Out!InHand
BY DEF Out!InHand

(* A step that hands on no picture keeps the invariant while the two halves   *)
(* end together and main() neither enters nor leaves the end of the loop body. *)
LEMMA Quiet ==
  ASSUME JointInv, Cap!Running, pc' # "done",
         Cap!Running' <=> Out!Running',
         pc' = "renew" => pc = "renew",
         pc = "renew" => pc' \in {"renew", "abort"},
         UNCHANGED <<encq, shm, clock, pictures>>,
         Out!InHand' <= Out!InHand,
         frame.stage = "done" => frame'.stage = "done"
  PROVE  JointInv'
<1>1. LoopInv'
  BY HandTyped DEF JointInv, LoopInv, Cap!Running, Cap!Ended
<1>2. NumberInv'
  BY DEF JointInv, NumberInv, Presented, Cap!Running, Cap!Ended
<1>3. BacklogInv'
  <2> DEFINE n == Len(encq)
             h == Out!InHand
             hh == Out!InHand'
             r == EncDelay + IF shm # NULL /\ ~shm.encoded THEN 0 ELSE 1
  <2>1. n + h <= r
    BY DEF JointInv, BacklogInv
  <2>2. n \in Nat /\ r \in Nat /\ h \in {0, 1} /\ hh \in {0, 1} /\ hh <= h
    BY HandTyped, MirrorAssumption DEF JointInv
  <2>3. n + hh <= r
    <3> HIDE DEF n, h, hh, r
    <3> QED
      BY <2>1, <2>2
  <2> QED
    BY <2>3 DEF BacklogInv
<1>4. DoneInv'
  BY DEF DoneInv
<1> QED
  BY <1>1, <1>2, <1>3, <1>4 DEF JointInv

(* Sending a message may be the last of a packet. *)
LEMMA SentHand ==
  ASSUME Out!DeliveryInv, Out!MessageSent
  PROVE  Out!InHand' <= Out!InHand
<1>1. /\ todo \in Seq(OutP!Messages) /\ todo # <<>> /\ todo' = Tail(todo)
      /\ \A i \in 1 .. Len(todo) - 1 : ~OutP!IsData(todo[i])
  BY Zenon DEF Out!DeliveryInv, Out!TypeOK, Out!CountInv, Out!MessageSent,
     Out!Messages, Out!Types, OutP!Messages, OutP!Types, Out!IsData, OutP!IsData
<1>2. /\ OutP!InHand \in {0, 1} /\ OutP!InHand' \in {0, 1}
      /\ (IF OutP!IsData(Head(todo)) THEN 1 ELSE 0) + OutP!InHand' = OutP!InHand
  BY <1>1, Assumptions, OutP!SentInHand
<1>3. OutP!InHand' <= OutP!InHand
  <2> DEFINE d == IF OutP!IsData(Head(todo)) THEN 1 ELSE 0
             h == OutP!InHand
             hh == OutP!InHand'
  <2>1. d \in {0, 1} /\ h \in {0, 1} /\ hh \in {0, 1} /\ d + hh = h
    BY <1>2
  <2>2. hh <= h
    <3> HIDE DEF d, h, hh
    <3> QED
      BY <2>1
  <2> QED
    BY <2>2
<1>4. OutP!InHand = Out!InHand /\ OutP!InHand' = Out!InHand'
  BY Zenon DEF OutP!InHand, Out!InHand, OutP!IsData, Out!IsData
<1> QED
  BY <1>3, <1>4

(* Most steps hand on no picture. *)
LEMMA QuietSteps ==
  ASSUME JointInv, Cap!InductiveInv, Out!DeliveryInv,
         CaptureStep \/ (CompositorStep /\ ~(clock <= MaxPictures /\ Cap!Present)) \/ OpenOutputs
           \/ StartSession \/ SendStep \/ DeviceStep \/ Stop
  PROVE  JointInv'
<1>r. Cap!Running <=> Out!Running
  BY DEF JointInv, LoopInv
<1>1. CASE CaptureStep
  <2>1. Cap!Running /\ pc' # "done" /\ (Cap!Running' <=> Out!Running')
    BY <1>1, <1>r, CaptureEffect DEF Cap!Running, Cap!Ended, Out!Running
  <2> QED
    BY <1>1, <2>1, CaptureEffect, HandTyped, Quiet
<1>2. CASE CompositorStep /\ ~(clock <= MaxPictures /\ Cap!Present)
  <2>1. UNCHANGED <<pc, shm, clock>> /\ Cap!Serving
        /\ (frame.stage = "done" => frame'.stage = "done")
    BY <1>2 DEF CompositorStep, Cap!Advertise, Cap!AcceptCopy, Cap!FailFrame,
       Cap!Disconnect, Cap!ChangeMode, Cap!Plug, Cap!Unplug, Cap!Pending,
       Cap!clientVars
  <2>2. UNCHANGED <<encq, phase, todo, pictures>>
    BY <1>2 DEF CompositorStep, outVars
  <2>3. Cap!Running /\ Cap!Running' /\ Out!Running'
    BY <2>1, <2>2, <1>r DEF Cap!Serving, Cap!Running, Out!Running
  <2> QED
    BY <2>1, <2>2, <2>3, HandTyped, Quiet DEF Cap!Running, Cap!Ended
<1>3. CASE OpenOutputs
  <2>1. /\ pc = "first" /\ UNCHANGED <<shm, clock, frame, encq, todo, pictures>>
        /\ phase' \in {"connect", "ready", "ended"} /\ Out!Running
    BY <1>3 DEF OpenOutputs, OrExit, capVars, Cap!Terminate, Cap!serverVars,
       Out!OpenOutput, Out!CheckOutputs, Out!Running, Out!packetVars
  <2>2. pc' = IF phase' = "ended" THEN "abort" ELSE pc
    BY <1>3, <2>1 DEF OpenOutputs, OrExit, capVars, Cap!Terminate
  <2>3. Cap!Running /\ pc' \notin {"done", "renew"} /\ (Cap!Running' <=> Out!Running')
    BY <2>1, <2>2, <1>r DEF Cap!Running, Cap!Ended, Out!Running
  <2> QED
    BY <2>1, <2>3, HandTyped, Quiet
<1>4. CASE StartSession
  <2>1. /\ pc = "setup" /\ UNCHANGED <<shm, clock, frame, encq, pictures>>
        /\ pc' \in {"encode", "loop", "abort"}
        /\ phase' \in {"live", "ended"} /\ (pc' = "abort" <=> phase' = "ended")
        /\ phase = "ready" /\ todo' \in {todo, Out!Handshake}
    BY <1>4 DEF StartSession, Cap!Setup, Cap!serverVars, Out!InitMirroring
  <2>2. Cap!Running /\ pc' \notin {"done", "renew"} /\ (Cap!Running' <=> Out!Running')
    BY <2>1, <1>r DEF Cap!Running, Cap!Ended, Out!Running
  <2>3. todo = <<>>
    BY <2>1 DEF Out!DeliveryInv, Out!GrammarInv
  <2>4. Out!InHand' = 0
    <3>1. CASE todo' = todo
      BY <3>1, <2>3, HandTyped
    <3>2. CASE todo' = Out!Handshake
      BY <3>2 DEF Out!InHand, Out!Handshake, Out!Plain, Out!IsData
    <3> QED
      BY <2>1, <3>1, <3>2
  <2> QED
    BY <2>1, <2>2, <2>4, HandTyped, Quiet
<1>5. CASE SendStep
  <2>1. /\ UNCHANGED <<shm, clock, frame, encq, pictures>> /\ Out!Running
        /\ phase' \in {"live", "ended", "killed"}
        /\ Out!MessageSent \/ UNCHANGED todo
    BY <1>5 DEF SendStep, OrExit, capVars, Cap!Terminate, Cap!serverVars,
       Out!RefuseExtradata, Out!SendToOutputs, Out!SkipMissing, Out!Send,
       Out!SendLost, Out!BrokenPipe, Out!MessageSent, Out!Sending,
       Out!Running, Out!packetVars
  <2>2. pc' = IF phase' = "live" THEN pc ELSE "abort"
    BY <1>5, <2>1 DEF SendStep, OrExit, capVars, Cap!Terminate
  <2>3. /\ Cap!Running /\ pc' # "done" /\ (Cap!Running' <=> Out!Running')
        /\ pc' \in {pc, "abort"}
    BY <2>1, <2>2, <1>r DEF Cap!Running, Cap!Ended, Out!Running
  <2>4. Out!InHand' <= Out!InHand
    BY <2>1, HandTyped, SentHand
  <2> QED
    BY <2>1, <2>3, <2>4, Quiet
<1>6. CASE DeviceStep
  <2>1. /\ UNCHANGED <<pc, shm, clock, frame, encq, phase, todo, pictures>>
        /\ Out!Running
    BY <1>6 DEF DeviceStep, capVars, Out!DeviceRead, Out!DeviceClose, Out!packetVars
  <2>2. Cap!Running /\ Cap!Running' /\ Out!Running'
    BY <2>1, <1>r DEF Cap!Running, Out!Running
  <2> QED
    BY <2>1, <2>2, HandTyped, Quiet DEF Cap!Running, Cap!Ended
<1>7. CASE Stop
  <2>1. /\ UNCHANGED <<shm, clock, frame, encq, todo, pictures>>
        /\ Out!Running /\ pc' = "abort" /\ phase' = "ended"
    BY <1>7 DEF Stop, Cap!Terminate, Cap!serverVars, Out!Abort, Out!packetVars
  <2>2. Cap!Running /\ ~Cap!Running' /\ ~Out!Running'
    BY <2>1, <1>r DEF Cap!Running, Cap!Ended, Out!Running
  <2> QED
    BY <2>1, <2>2, HandTyped, Quiet
<1> QED
  BY <1>1, <1>2, <1>3, <1>4, <1>5, <1>6, <1>7

(* What the invariants say while main() runs, in numbers. *)
LEMMA Amounts ==
  ASSUME JointInv, Cap!InductiveInv, Out!DeliveryInv
  PROVE  /\ encq \in Seq(Nat) /\ Len(encq) \in Nat /\ EncDelay \in Nat
         /\ pictures \in Nat /\ Presented \in Nat /\ clock = Presented + 1
         /\ Out!InHand \in {0, 1}
BY MirrorAssumption, HandTyped
   DEF JointInv, Presented, Out!DeliveryInv, Out!TypeOK, Cap!InductiveInv,
       Cap!TypeOK, Cap!Stamp

(* The compositor presents the picture that follows the last one encoded. *)
LEMMA PresentStep ==
  ASSUME JointInv, Cap!InductiveInv, Out!DeliveryInv,
         clock <= MaxPictures, Cap!Present, UNCHANGED <<outVars, encq>>
  PROVE  JointInv'
<1>1. /\ frame.stage = "copying" /\ frame'.stage = "done" /\ Cap!Running
      /\ UNCHANGED <<pc, encq, pictures, todo, phase>>
      /\ shm' # NULL /\ shm'.stamp = clock /\ shm'.encoded = FALSE
  <2>1. /\ frame.stage = "copying" /\ Cap!Running
        /\ UNCHANGED <<pc, encq, pictures, todo, phase>>
    BY DEF Cap!Present, Cap!Serving, Cap!Running, Cap!clientVars, outVars
  <2>2. PICK y \in BOOLEAN :
          /\ shm' = [geom |-> frame.geom, y_invert |-> y, stamp |-> clock, encoded |-> FALSE]
          /\ frame' = [frame EXCEPT !.stage = "done", !.y_invert = y, !.stamp = clock]
    BY DEF Cap!Present
  <2>3. frame \in Cap!FrameObjects /\ frame.geom \in Geoms /\ clock \in Cap!Stamp
    BY <2>1 DEF Cap!InductiveInv, Cap!TypeOK, Cap!FrameInv
  <2>4. frame'.stage = "done"
    BY <2>2, <2>3 DEF Cap!FrameObjects
  <2>5. shm' \in Cap!Pictures
    BY <2>2, <2>3 DEF Cap!Pictures
  <2> QED
    BY <2>1, <2>2, <2>4, <2>5, MirrorAssumption
<1>2. clock' = clock + 1 /\ Presented' = Presented + 1 /\ Presented \in Nat /\ clock = Presented + 1
  <2>1. clock' = clock + 1
    BY Amounts, MirrorAssumption DEF Cap!Present, Cap!NextStamp
  <2> QED
    BY <2>1, Amounts DEF Presented
<1>3. pc \notin {"encode", "renew", "abort", "done"}
  BY <1>1 DEF Cap!InductiveInv, Cap!ProgressInv, Cap!BufferInv, Cap!Running, Cap!Ended
<1>4. /\ Out!InHand = 0 /\ Out!InHand' = 0 /\ Len(encq) <= EncDelay
      /\ shm = NULL \/ shm.encoded
  BY <1>1, <1>3, HandTyped DEF JointInv, LoopInv
<1>5. pictures + Len(encq) = Presented
  <2>1. CASE shm = NULL
    BY <2>1 DEF JointInv, NumberInv
  <2>2. CASE shm # NULL
    BY <2>2, <1>3, <1>4 DEF JointInv, NumberInv
  <2> QED
    BY <2>1, <2>2
<1>6. LoopInv'
  BY <1>1, <1>3, <1>4 DEF JointInv, LoopInv, Cap!Running, Out!Running
<1>7. NumberInv'
  <2>1. \A i \in 1 .. Len(encq') : encq'[i] = pictures' + i
    BY <1>1 DEF JointInv, NumberInv
  <2>2. shm'.stamp = Presented' /\ pictures' + Len(encq') = Presented' - 1
    BY <1>1, <1>2, <1>5, Amounts
  <2> QED
    BY <1>1, <2>1, <2>2 DEF NumberInv
<1>8. BacklogInv'
  <2>1. Len(encq') + Out!InHand' <= EncDelay + 0
    BY <1>1, <1>4, Amounts
  <2> QED
    BY <2>1, <1>1 DEF BacklogInv
<1>9. DoneInv'
  BY <1>1, <1>3 DEF DoneInv
<1> QED
  BY <1>1, <1>6, <1>7, <1>8, <1>9 DEF JointInv

(* The picture that is encoded follows those the encoder holds. *)
LEMMA SubmitStep ==
  ASSUME JointInv, Cap!InductiveInv, Out!DeliveryInv, Submit
  PROVE  JointInv'
<1>1. /\ pc = "encode" /\ pc' \in {"renew", "abort"} /\ Cap!Running
      /\ UNCHANGED <<frame, clock, todo, pictures>>
      /\ frame.stage = "done" /\ shm \in Cap!Pictures /\ ~shm.encoded
  BY DEF Submit, Cap!Encode, Cap!InductiveInv, Cap!ProgressInv, Cap!BufferInv,
     Cap!FrameInv, Cap!Running, Cap!Ended, Out!Abort, Out!packetVars, outVars
<1>r. Cap!Running <=> Out!Running
  BY DEF JointInv, LoopInv
<1>2. CASE pc' = "abort"
  <2>1. UNCHANGED <<shm, encq>> /\ phase' = "ended"
    BY <1>2 DEF Submit, Cap!Encode, Out!Abort
  <2>2. ~Cap!Running' /\ ~Out!Running'
    BY <1>2, <2>1 DEF Cap!Running, Cap!Ended, Out!Running
  <2> QED
    BY <1>1, <1>2, <2>1, <2>2, <1>r, HandTyped, Quiet
<1>3. CASE pc' = "renew"
  <2>1. /\ shm' = [shm EXCEPT !.encoded = TRUE] /\ UNCHANGED <<phase, todo>>
        /\ encq' = Append(encq, shm.stamp)
    BY <1>3 DEF Submit, Cap!Encode, outVars
  <2>2. /\ shm' \in Cap!Pictures /\ shm'.encoded /\ shm'.stamp = shm.stamp
    BY <1>1, <2>1 DEF Cap!Pictures
  <2>3. shm # NULL /\ shm' # NULL
    BY <1>1, <2>2, MirrorAssumption
  <2>4. shm.stamp = Presented /\ pictures + Len(encq) = Presented - 1
    BY <1>1, <2>3 DEF JointInv, NumberInv
  <2>5. Len(encq) <= EncDelay /\ Out!InHand' = 0
    BY <1>1, HandTyped DEF JointInv, LoopInv
  <2>6. /\ encq' \in Seq(Nat) /\ Len(encq') = Len(encq) + 1
        /\ \A i \in 1 .. Len(encq) : encq'[i] = encq[i]
        /\ encq'[Len(encq) + 1] = Presented
    BY <2>1, <2>4, Amounts
  <2>7. LoopInv'
    BY <1>1, <1>3, <2>1, <2>2, <1>r DEF LoopInv, Cap!Running, Cap!Ended, Out!Running
  <2>8. NumberInv'
    <3>1. Presented' = Presented
      BY <1>1 DEF Presented
    <3>2. ASSUME NEW i \in 1 .. Len(encq') PROVE encq'[i] = pictures' + i
      <4>1. CASE i \in 1 .. Len(encq)
        BY <4>1, <2>6, <1>1 DEF JointInv, NumberInv
      <4>2. CASE i = Len(encq) + 1
        BY <4>2, <2>6, <2>4, <1>1, Amounts
      <4> QED
        BY <4>1, <4>2, <2>6, Amounts
    <3>3. pictures' + Len(encq') = Presented'
      <4> DEFINE n == Len(encq)
                 nn == Len(encq')
                 p == Presented
      <4>1. n \in Nat /\ p \in Nat /\ pictures \in Nat /\ nn = n + 1 /\ pictures + n = p - 1
        BY <2>4, <2>6, Amounts
      <4>2. pictures + nn = p
        <5> HIDE DEF n, nn, p
        <5> QED
          BY <4>1
      <4> QED
        BY <4>2, <3>1, <1>1
    <3>4. shm'.stamp = Presented'
      BY <3>1, <2>2, <2>4
    <3> QED
      BY <2>2, <2>3, <3>2, <3>3, <3>4 DEF NumberInv
  <2>9. BacklogInv'
    <3>1. Len(encq') + Out!InHand' <= EncDelay + 1
      BY <2>5, <2>6, Amounts
    <3> QED
      BY <3>1, <2>2 DEF BacklogInv
  <2>10. DoneInv'
    BY <1>3 DEF DoneInv
  <2> QED
    BY <2>6, <2>7, <2>8, <2>9, <2>10 DEF JointInv
<1> QED
  BY <1>1, <1>2, <1>3

(* A packet in hand is one picture less in the encoder. *)
LEMMA ReceiveStep ==
  ASSUME JointInv, Cap!InductiveInv, Out!DeliveryInv, ReceivePacket
  PROVE  JointInv'
<1>1. /\ pc = "renew" /\ UNCHANGED <<pc, frame, shm, clock, phase>>
      /\ todo = <<>> /\ pictures' = pictures + 1 /\ encq' = Tail(encq)
      /\ todo' \in {Out!FirstPacket(Oldest), Out!Packet(Oldest)}
  BY DEF ReceivePacket, Idle, Out!EmitPacket, capVars
<1>2. Out!InHand = 0 /\ Out!InHand' = 1
  <2>1. Out!InHand = 0
    BY <1>1, HandTyped
  <2>2. Out!InHand' = 1
    <3>1. CASE todo' = Out!Packet(Oldest)
      BY <3>1 DEF Out!InHand, Out!Packet, Out!Picture, Out!IsData
    <3>2. CASE todo' = Out!FirstPacket(Oldest)
      BY <3>2 DEF Out!InHand, Out!FirstPacket, Out!Picture, Out!IsData
    <3> QED
      BY <1>1, <3>1, <3>2
  <2> QED
    BY <2>1, <2>2
<1>3. shm # NULL /\ shm.encoded /\ Len(encq) \in Nat \ {0}
  BY NextPacket
<1>4. /\ encq' \in Seq(Nat) /\ Len(encq') = Len(encq) - 1
      /\ \A i \in 1 .. Len(encq') : encq'[i] = encq[i + 1]
  BY <1>1, <1>3, Amounts
<1>5. LoopInv'
  BY <1>1, <1>3 DEF JointInv, LoopInv, Cap!Running, Cap!Ended, Out!Running
<1>6. NumberInv'
  <2>1. Presented' = Presented
    BY <1>1 DEF Presented
  <2>2. ASSUME NEW i \in 1 .. Len(encq') PROVE encq'[i] = pictures' + i
    <3>1. i + 1 \in 1 .. Len(encq)
      BY <1>3, <1>4
    <3>2. encq[i + 1] = pictures + (i + 1)
      BY <3>1 DEF JointInv, NumberInv
    <3> QED
      BY <3>2, <1>1, <1>4, Amounts
  <2>3. pictures' + Len(encq') = pictures + Len(encq)
    BY <1>1, <1>3, <1>4, Amounts
  <2>4. pictures + Len(encq) = Presented /\ shm.stamp = Presented
    BY <1>1, <1>3 DEF JointInv, NumberInv
  <2> QED
    BY <1>1, <1>3, <2>1, <2>2, <2>3, <2>4 DEF NumberInv
<1>7. BacklogInv'
  <2>1. Len(encq) <= EncDelay + 1
    BY <1>2, <1>3, Amounts DEF JointInv, BacklogInv
  <2>2. Len(encq') + Out!InHand' <= EncDelay + 1
    BY <2>1, <1>2, <1>3, <1>4, Amounts
  <2> QED
    BY <2>2, <1>1, <1>3 DEF BacklogInv
<1>8. DoneInv'
  BY <1>1 DEF DoneInv
<1> QED
  BY <1>4, <1>5, <1>6, <1>7, <1>8 DEF JointInv

(* The next capture is asked for when every packet has been sent. *)
LEMMA RenewStep ==
  ASSUME JointInv, Cap!InductiveInv, Out!DeliveryInv, RenewFrame
  PROVE  JointInv'
<1>1. /\ pc = "renew" /\ pc' = "loop" /\ todo = <<>> /\ Len(encq) <= EncDelay
      /\ UNCHANGED <<shm, clock, encq, phase, todo, pictures>>
  BY DEF RenewFrame, Idle, Drained, Cap!Renew, outVars
<1>2. shm.encoded /\ Out!InHand' = 0 /\ Out!InHand = 0
  BY <1>1, HandTyped DEF JointInv, LoopInv
<1>3. LoopInv'
  BY <1>1, <1>2 DEF JointInv, LoopInv, Cap!Running, Cap!Ended, Out!Running
<1>4. NumberInv'
  BY <1>1 DEF JointInv, NumberInv, Presented
<1>5. BacklogInv'
  BY <1>1, <1>2 DEF JointInv, BacklogInv
<1>6. DoneInv'
  BY <1>1 DEF DoneInv
<1> QED
  BY <1>1, <1>3, <1>4, <1>5, <1>6 DEF JointInv

(* At the end of main the encoder is freed with the pictures it holds. *)
LEMMA CloseStep ==
  ASSUME JointInv, Cap!InductiveInv, Out!DeliveryInv, CloseAll
  PROVE  JointInv'
<1>1. /\ pc = "cleanup" /\ pc' = "done" /\ phase' = "ended" /\ encq' = <<>>
      /\ UNCHANGED <<shm, clock, frame, todo, pictures>> /\ todo = <<>>
      /\ sink' = [n \in Out!Sinks |-> IF sink[n] = "none" THEN "none" ELSE "shut"]
  BY DEF CloseAll, Cap!Cleanup, Cap!serverVars, Out!CloseOutputs, Out!packetVars
<1>2. LoopInv'
  BY <1>1, MirrorAssumption DEF LoopInv, Cap!Running, Cap!Ended, Out!Running
<1>3. NumberInv'
  BY <1>1 DEF JointInv, NumberInv, Presented
<1>4. BacklogInv'
  <2>1. Out!InHand' = 0 /\ Len(encq') = 0
    BY <1>1, HandTyped
  <2> QED
    BY <2>1, MirrorAssumption DEF BacklogInv
<1>5. DoneInv'
  <2>1. \A n \in Out!Sinks : sink'[n] # "open"
    BY <1>1
  <2>2. ASSUME shm # NULL, shm.encoded PROVE Presented' <= pictures' + EncDelay
    <3>1. Len(encq) <= EncDelay /\ pictures + Len(encq) = Presented
      BY <1>1, <2>2 DEF JointInv, LoopInv, NumberInv
    <3>2. Presented' = Presented /\ pictures' = pictures
      BY <1>1 DEF Presented
    <3> QED
      BY <3>1, <3>2, Amounts
  <2> QED
    BY <1>1, <2>1, <2>2 DEF DoneInv
<1> QED
  BY <1>1, <1>2, <1>3, <1>4, <1>5 DEF JointInv

(* The three invariants together. *)
ProgramInv == Cap!InductiveInv /\ Out!DeliveryInv /\ JointInv

LEMMA ProgramStep ==
  ASSUME ProgramInv, [Next]_vars
  PROVE  ProgramInv'
<1>1. Cap!InductiveInv'
  BY StepOfCapture, CaptureInvariant DEF ProgramInv
<1>2. Out!DeliveryInv'
  BY StepOfDelivery, DeliveryInvariant DEF ProgramInv
<1>3. JointInv'
  <2>1. CASE CaptureStep \/ OpenOutputs \/ StartSession \/ SendStep \/ DeviceStep \/ Stop
    BY <2>1, QuietSteps DEF ProgramInv
  <2>2. CASE CompositorStep
    <3>1. CASE ~(clock <= MaxPictures /\ Cap!Present)
      BY <3>1, <2>2, QuietSteps DEF ProgramInv
    <3>2. CASE clock <= MaxPictures /\ Cap!Present
      BY <3>2, <2>2, PresentStep DEF ProgramInv, CompositorStep
    <3> QED
      BY <3>1, <3>2
  <2>3. CASE Submit \/ ReceivePacket \/ RenewFrame \/ CloseAll
    BY <2>3, SubmitStep, ReceiveStep, RenewStep, CloseStep DEF ProgramInv
  <2>4. CASE UNCHANGED vars
    BY <2>4 DEF ProgramInv, JointInv, LoopInv, NumberInv, BacklogInv, DoneInv,
       Presented, Cap!Running, Out!Running, Out!InHand, vars, capVars, outVars
  <2> QED
    BY <2>1, <2>2, <2>3, <2>4 DEF Next, MainStep
<1> QED
  BY <1>1, <1>2, <1>3 DEF ProgramInv

LEMMA ProgramStart ==
  ASSUME Init
  PROVE  ProgramInv
<1>1. Cap!InductiveInv /\ Out!DeliveryInv
  BY CaptureInvariant, DeliveryInvariant DEF Init
<1>2. /\ pc = "registry" /\ phase = "connect" /\ encq = <<>> /\ todo = <<>>
      /\ shm = NULL /\ clock = 1 /\ pictures = 0
  BY DEF Init, Cap!Init, Out!Init
<1>3. Out!InHand = 0
  BY <1>2, HandTyped
<1>4. JointInv
  BY <1>2, <1>3, MirrorAssumption
     DEF JointInv, LoopInv, NumberInv, BacklogInv, DoneInv, Presented,
         Cap!Running, Cap!Ended, Out!Running
<1> QED
  BY <1>1, <1>4 DEF ProgramInv

(* The three invariants hold in every state of the program. *)
THEOREM ProgramInvariant == Spec => []ProgramInv
<1>1. Init => ProgramInv
  BY ProgramStart
<1>2. ProgramInv /\ [Next]_vars => ProgramInv'
  BY ProgramStep
<1> QED
  BY <1>1, <1>2, PTL DEF Spec

(* The composition adds no behaviour to the two halves: every behaviour of the *)
(* program is one of the capture and one of the delivery, so whatever is       *)
(* proved of these alone holds for it.                                         *)
THEOREM Composition == Spec => Cap!Spec /\ Out!Spec
<1>1. Init => Cap!Init /\ Out!Init
  BY DEF Init
<1>2. ProgramInv /\ [Next]_vars => [Cap!Next]_(Cap!vars) /\ [Out!Next]_(Out!vars)
  BY StepOfCapture, StepOfDelivery DEF ProgramInv
<1> QED
  BY <1>1, <1>2, ProgramInvariant, PTL DEF Spec, Cap!Spec, Out!Spec

(* Every output receives a prefix of the one session, with the pictures the    *)
(* compositor has presented in turn, whatever happens at either end.           *)
THEOREM InOrder == Spec => EndToEnd
<1>1. Init => Out!SessionInit
  BY Zenon DEF Init, Out!Init, Out!SessionInit
<1>2. ProgramInv /\ [Next]_vars => [Out!SessionNext]_streams
  <2>1. ProgramInv /\ [Next]_vars => OutP!DeliveryInv /\ [OutP!Next]_(OutP!vars)
    BY StepOfDelivery, SameDelivery DEF ProgramInv
  <2>2. OutP!DeliveryInv /\ [OutP!Next]_(OutP!vars) => [OutP!SessionNext]_streams
    BY Assumptions, OutP!StepMaps
  <2> QED
    BY <2>1, <2>2, SameDelivery
<1> QED
  BY <1>1, <1>2, ProgramInvariant, PTL DEF Spec, EndToEnd, Out!SessionSpec

(* A program that ends at the end of main has sent every picture it encoded    *)
(* but those the encoder held back.                                            *)
THEOREM NoneLost == Spec => []NothingLost
<1>1. ProgramInv => NothingLost
  <2> SUFFICES ASSUME ProgramInv, pc = "done", shm # NULL, shm.encoded
               PROVE  Out!PicturesIn(log) + EncDelay >= shm.stamp
    BY DEF NothingLost
  <2>1. Presented <= pictures + EncDelay /\ todo = <<>> /\ shm.stamp = Presented
    BY DEF ProgramInv, JointInv, DoneInv, NumberInv
  <2>2. Out!PicturesIn(log) + Out!InHand = pictures /\ Out!InHand = 0
    BY <2>1, HandTyped DEF ProgramInv, Out!DeliveryInv, Out!CountInv
  <2>3. Out!PicturesIn(log) = pictures
    <3>1. Out!PicturesIn(log) \in Nat
      BY CountTyped DEF ProgramInv, Out!DeliveryInv, Out!TypeOK
    <3> QED
      BY <2>2, <3>1
  <2> QED
    BY <2>1, <2>3, Amounts DEF ProgramInv
<1> QED
  BY <1>1, ProgramInvariant, PTL

-----------------------------------------------------------------------------
(* How far behind the screen a device is.                                    *)

(* Of a run of numbers no more than every second one is in a set without      *)
(* neighbours.                                                                *)
LEMMA Sparse ==
  ASSUME NEW a \in Nat, NEW b \in Nat, a <= b + 1,
         NEW D \in SUBSET (a .. b), \A d \in D : d + 1 \notin D
  PROVE  /\ IsFiniteSet(D) /\ Cardinality(D) \in Nat
         /\ 2 * Cardinality(D) <= b - a + 2
<1> DEFINE E == {d + 1 : d \in D}
           f == [d \in D |-> d + 1]
<1>1. IsFiniteSet(D) /\ Cardinality(D) \in Nat
  <2>1. IsFiniteSet(a .. b)
    BY FS_Interval
  <2> QED
    BY <2>1, FS_Subset, FS_CardinalityType
<1>2. IsFiniteSet(E) /\ Cardinality(E) = Cardinality(D)
  <2>1. f \in Bijection(D, E)
    <3>1. f \in [D -> E]
      OBVIOUS
    <3>2. \A x, y \in D : f[x] = f[y] => x = y
      OBVIOUS
    <3>3. \A e \in E : \E d \in D : f[d] = e
      OBVIOUS
    <3> QED
      BY <3>1, <3>2, <3>3 DEF Bijection, Injection, Surjection, IsInjective
  <2>2. ExistsBijection(D, E)
    BY <2>1 DEF ExistsBijection
  <2> QED
    BY <1>1, <2>2, FS_Bijection
<1>3. D \intersect E = {}
  OBVIOUS
<1>4. D \union E \in SUBSET (a .. (b + 1))
  <2>1. \A d \in a .. b : d \in a .. (b + 1) /\ d + 1 \in a .. (b + 1)
    OBVIOUS
  <2> QED
    BY <2>1
<1>5. /\ IsFiniteSet(a .. (b + 1)) /\ Cardinality(a .. (b + 1)) = b - a + 2
  BY FS_Interval
<1>6. Cardinality(D \union E) <= b - a + 2
  BY <1>4, <1>5, FS_Subset
<1> HIDE DEF E
<1>7. Cardinality(D \union E) = Cardinality(D) + Cardinality(E) - Cardinality(D \intersect E)
  BY <1>1, <1>2, FS_Union
<1>8. Cardinality(D \intersect E) = 0
  BY <1>3, FS_EmptySet
<1> QED
  BY <1>1, <1>2, <1>6, <1>7, <1>8

(* Between any two data messages of a session there is another message, so no *)
(* more than every second one of the last messages of a stream is a picture.  *)
LEMMA FewUnread ==
  ASSUME NEW s \in Seq(Out!Messages), NEW t \in Nat, NEW k \in Nat,
         t <= Len(s), Len(s) <= t + k,
         \A i \in 1 .. Len(s) - 1 : s[i + 1] = Out!After(s[i])
  PROVE  Out!PicturesIn(s) <= Out!PicturesIn(SubSeq(s, 1, t)) + (k + 1) \div 2
<1> DEFINE u == SubSeq(s, 1, t)
           A == {i \in 1 .. t : Out!IsData(s[i])}
           D == {i \in t + 1 .. Len(s) : Out!IsData(s[i])}
<1>1. Len(s) \in Nat
  OBVIOUS
<1>2. Out!PicturesIn(s) = Cardinality(A \union D)
  <2>1. {i \in 1 .. Len(s) : Out!IsData(s[i])} = A \union D
    <3>1. 1 .. Len(s) = (1 .. t) \union (t + 1 .. Len(s))
      BY <1>1
    <3> QED
      BY <3>1
  <2> QED
    BY <2>1, SameCount DEF Out!PicturesIn
<1>3. Out!PicturesIn(u) = Cardinality(A)
  <2>1. Len(u) = t /\ \A i \in 1 .. t : u[i] = s[i]
    BY <1>1
  <2>2. {i \in 1 .. Len(u) : Out!IsData(u[i])} = A
    <3> HIDE DEF u
    <3> QED
      BY <2>1
  <2> QED
    BY <2>2, SameCount DEF Out!PicturesIn
<1>4. IsFiniteSet(A) /\ Cardinality(A) \in Nat
  <2>1. IsFiniteSet(1 .. t) /\ A \subseteq 1 .. t
    BY FS_Interval
  <2> QED
    BY <2>1, FS_Subset, FS_CardinalityType
<1>5. \A d \in D : d + 1 \notin D
  <2> SUFFICES ASSUME NEW d \in D, d + 1 \in D PROVE FALSE
    OBVIOUS
  <2>1. d \in 1 .. Len(s) - 1 /\ s[d].type = "data" /\ s[d + 1].type = "data"
    BY <1>1 DEF Out!IsData
  <2>2. s[d + 1] = Out!After(s[d])
    BY <2>1
  <2>3. Out!After(s[d]).type = "video"
    BY <2>1, Zenon DEF Out!After, Out!Picture
  <2> QED
    BY <2>1, <2>2, <2>3
<1>6. /\ IsFiniteSet(D) /\ Cardinality(D) \in Nat
      /\ 2 * Cardinality(D) <= Len(s) - (t + 1) + 2
  <2>1. D \in SUBSET (t + 1 .. Len(s)) /\ t + 1 <= Len(s) + 1 /\ t + 1 \in Nat
    BY <1>1
  <2> HIDE DEF D
  <2> QED
    BY <2>1, <1>1, <1>5, Sparse
<1>7. Cardinality(A \union D) <= Cardinality(A) + Cardinality(D)
  <2>1. Cardinality(A \intersect D) \in Nat
    BY <1>4, FS_Subset, FS_CardinalityType
  <2>2. Cardinality(A \union D) = Cardinality(A) + Cardinality(D) - Cardinality(A \intersect D)
    BY <1>4, <1>6, FS_Union
  <2> QED
    BY <2>1, <2>2, <1>4, <1>6
<1>8. Cardinality(D) <= (k + 1) \div 2
  <2> HIDE DEF D
  <2>1. 2 * Cardinality(D) <= k + 1
    BY <1>1, <1>6
  <2> QED
    BY <2>1, <1>6
<1> HIDE DEF A, D, u
<1>9. Cardinality(A \union D) <= Cardinality(A) + (k + 1) \div 2
  <2> DEFINE q == (k + 1) \div 2
             c == Cardinality(A \union D)
  <2>1. IsFiniteSet(A \union D)
    BY <1>4, <1>6, FS_Union
  <2>2. q \in Int /\ c \in Nat
    BY <2>1, FS_CardinalityType
  <2> HIDE DEF q, c
  <2> QED
    BY <1>4, <1>6, <1>7, <1>8, <2>2 DEF q, c
<1> QED
  BY <1>2, <1>3, <1>9 DEF u

(* What a connected output has accepted is in the order of the session and    *)
(* holds every picture of the log.                                            *)
LEMMA AcceptedAll ==
  ASSUME Out!DeliveryInv, NEW n \in Out!Sinks, sink[n] = "open"
  PROVE  /\ streams[n] \in Seq(Out!Messages)
         /\ \A i \in 1 .. Len(streams[n]) - 1 : streams[n][i + 1] = Out!After(streams[n][i])
         /\ Out!PicturesIn(log) <= Out!PicturesIn(streams[n])
<1> DEFINE m == Head(todo)
<1>1. /\ log \in Seq(Out!Messages) /\ streams[n] \in Seq(Out!Messages)
      /\ \A i \in 1 .. Len(log) - 1 : log[i + 1] = Out!After(log[i])
  BY DEF Out!DeliveryInv, Out!TypeOK, Out!CountInv
<1>2. Out!PicturesIn(log) \in Nat
  BY <1>1, CountTyped
<1>3. CASE streams[n] = log
  BY <1>1, <1>2, <1>3
<1>4. CASE todo # <<>> /\ streams[n] = Append(log, m)
  <2>1. m \in Out!Messages
    BY <1>4 DEF Out!DeliveryInv, Out!TypeOK
  <2>2. m = Out!NextMessage(log)
    BY <1>4 DEF Out!DeliveryInv, Out!GrammarInv
  <2> HIDE DEF m
  <2>3. /\ Len(log) \in Nat /\ Len(streams[n]) = Len(log) + 1
        /\ \A i \in 1 .. Len(log) : streams[n][i] = log[i]
        /\ streams[n][Len(log) + 1] = m
    BY <1>1, <1>4, <2>1
  <2>4. ASSUME NEW i \in 1 .. Len(streams[n]) - 1
        PROVE  streams[n][i + 1] = Out!After(streams[n][i])
    <3>1. CASE i = Len(log)
      <4>1. log # <<>> /\ i \in 1 .. Len(log)
        BY <3>1, <2>3, <1>1
      <4> QED
        BY <4>1, <3>1, <2>2, <2>3 DEF Out!NextMessage
    <3>2. CASE i # Len(log)
      <4>1. i \in 1 .. Len(log) - 1 /\ i + 1 \in 1 .. Len(log) /\ i \in 1 .. Len(log)
        BY <3>2, <2>3
      <4> QED
        BY <4>1, <1>1, <2>3
    <3> QED
      BY <3>1, <3>2
  <2>5. Out!PicturesIn(log) <= Out!PicturesIn(streams[n])
    <3>1. OutP!Messages = Out!Messages
      BY Zenon DEF OutP!Messages, Out!Messages, OutP!Types, Out!Types
    <3>2. /\ OutP!PicturesIn(log) \in Nat
          /\ OutP!PicturesIn(Append(log, m))
               = OutP!PicturesIn(log) + IF OutP!IsData(m) THEN 1 ELSE 0
      BY <3>1, <1>1, <2>1, OutP!PicturesAppend, Assumptions
    <3>3. OutP!PicturesIn(log) <= OutP!PicturesIn(Append(log, m))
      BY ONLY <3>2
    <3> QED
      BY <3>3, <1>4, SameCount DEF m
  <2> QED
    BY <1>1, <2>4, <2>5
<1>5. streams[n] = log \/ (todo # <<>> /\ streams[n] = Append(log, m))
  BY DEF Out!DeliveryInv, Out!InStep
<1> QED
  BY <1>3, <1>4, <1>5

(* What a connected device has read is never further behind the screen than   *)
(* the picture in hand, those in the encoder and those in its own buffer,     *)
(* every second message of which can be one.                                  *)
THEOREM NeverStale == Spec => []Fresh
<1>1. ProgramInv => Fresh
  <2> SUFFICES ASSUME ProgramInv, NEW n \in Out!Sinks \ {Out!File}, sink[n] = "open"
               PROVE  Presented <= Out!PicturesIn(SubSeq(streams[n], 1, taken[n]))
                                     + 1 + EncDelay + (SendBuf + 1) \div 2
    BY DEF Fresh
  <2> DEFINE s == streams[n]
             t == taken[n]
             u == Out!PicturesIn(SubSeq(s, 1, t))
             q == (SendBuf + 1) \div 2
             l == Out!PicturesIn(log)
             h == Out!InHand
             e == Len(encq)
  <2>1. /\ s \in Seq(Out!Messages) /\ l <= Out!PicturesIn(s)
        /\ \A i \in 1 .. Len(s) - 1 : s[i + 1] = Out!After(s[i])
    BY AcceptedAll DEF ProgramInv
  <2>2. t \in Nat /\ t <= Len(s) /\ Len(s) <= t + SendBuf
    BY DEF ProgramInv, Out!DeliveryInv, Out!TypeOK, Out!CountInv, Out!QueueInv
  <2>3. Out!PicturesIn(s) <= u + q
    BY <2>1, <2>2, MirrorAssumption, FewUnread
  <2>4. /\ l \in Nat /\ Out!PicturesIn(s) \in Nat /\ u \in Nat /\ q \in Nat
    <3>1. l \in Nat /\ Out!PicturesIn(s) \in Nat
      BY <2>1, CountTyped DEF ProgramInv, Out!DeliveryInv, Out!TypeOK
    <3>2. SubSeq(s, 1, t) \in Seq(Out!Messages)
      BY <2>1, <2>2
    <3>3. u \in Nat
      BY <3>2, CountTyped
    <3>4. q \in Nat
      BY ONLY MirrorAssumption DEF q
    <3> QED
      BY <3>1, <3>3, <3>4
  <2>5. Presented <= l + 1 + EncDelay
    <3>1. l + h = pictures
      BY DEF ProgramInv, Out!DeliveryInv, Out!CountInv
    <3>2. pc # "done"
      BY DEF ProgramInv, JointInv, DoneInv
    <3>3. /\ e \in Nat /\ EncDelay \in Nat /\ pictures \in Nat /\ Presented \in Nat
          /\ h \in {0, 1}
      BY Amounts DEF ProgramInv
    <3>4. CASE shm = NULL
      <4>1. Presented = 0
        BY <3>4 DEF ProgramInv, JointInv, NumberInv
      <4> HIDE DEF l
      <4> QED
        BY <4>1, <3>3, <2>4
    <3>5. CASE shm # NULL /\ shm.encoded
      <4>1. pictures + e = Presented /\ e + h <= EncDelay + 1
        BY <3>2, <3>5 DEF ProgramInv, JointInv, NumberInv, BacklogInv
      <4> HIDE DEF l, h, e
      <4> QED
        BY <4>1, <3>1, <3>3, <2>4
    <3>6. CASE shm # NULL /\ ~shm.encoded
      <4>1. pictures + e = Presented - 1 /\ e + h <= EncDelay + 0
        BY <3>2, <3>6 DEF ProgramInv, JointInv, NumberInv, BacklogInv
      <4> HIDE DEF l, h, e
      <4> QED
        BY <4>1, <3>1, <3>3, <2>4
    <3> QED
      BY <3>4, <3>5, <3>6
  <2>6. Presented \in Nat /\ EncDelay \in Nat
    BY Amounts DEF ProgramInv
  <2>7. Presented <= u + 1 + EncDelay + q
    <3> DEFINE w == Out!PicturesIn(s)
    <3> HIDE DEF l, u, q, w
    <3> QED
      BY <2>1, <2>3, <2>4, <2>5, <2>6 DEF w
  <2> QED
    BY <2>7
<1> QED
  BY <1>1, ProgramInvariant, PTL

(* Between screen and outputs the program holds what the encoder keeps and one *)
(* picture more, each in its place in the order of presentation.               *)
THEOREM JointInvariant == Spec => []JointInv
<1>1. ProgramInv => JointInv
  BY DEF ProgramInv
<1> QED
  BY <1>1, ProgramInvariant, PTL
=============================================================================
