-------------------------- MODULE ScreencopyProofs --------------------------
(***************************************************************************)
(* Proofs about Screencopy, for all outputs, geometries, values of -o and  *)
(* numbers of stamps: the inductive invariant, one lemma per conjunct, and *)
(* the safety properties it implies.                                       *)
(***************************************************************************)
EXTENDS Screencopy, TLAPS, SequenceTheorems

-----------------------------------------------------------------------------
(* The event queue only ever holds one of six sequences.                     *)

(* Appending to a sequence of one element gives the pair. *)
LEMMA AppendToOne ==
  ASSUME NEW S, NEW a \in S, NEW b \in S
  PROVE  Append(<<a>>, b) = <<a, b>>
<1> DEFINE s == Append(<<a>>, b)
           t == <<a, b>>
<1>1. <<a>> \in Seq(S) /\ t \in Seq(S)
  OBVIOUS
<1>2. s \in Seq(S)
  BY <1>1
<1>3. Len(s) = 2 /\ Len(t) = 2
  BY <1>1
<1>4. \A i \in 1 .. Len(s) : s[i] = t[i]
  BY <1>1, <1>3
<1> HIDE DEF s, t
<1>5. s = t
  BY <1>1, <1>2, <1>3, <1>4, SeqEqual
<1> QED
  BY <1>5 DEF s, t

(* What the sequence operators do to the queues that occur. *)
LEMMA WireShapes ==
  /\ Head(<<"buffer">>) = "buffer" /\ Tail(<<"buffer">>) = <<>>
  /\ Head(<<"failed">>) = "failed" /\ Tail(<<"failed">>) = <<>>
  /\ Head(<<"ready">>) = "ready" /\ Tail(<<"ready">>) = <<>>
  /\ Head(<<"flags", "ready">>) = "flags" /\ Tail(<<"flags", "ready">>) = <<"ready">>
  /\ Head(<<"buffer", "failed">>) = "buffer"
  /\ Tail(<<"buffer", "failed">>) = <<"failed">>
  /\ <<>> \o <<"flags", "ready">> = <<"flags", "ready">>
  /\ Append(<<>>, "buffer") = <<"buffer">> /\ Append(<<>>, "failed") = <<"failed">>
  /\ Append(<<"buffer">>, "failed") = <<"buffer", "failed">>
<1>1. <<>> \o <<"flags", "ready">> = <<"flags", "ready">>
  BY ConcatEmptySeq, <<"flags", "ready">> \in Seq({"flags", "ready"})
<1>2. Append(<<"buffer">>, "failed") = <<"buffer", "failed">>
  BY AppendToOne, "buffer" \in {"buffer", "failed"}, "failed" \in {"buffer", "failed"}
<1> QED
  BY <1>1, <1>2

(* The queues that occur differ. *)
LEMMA WireDistinct ==
  /\ <<"buffer">> # <<>> /\ <<"failed">> # <<>> /\ <<"ready">> # <<>>
  /\ <<"flags", "ready">> # <<>> /\ <<"buffer", "failed">> # <<>>
  /\ <<"buffer">> # <<"buffer", "failed">> /\ <<"failed">> # <<"buffer", "failed">>
  /\ <<"ready">> # <<"flags", "ready">> /\ <<"ready">> # <<"buffer", "failed">>
  /\ <<"flags", "ready">> # <<"buffer", "failed">>
OBVIOUS

-----------------------------------------------------------------------------
(* Every step preserves the invariant.                                       *)

(* A fresh frame object is well typed. *)
LEMMA RequestTyped ==
  ASSUME TypeOK, CaptureOutput
  PROVE  frame' \in FrameObjects
BY DEF TypeOK, CaptureOutput, NoFrame, FrameObjects, Stages

(* Types; Encode needs a picture in the shared memory, Renew a live frame. *)
LEMMA TypingStep ==
  ASSUME InductiveInv, Next
  PROVE  TypeOK'
<1>a. TypeOK /\ WireInv /\ FrameInv /\ BufferInv /\ ProgressInv
  BY DEF InductiveInv
<1> USE <1>a, CaptureAssumption DEF TypeOK, PCs, Dispatching, Ended
<1>1. ASSUME NEW o \in Outputs, HandleGlobalOutput(o) PROVE TypeOK'
  BY <1>1 DEF HandleGlobalOutput, serverVars, WantsOutput, OutputsLeft
<1>2. ASSUME NEW g \in Globals, HandleGlobalOther(g) PROVE TypeOK'
  BY <1>2 DEF HandleGlobalOther, serverVars
<1>3. ASSUME HandleBuffer PROVE TypeOK'
  <2>1. frame.geom \in Geoms \union {NULL} /\ CopyInto \in Geoms \union {NULL}
    BY DEF CopyInto, FrameObjects, Buffers
  <2>2. buffer' \in Buffers
    BY <1>3, <2>1 DEF HandleBuffer, Buffers
  <2>3. [frame EXCEPT !.stage = "copyasked", !.given = CopyInto] \in FrameObjects
    BY <2>1 DEF FrameObjects, Stages
  <2>4. frame' \in FrameObjects
    BY <1>3, <2>3 DEF HandleBuffer
  <2> QED
    BY <1>3, <2>2, <2>4 DEF HandleBuffer, Deliver, registryVars
<1>4. ASSUME HandleFlags PROVE TypeOK'
  <2>1. buffer' \in Buffers
    BY <1>4 DEF HandleFlags, Flag, Buffers, FrameObjects
  <2> QED
    BY <1>4, <2>1 DEF HandleFlags, Deliver, registryVars
<1>5. ASSUME HandleReady PROVE TypeOK'
  <2>1. buffer' \in Buffers
    BY <1>5 DEF HandleReady, Buffers, FrameObjects
  <2> QED
    BY <1>5, <2>1 DEF HandleReady, Deliver, registryVars
<1>6. ASSUME HandleFailed PROVE TypeOK'
  BY <1>6 DEF HandleFailed, Deliver, registryVars
<1>7. ASSUME StartCapture PROVE TypeOK'
  <2>1. frame' \in FrameObjects
    BY <1>7, RequestTyped DEF StartCapture
  <2>2. frames' \in Nat /\ pc' \in PCs
    BY <1>7 DEF StartCapture
  <2> QED
    BY <1>7, <2>1, <2>2 DEF StartCapture, registryVars
<1>8. ASSUME DispatchReturn PROVE TypeOK'
  BY <1>8 DEF DispatchReturn, serverVars, registryVars
<1>9. ASSUME DispatchFail PROVE TypeOK'
  BY <1>9 DEF DispatchFail, AfterFail, serverVars, registryVars
<1>10. ASSUME Setup PROVE TypeOK'
  <2>1. buffer.geom \in Geoms \union {NULL}
    BY DEF Buffers
  <2> QED
    BY <1>10, <2>1 DEF Setup, registryVars, serverVars
<1>11. ASSUME Encode PROVE TypeOK'
  <2>1. shm \in Pictures
    BY <1>11 DEF Encode, FrameInv, BufferInv, ProgressInv
  <2>2. shm' \in Pictures
    BY <1>11, <2>1 DEF Encode, Pictures
  <2> QED
    BY <1>11, <2>2 DEF Encode, registryVars
<1>12. ASSUME Renew PROVE TypeOK'
  <2>1. frame' \in FrameObjects
    BY <1>12, RequestTyped DEF Renew
  <2>2. frames' \in Nat
    BY <1>12 DEF Renew, Destroyed, ProgressInv, Running
  <2> QED
    BY <1>12, <2>1, <2>2 DEF Renew, ResetCopyDone, registryVars
<1>13. ASSUME Cleanup PROVE TypeOK'
  <2>1. buffer' \in Buffers
    BY <1>13 DEF Cleanup, Buffers
  <2> QED
    BY <1>13, <2>1 DEF Cleanup, registryVars, serverVars
<1>14. ASSUME Terminate PROVE TypeOK'
  BY <1>14 DEF Terminate, serverVars, registryVars
<1>15. ASSUME Advertise PROVE TypeOK'
  <2>1. mode[frame.output] \in Geoms
    BY <1>15 DEF Advertise
  <2>2. frame' \in FrameObjects
    BY <1>15, <2>1 DEF Advertise, FrameObjects, Stages
  <2>3. wire' \in Seq(Events)
    BY <1>15 DEF Advertise, Events
  <2> QED
    BY <1>15, <2>2, <2>3 DEF Advertise, clientVars
<1>16. ASSUME AcceptCopy PROVE TypeOK'
  <2>1. frame' \in FrameObjects
    BY <1>16 DEF AcceptCopy, FrameObjects, Stages
  <2> QED
    BY <1>16, <2>1 DEF AcceptCopy, clientVars
<1>17. ASSUME Present PROVE TypeOK'
  <2>1. frame.geom \in Geoms
    BY <1>17 DEF Present, FrameInv
  <2>2. shm' \in Pictures
    BY <1>17, <2>1 DEF Present, Pictures
  <2>3. frame' \in FrameObjects
    <3>1. PICK y \in BOOLEAN :
            frame' = [frame EXCEPT !.stage = "done", !.y_invert = y, !.stamp = clock]
      BY ONLY <1>17 DEF Present
    <3>2. frame \in FrameObjects /\ clock \in Stamp
      OBVIOUS
    <3> QED
      BY ONLY <3>1, <3>2 DEF FrameObjects, Stages
  <2>4. wire' \in Seq(Events)
    BY <1>17 DEF Present, Events
  <2>5. clock' \in Stamp
    BY <1>17 DEF Present, NextStamp, Stamp
  <2> QED
    BY <1>17, <2>2, <2>3, <2>4, <2>5 DEF Present, clientVars
<1>18. ASSUME FailFrame PROVE TypeOK'
  <2>1. frame' \in FrameObjects
    BY <1>18 DEF FailFrame, FrameObjects, Stages
  <2>2. wire' \in Seq(Events)
    BY <1>18 DEF FailFrame, Events
  <2> QED
    BY <1>18, <2>1, <2>2 DEF FailFrame, clientVars
<1>19. ASSUME NEW o \in Outputs, ChangeMode(o) PROVE TypeOK'
  BY <1>19 DEF ChangeMode, Serving, clientVars
<1>20. ASSUME NEW o \in Outputs, Plug(o) \/ Unplug(o) PROVE TypeOK'
  BY <1>20 DEF Plug, Unplug, clientVars
<1>21. ASSUME Disconnect PROVE TypeOK'
  BY <1>21 DEF Disconnect, clientVars
<1> QED
  BY <1>1, <1>2, <1>3, <1>4, <1>5, <1>6, <1>7, <1>8, <1>9, <1>10, <1>11, <1>12,
     <1>13, <1>14, <1>15, <1>16, <1>17, <1>18, <1>19, <1>20, <1>21 DEF Next, Listeners, Main, Compositor

(* The roundtrip ends before there is any event of a frame object. *)
LEMMA FirstCapture ==
  ASSUME InductiveInv, StartCapture
  PROVE  /\ frame'.stage \in {"asked", "none"}
         /\ wire' = <<>> /\ buffer_copy_done' = FALSE
<1>1. pc = "registry" /\ UNCHANGED <<wire, buffer_copy_done>>
  BY DEF StartCapture
<1>2. frame'.stage = "asked" \/ frame' = frame
  <2>1. CaptureOutput => frame'.stage = "asked"
    BY DEF CaptureOutput, NoFrame
  <2> QED
    BY <2>1 DEF StartCapture
<1>3. frame.stage = "none" /\ wire = <<>> /\ buffer_copy_done = FALSE
  BY <1>1 DEF InductiveInv, TypeOK, ProgressInv, WireInv, Running, Ended
<1> QED
  BY <1>1, <1>2, <1>3

(* The buffer event is handled while the frame object waits for the copy      *)
(* request, or after it has failed.                                          *)
LEMMA BufferEvent ==
  ASSUME InductiveInv, HandleBuffer
  PROVE  /\ frame.stage \in {"told", "failed"} /\ frame.geom \in Geoms
         /\ frame.stage = "told" => wire = <<"buffer">>
         /\ frame.stage = "failed" => wire = <<"buffer", "failed">>
         /\ wire' \in {<<>>, <<"failed">>}
         /\ frame' = frame \/ frame' = [frame EXCEPT !.stage = "copyasked", !.given = CopyInto]
         /\ frame'.stage \in {"told", "failed", "copyasked"} /\ frame'.geom = frame.geom
<1>1. frame \in FrameObjects
  BY DEF InductiveInv, TypeOK
<1>2. /\ wire # <<>> /\ Head(wire) = "buffer" /\ wire' = Tail(wire)
      /\ pc \in {"first", "loop"}
  BY DEF HandleBuffer, Deliver
<1>3. /\ frame.stage \in {"told", "failed"}
      /\ frame.stage = "told" => wire = <<"buffer">>
      /\ frame.stage = "failed" => wire = <<"buffer", "failed">>
  BY <1>1, <1>2, WireShapes DEF InductiveInv, WireInv, Running, Ended, FrameObjects, Stages
<1>4. wire' \in {<<>>, <<"failed">>}
  BY <1>2, <1>3, WireShapes
<1>5. frame.geom \in Geoms
  BY <1>3 DEF InductiveInv, FrameInv
<1>6. frame' = frame \/ frame' = [frame EXCEPT !.stage = "copyasked", !.given = CopyInto]
  BY DEF HandleBuffer
<1>7. frame'.stage \in {"told", "failed", "copyasked"} /\ frame'.geom = frame.geom
  BY <1>1, <1>3, <1>6 DEF FrameObjects
<1> QED
  BY <1>3, <1>4, <1>5, <1>6, <1>7

(* Requests and events of one frame object alternate. *)
LEMMA WireStep ==
  ASSUME InductiveInv, Next
  PROVE  WireInv'
<1>a. TypeOK /\ WireInv /\ FrameInv /\ BufferInv /\ ProgressInv
  BY DEF InductiveInv
<1> USE <1>a, CaptureAssumption, WireShapes, WireDistinct
    DEF WireInv, BufferInv, ProgressInv, TypeOK, Ended, Running,
           Dispatching, Stages, Buffers, Pictures, FrameObjects, Globals, Stamp
<1>1. ASSUME NEW o \in Outputs, HandleGlobalOutput(o) PROVE WireInv'
  BY <1>1 DEF HandleGlobalOutput, serverVars
<1>2. ASSUME NEW g \in Globals, HandleGlobalOther(g) PROVE WireInv'
  BY <1>2 DEF HandleGlobalOther, serverVars
<1>3. ASSUME HandleBuffer PROVE WireInv'
  <2>1. wire' = Tail(wire)
    BY ONLY <1>3 DEF HandleBuffer, Deliver
  <2>2. pc' # "abort" => frame' = IF frame.stage = "told"
            THEN [frame EXCEPT !.stage = "copyasked", !.given = CopyInto] ELSE frame
    BY ONLY <1>3 DEF HandleBuffer
  <2>3. CASE frame.stage = "told"
    <3>1. wire' = <<>>
      <4>1. wire = <<"buffer">>
        BY ONLY <1>3, <2>3, InductiveInv, BufferEvent
      <4> QED
        BY ONLY <2>1, <4>1, WireShapes
    <3>2. pc' # "abort" => frame'.stage = "copyasked"
      BY ONLY <2>2, <2>3, TypeOK, <1>a DEF TypeOK, FrameObjects
    <3> QED
      BY ONLY <3>1, <3>2 DEF WireInv, Running, Ended
  <2>4. CASE frame.stage = "failed"
    <3>1. wire' = <<"failed">>
      <4>1. wire = <<"buffer", "failed">>
        BY ONLY <1>3, <2>4, InductiveInv, BufferEvent
      <4> QED
        BY ONLY <2>1, <4>1, WireShapes
    <3>2. pc' # "abort" => frame'.stage = "failed"
      BY ONLY <2>2, <2>4
    <3> QED
      BY ONLY <3>1, <3>2 DEF WireInv, Running, Ended
  <2> QED
    BY ONLY <1>3, <2>3, <2>4, InductiveInv, BufferEvent
<1>4. ASSUME HandleFlags PROVE WireInv'
  BY <1>4 DEF HandleFlags, Deliver, Flag
<1>5. ASSUME HandleReady PROVE WireInv'
  BY <1>5 DEF HandleReady, Deliver
<1>6. ASSUME HandleFailed PROVE WireInv'
  BY <1>6 DEF HandleFailed, Deliver
<1>7. ASSUME StartCapture PROVE WireInv'
  BY ONLY <1>7, InductiveInv, FirstCapture, WireDistinct DEF WireInv
<1>8. ASSUME DispatchReturn PROVE WireInv'
  BY <1>8 DEF DispatchReturn, serverVars
<1>9. ASSUME DispatchFail PROVE WireInv'
  BY <1>9 DEF DispatchFail, AfterFail, serverVars
<1>10. ASSUME Setup PROVE WireInv'
  BY <1>10 DEF Setup, EncoderOpens, serverVars
<1>11. ASSUME Encode PROVE WireInv'
  BY <1>11 DEF Encode
<1>12. ASSUME Renew PROVE WireInv'
  BY <1>12 DEF Renew, ResetCopyDone, CaptureOutput, NoFrame, Destroyed
<1>13. ASSUME Cleanup PROVE WireInv'
  BY <1>13 DEF Cleanup, serverVars
<1>14. ASSUME Terminate PROVE WireInv'
  BY <1>14 DEF Terminate, serverVars
<1>15. ASSUME Advertise PROVE WireInv'
  BY <1>15 DEF Advertise, Serving, clientVars
<1>16. ASSUME AcceptCopy PROVE WireInv'
  BY <1>16 DEF AcceptCopy, Serving, clientVars
<1>17. ASSUME Present PROVE WireInv'
  BY <1>17 DEF Present, Serving, clientVars
<1>18. ASSUME FailFrame PROVE WireInv'
  BY <1>18 DEF FailFrame, Pending, Serving, clientVars
<1>19. ASSUME NEW o \in Outputs, ChangeMode(o) PROVE WireInv'
  BY <1>19 DEF ChangeMode, Serving, clientVars
<1>20. ASSUME NEW o \in Outputs, Plug(o) \/ Unplug(o) PROVE WireInv'
  BY <1>20 DEF Plug, Unplug, clientVars
<1>21. ASSUME Disconnect PROVE WireInv'
  BY <1>21 DEF Disconnect, clientVars
<1> QED
  BY <1>1, <1>2, <1>3, <1>4, <1>5, <1>6, <1>7, <1>8, <1>9, <1>10, <1>11, <1>12,
     <1>13, <1>14, <1>15, <1>16, <1>17, <1>18, <1>19, <1>20, <1>21 DEF Next, Listeners, Main, Compositor

(* The frame object and the picture in the shared memory. *)
LEMMA FrameStep ==
  ASSUME InductiveInv, Next
  PROVE  FrameInv'
<1>a. TypeOK /\ WireInv /\ FrameInv /\ BufferInv /\ ProgressInv
  BY DEF InductiveInv
<1> USE <1>a, CaptureAssumption, WireShapes, WireDistinct
    DEF WireInv, FrameInv, BufferInv, ProgressInv, TypeOK, Ended, Running,
           Dispatching, Stages, Buffers, Pictures, FrameObjects, Globals, Stamp
<1>1. ASSUME NEW o \in Outputs, HandleGlobalOutput(o) PROVE FrameInv'
  BY <1>1 DEF HandleGlobalOutput, serverVars
<1>2. ASSUME NEW g \in Globals, HandleGlobalOther(g) PROVE FrameInv'
  BY <1>2 DEF HandleGlobalOther, serverVars
<1>3. ASSUME HandleBuffer PROVE FrameInv'
  BY ONLY <1>3, InductiveInv, BufferEvent, WireDistinct DEF FrameInv
<1>4. ASSUME HandleFlags PROVE FrameInv'
  BY <1>4 DEF HandleFlags, Deliver, Flag
<1>5. ASSUME HandleReady PROVE FrameInv'
  BY <1>5 DEF HandleReady, Deliver
<1>6. ASSUME HandleFailed PROVE FrameInv'
  BY <1>6 DEF HandleFailed, Deliver
<1>7. ASSUME StartCapture PROVE FrameInv'
  BY ONLY <1>7, InductiveInv, FirstCapture, WireDistinct DEF FrameInv
<1>8. ASSUME DispatchReturn PROVE FrameInv'
  BY <1>8 DEF DispatchReturn, serverVars
<1>9. ASSUME DispatchFail PROVE FrameInv'
  BY <1>9 DEF DispatchFail, AfterFail, serverVars
<1>10. ASSUME Setup PROVE FrameInv'
  BY <1>10 DEF Setup, EncoderOpens, serverVars
<1>11. ASSUME Encode PROVE FrameInv'
  <2>1. shm \in Pictures /\ frame.stage = "done"
    BY <1>11 DEF Encode, ProgressInv, BufferInv, TypeOK
  <2>2. shm' = shm \/ shm' = [shm EXCEPT !.encoded = TRUE]
    BY ONLY <1>11 DEF Encode
  <2>3. /\ shm' \in Pictures /\ shm'.geom = shm.geom /\ shm'.stamp = shm.stamp
        /\ shm'.y_invert = shm.y_invert
    BY ONLY <2>1, <2>2 DEF Pictures
  <2> QED
    BY <1>11, <2>1, <2>3 DEF Encode
<1>12. ASSUME Renew PROVE FrameInv'
  BY <1>12 DEF Renew, ResetCopyDone, CaptureOutput, NoFrame, Destroyed
<1>13. ASSUME Cleanup PROVE FrameInv'
  BY <1>13 DEF Cleanup, serverVars
<1>14. ASSUME Terminate PROVE FrameInv'
  BY <1>14 DEF Terminate, serverVars
<1>15. ASSUME Advertise PROVE FrameInv'
  BY <1>15 DEF Advertise, Serving, clientVars
<1>16. ASSUME AcceptCopy PROVE FrameInv'
  <2>1. /\ frame.stage = "copyasked" /\ wire' = wire
        /\ frame' = frame \/ /\ frame' = [frame EXCEPT !.stage = "copying"]
                             /\ frame.given = frame.geom
    BY ONLY <1>16 DEF AcceptCopy
  <2>2. /\ frame'.geom = frame.geom /\ frame.geom \in Geoms
        /\ \/ frame'.stage = "copyasked"
           \/ frame'.stage = "copying" /\ frame'.given = frame'.geom
    BY ONLY <2>1, <1>a DEF TypeOK, FrameObjects, FrameInv
  <2> QED
    BY ONLY <2>2 DEF FrameInv
<1>17. ASSUME Present PROVE FrameInv'
  <2>1. PICK y \in BOOLEAN :
          /\ shm' = [geom |-> frame.geom, y_invert |-> y, stamp |-> clock, encoded |-> FALSE]
          /\ frame' = [frame EXCEPT !.stage = "done", !.y_invert = y, !.stamp = clock]
    BY <1>17 DEF Present
  <2>2. frame'.stage = "done" /\ frame'.y_invert = y /\ frame'.stamp = clock
         /\ frame'.geom = frame.geom /\ frame'.given = frame.given
    BY <2>1 DEF TypeOK, FrameObjects
  <2>3. clock \in Stamp
    BY DEF TypeOK
  <2>4. shm' \in Pictures
    BY <1>17, <2>1, <2>3 DEF Present, Pictures
  <2>5. shm'.geom = frame.geom /\ shm'.stamp = clock /\ shm'.y_invert = y /\ ~shm'.encoded
    BY <2>1
  <2>6. wire' = <<"flags", "ready">>
    BY <1>17 DEF Present, Serving, WireInv
  <2>7. frame.geom \in Geoms /\ frame.given = frame.geom
    BY <1>17 DEF Present
  <2> QED
    BY <2>2, <2>3, <2>4, <2>5, <2>6, <2>7
<1>18. ASSUME FailFrame PROVE FrameInv'
  BY <1>18 DEF FailFrame, Pending, Serving, clientVars
<1>19. ASSUME NEW o \in Outputs, ChangeMode(o) PROVE FrameInv'
  BY <1>19 DEF ChangeMode, Serving, clientVars
<1>20. ASSUME NEW o \in Outputs, Plug(o) \/ Unplug(o) PROVE FrameInv'
  BY <1>20 DEF Plug, Unplug, clientVars
<1>21. ASSUME Disconnect PROVE FrameInv'
  BY <1>21 DEF Disconnect, clientVars
<1> QED
  BY <1>1, <1>2, <1>3, <1>4, <1>5, <1>6, <1>7, <1>8, <1>9, <1>10, <1>11, <1>12,
     <1>13, <1>14, <1>15, <1>16, <1>17, <1>18, <1>19, <1>20, <1>21 DEF Next, Listeners, Main, Compositor

(* The buffer event: wl_buffer, attributes and copy request go together. *)
LEMMA BufferOfBufferEvent ==
  ASSUME InductiveInv, HandleBuffer
  PROVE  BufferInv'
<1>a. TypeOK /\ WireInv /\ FrameInv /\ BufferInv /\ ProgressInv
  BY DEF InductiveInv
<1> USE <1>a, CaptureAssumption, WireShapes, WireDistinct DEF BufferInv, Running, Ended
<1>1. frame.stage \in {"told", "failed"} /\ ~buffer_copy_done /\ buffer_copy_done' = buffer_copy_done
  BY DEF HandleBuffer, Deliver, WireInv, TypeOK, FrameObjects, Stages, Dispatching
<1>2. /\ frame'.stage = "copyasked" /\ pc' \notin Ended =>
       /\ frame'.given = CopyInto /\ frame'.geom = frame.geom
       /\ buffer'.wl_buffer = CopyInto /\ buffer'.geom = frame.geom
      /\ frame'.stage \in {"told", "failed", "copyasked"}
  <2>1. frame \in FrameObjects /\ buffer \in Buffers
    BY DEF TypeOK
  <2>2. /\ frame'.stage \in {"told", "failed", "copyasked"} /\ frame'.geom = frame.geom
        /\ frame'.stage = "copyasked" => frame'.given = CopyInto
    BY ONLY InductiveInv, HandleBuffer, BufferEvent, <2>1 DEF FrameObjects
  <2>3. pc' \notin Ended =>
          buffer' = [buffer EXCEPT !.geom = frame.geom, !.wl_buffer = CopyInto]
    BY ONLY HandleBuffer DEF HandleBuffer, Ended
  <2> QED
    BY ONLY <2>1, <2>2, <2>3 DEF Buffers
<1> QED
  BY <1>1, <1>2

(* The buffer event: before the loop the first attributes make the wl_buffer, *)
(* in the loop it stays the one the encoder was opened for.                  *)
LEMMA ProgressOfBufferEvent ==
  ASSUME InductiveInv, HandleBuffer
  PROVE  ProgressInv'
<1>a. TypeOK /\ WireInv /\ FrameInv /\ BufferInv /\ ProgressInv
  BY DEF InductiveInv
<1> USE <1>a, CaptureAssumption, WireShapes, WireDistinct DEF ProgressInv, Running, Ended
<1>1. /\ frame.stage \in {"told", "failed"} /\ frame.geom \in Geoms
      /\ frame.stage = "told" => wire = <<"buffer">>
      /\ frame.stage = "failed" => wire = <<"buffer", "failed">>
      /\ wire' \in {<<>>, <<"failed">>}
      /\ frame.stage = "told" \/ wire = <<"buffer", "failed">>
  BY ONLY InductiveInv, HandleBuffer, BufferEvent
<1>2. /\ pc' = pc => /\ buffer'.wl_buffer = CopyInto /\ buffer'.geom = frame.geom
                     /\ frame'.stage \in {"copyasked", "failed"}
      /\ pc' \in {pc, "abort"} /\ pc \in {"first", "loop"}
      /\ UNCHANGED <<enc, frames, buffer_copy_done>>
  BY <1>1 DEF HandleBuffer, Deliver, TypeOK, FrameObjects, Buffers
<1>3. CASE pc' = "abort"
  BY <1>2, <1>3
<1>4. CASE pc = "first" /\ pc' = pc
  <2>1. CopyInto = frame.geom
    BY <1>1, <1>4 DEF CopyInto
  <2> QED
    BY <1>1, <1>2, <1>4, <2>1
<1>5. CASE pc = "loop" /\ pc' = pc
  <2>1. CopyInto = buffer.wl_buffer
    BY <1>5 DEF CopyInto
  <2> QED
    BY <1>2, <1>5, <2>1
<1> QED
  BY <1>2, <1>3, <1>4, <1>5

(* struct `buffer' describes the frame object whose events were handled. *)
LEMMA BufferStep ==
  ASSUME InductiveInv, Next
  PROVE  BufferInv'
<1>a. TypeOK /\ WireInv /\ FrameInv /\ BufferInv /\ ProgressInv
  BY DEF InductiveInv
<1> USE <1>a, CaptureAssumption, WireShapes, WireDistinct
    DEF WireInv, FrameInv, BufferInv, ProgressInv, TypeOK, Ended, Running,
           Dispatching, Stages, Buffers, Pictures, FrameObjects, Globals, Stamp
<1>1. ASSUME NEW o \in Outputs, HandleGlobalOutput(o) PROVE BufferInv'
  BY <1>1 DEF HandleGlobalOutput, serverVars
<1>2. ASSUME NEW g \in Globals, HandleGlobalOther(g) PROVE BufferInv'
  BY <1>2 DEF HandleGlobalOther, serverVars
<1>3. ASSUME HandleBuffer PROVE BufferInv'
  BY <1>3, BufferOfBufferEvent
<1>4. ASSUME HandleFlags PROVE BufferInv'
  BY <1>4 DEF HandleFlags, Deliver, Flag
<1>5. ASSUME HandleReady PROVE BufferInv'
  BY <1>5 DEF HandleReady, Deliver
<1>6. ASSUME HandleFailed PROVE BufferInv'
  BY <1>6 DEF HandleFailed, Deliver
<1>7. ASSUME StartCapture PROVE BufferInv'
  BY ONLY <1>7, InductiveInv, FirstCapture DEF BufferInv
<1>8. ASSUME DispatchReturn PROVE BufferInv'
  BY <1>8 DEF DispatchReturn, serverVars
<1>9. ASSUME DispatchFail PROVE BufferInv'
  BY <1>9 DEF DispatchFail, AfterFail, serverVars
<1>10. ASSUME Setup PROVE BufferInv'
  BY <1>10 DEF Setup, EncoderOpens, serverVars
<1>11. ASSUME Encode PROVE BufferInv'
  BY <1>11 DEF Encode
<1>12. ASSUME Renew PROVE BufferInv'
  BY <1>12 DEF Renew, ResetCopyDone, CaptureOutput, NoFrame, Destroyed
<1>13. ASSUME Cleanup PROVE BufferInv'
  BY <1>13 DEF Cleanup, serverVars
<1>14. ASSUME Terminate PROVE BufferInv'
  BY <1>14 DEF Terminate, serverVars
<1>15. ASSUME Advertise PROVE BufferInv'
  BY <1>15 DEF Advertise, Serving, clientVars
<1>16. ASSUME AcceptCopy PROVE BufferInv'
  BY <1>16 DEF AcceptCopy, Serving, clientVars
<1>17. ASSUME Present PROVE BufferInv'
  BY <1>17 DEF Present, Serving, clientVars
<1>18. ASSUME FailFrame PROVE BufferInv'
  BY <1>18 DEF FailFrame, Pending, Serving, clientVars
<1>19. ASSUME NEW o \in Outputs, ChangeMode(o) PROVE BufferInv'
  BY <1>19 DEF ChangeMode, Serving, clientVars
<1>20. ASSUME NEW o \in Outputs, Plug(o) \/ Unplug(o) PROVE BufferInv'
  BY <1>20 DEF Plug, Unplug, clientVars
<1>21. ASSUME Disconnect PROVE BufferInv'
  BY <1>21 DEF Disconnect, clientVars
<1> QED
  BY <1>1, <1>2, <1>3, <1>4, <1>5, <1>6, <1>7, <1>8, <1>9, <1>10, <1>11, <1>12,
     <1>13, <1>14, <1>15, <1>16, <1>17, <1>18, <1>19, <1>20, <1>21 DEF Next, Listeners, Main, Compositor

(* What main relies on at each place. *)
LEMMA ProgressStep ==
  ASSUME InductiveInv, Next
  PROVE  ProgressInv'
<1>a. TypeOK /\ WireInv /\ FrameInv /\ BufferInv /\ ProgressInv
  BY DEF InductiveInv
<1> USE <1>a, CaptureAssumption, WireShapes, WireDistinct
    DEF WireInv, FrameInv, BufferInv, ProgressInv, TypeOK, Ended, Running,
           Dispatching, Stages, Buffers, Pictures, FrameObjects, Globals, Stamp
<1>1. ASSUME NEW o \in Outputs, HandleGlobalOutput(o) PROVE ProgressInv'
  BY <1>1 DEF HandleGlobalOutput, serverVars
<1>2. ASSUME NEW g \in Globals, HandleGlobalOther(g) PROVE ProgressInv'
  BY <1>2 DEF HandleGlobalOther, serverVars
<1>3. ASSUME HandleBuffer PROVE ProgressInv'
  BY <1>3, ProgressOfBufferEvent
<1>4. ASSUME HandleFlags PROVE ProgressInv'
  BY <1>4 DEF HandleFlags, Deliver, Flag
<1>5. ASSUME HandleReady PROVE ProgressInv'
  BY <1>5 DEF HandleReady, Deliver
<1>6. ASSUME HandleFailed PROVE ProgressInv'
  BY <1>6 DEF HandleFailed, Deliver
<1>7. ASSUME StartCapture PROVE ProgressInv'
  BY <1>7 DEF StartCapture, CaptureOutput, NoFrame
<1>8. ASSUME DispatchReturn PROVE ProgressInv'
  BY <1>8 DEF DispatchReturn, serverVars
<1>9. ASSUME DispatchFail PROVE ProgressInv'
  BY <1>9 DEF DispatchFail, AfterFail, serverVars
<1>10. ASSUME Setup PROVE ProgressInv'
  BY <1>10 DEF Setup, EncoderOpens, serverVars
<1>11. ASSUME Encode PROVE ProgressInv'
  BY <1>11 DEF Encode
<1>12. ASSUME Renew PROVE ProgressInv'
  BY <1>12 DEF Renew, ResetCopyDone, CaptureOutput, NoFrame, Destroyed
<1>13. ASSUME Cleanup PROVE ProgressInv'
  BY <1>13 DEF Cleanup, serverVars
<1>14. ASSUME Terminate PROVE ProgressInv'
  BY <1>14 DEF Terminate, serverVars
<1>15. ASSUME Advertise PROVE ProgressInv'
  BY <1>15 DEF Advertise, Serving, clientVars
<1>16. ASSUME AcceptCopy PROVE ProgressInv'
  BY <1>16 DEF AcceptCopy, Serving, clientVars
<1>17. ASSUME Present PROVE ProgressInv'
  BY <1>17 DEF Present, Serving, clientVars
<1>18. ASSUME FailFrame PROVE ProgressInv'
  BY <1>18 DEF FailFrame, Pending, Serving, clientVars
<1>19. ASSUME NEW o \in Outputs, ChangeMode(o) PROVE ProgressInv'
  BY <1>19 DEF ChangeMode, Serving, clientVars
<1>20. ASSUME NEW o \in Outputs, Plug(o) \/ Unplug(o) PROVE ProgressInv'
  BY <1>20 DEF Plug, Unplug, clientVars
<1>21. ASSUME Disconnect PROVE ProgressInv'
  BY <1>21 DEF Disconnect, clientVars
<1> QED
  BY <1>1, <1>2, <1>3, <1>4, <1>5, <1>6, <1>7, <1>8, <1>9, <1>10, <1>11, <1>12,
     <1>13, <1>14, <1>15, <1>16, <1>17, <1>18, <1>19, <1>20, <1>21 DEF Next, Listeners, Main, Compositor

(* -o counts down to zero over the announced outputs. *)
LEMMA OutputStep ==
  ASSUME InductiveInv, Next
  PROVE  OutputInv'
<1>a. TypeOK /\ OutputInv
  BY DEF InductiveInv
<1> USE <1>a, CaptureAssumption DEF TypeOK, OutputInv, BoundOutput
<1>1. ASSUME NEW o \in Outputs, HandleGlobalOutput(o) PROVE OutputInv'
  BY <1>1 DEF HandleGlobalOutput, WantsOutput, OutputsLeft
<1>2. ASSUME UNCHANGED <<want, opt_output_num, outs, output>> PROVE OutputInv'
  BY <1>2
<1>3. ASSUME NEW g \in Globals, HandleGlobalOther(g) PROVE OutputInv'
  BY <1>2, <1>3 DEF HandleGlobalOther
<1>4. ASSUME Main \/ Terminate PROVE OutputInv'
  BY <1>2, <1>4 DEF Main, StartCapture, DispatchReturn, DispatchFail, Setup, Encode,
                   Renew, Cleanup, Terminate, registryVars
<1>5. ASSUME HandleBuffer \/ HandleFlags \/ HandleReady \/ HandleFailed PROVE OutputInv'
  BY <1>2, <1>5 DEF HandleBuffer, HandleFlags, HandleReady, HandleFailed, registryVars
<1>6. ASSUME Compositor PROVE OutputInv'
  BY <1>2, <1>6 DEF Compositor, Advertise, AcceptCopy, Present, FailFrame, ChangeMode,
                   Plug, Unplug, Disconnect, clientVars
<1> QED
  BY <1>1, <1>3, <1>4, <1>5, <1>6 DEF Next, Listeners

-----------------------------------------------------------------------------
(* The theorems.                                                             *)

(* The initial states satisfy the invariant. *)
LEMMA InvInit == Init => InductiveInv
<1> SUFFICES ASSUME Init PROVE InductiveInv
  OBVIOUS
<1> USE CaptureAssumption DEF Init
<1>1. TypeOK
  <2>1. buffer \in Buffers
    BY DEF Buffers
  <2>2. frame \in FrameObjects
    BY DEF NoFrame, FrameObjects, Stages
  <2>3. wire \in Seq(Events) /\ outs \in Seq(Outputs)
    OBVIOUS
  <2>4. opt_output_num \in 0 .. want /\ frames \in Nat /\ clock \in Stamp
    BY DEF Stamp
  <2> QED
    BY <2>1, <2>2, <2>3, <2>4 DEF TypeOK, PCs, Dispatching
<1>2. WireInv /\ FrameInv /\ BufferInv /\ ProgressInv
  BY WireDistinct DEF WireInv, FrameInv, BufferInv, ProgressInv, NoFrame, Running, Ended
<1>3. OutputInv
  BY DEF OutputInv, BoundOutput
<1> QED
  BY <1>1, <1>2, <1>3 DEF InductiveInv

(* Every step, stuttering included, preserves the invariant. *)
LEMMA InvStep == InductiveInv /\ [Next]_vars => InductiveInv'
<1>1. ASSUME InductiveInv, Next PROVE InductiveInv'
  BY <1>1, TypingStep, WireStep, FrameStep, BufferStep, ProgressStep, OutputStep
     DEF InductiveInv
<1>2. ASSUME InductiveInv, UNCHANGED vars PROVE InductiveInv'
  BY <1>2 DEF InductiveInv, TypeOK, WireInv, FrameInv, BufferInv, ProgressInv, OutputInv,
              BoundOutput, Running, vars, clientVars, serverVars
<1> QED
  BY <1>1, <1>2

(* The inductive invariant holds in every reachable state. *)
THEOREM Invariance == Spec => []InductiveInv
BY InvInit, InvStep, PTL DEF Spec

(* Every variable keeps its type. *)
THEOREM TypeCorrect == Spec => []TypeOK
<1>1. InductiveInv => TypeOK
  BY DEF InductiveInv
<1> QED
  BY <1>1, Invariance, PTL

(* The encoder never reads the shared memory while the compositor may write. *)
THEOREM ExclusiveUse == Spec => []BufferExclusive
<1>1. InductiveInv => BufferExclusive
  BY DEF InductiveInv, ProgressInv, BufferInv, BufferExclusive
<1> QED
  BY <1>1, Invariance, PTL

(* Each picture is encoded with its own metadata, and only once. *)
THEOREM Coherence == Spec => []CoherentFrame
<1>1. InductiveInv => CoherentFrame
  BY CaptureAssumption, WireDistinct
     DEF InductiveInv, ProgressInv, BufferInv, FrameInv, CoherentFrame, Running, Ended
<1> QED
  BY <1>1, Invariance, PTL

(* The scaler reads with the attributes the wl_buffer was made with. *)
THEOREM BoundsRespected == Spec => []ReadInBounds
<1>1. InductiveInv => ReadInBounds
  BY CaptureAssumption
     DEF InductiveInv, ProgressInv, BufferInv, FrameInv, ReadInBounds, Running, Ended
<1> QED
  BY <1>1, Invariance, PTL

(* The end of main has a wl_buffer to destroy. *)
THEOREM CleanupSafe == Spec => []CleanupOwnsBuffer
<1>1. InductiveInv => CleanupOwnsBuffer
  BY CaptureAssumption DEF InductiveInv, ProgressInv, CleanupOwnsBuffer
<1> QED
  BY <1>1, Invariance, PTL

(* Frame objects do not pile up. *)
THEOREM FramesBounded == Spec => []OneFrameObject
<1>1. InductiveInv => OneFrameObject
  BY DEF InductiveInv, ProgressInv, OneFrameObject
<1> QED
  BY <1>1, Invariance, PTL

(* The bound output is the one -o counts to, or the last one. *)
THEOREM OutputBinding == Spec => []BoundOutput
<1>1. InductiveInv => BoundOutput
  BY DEF InductiveInv, OutputInv
<1> QED
  BY <1>1, Invariance, PTL
=============================================================================
