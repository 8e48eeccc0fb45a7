----------------------------- MODULE Screencopy -----------------------------
(***************************************************************************)
(* The capture half of wlroots-airplay1-mirror: the client of the          *)
(* wlr-screencopy protocol and the compositor at the other end of the      *)
(* connection.                                                             *)
(*                                                                         *)
(* The client owns ONE shared-memory wl_buffer for its whole life.  The    *)
(* compositor writes pictures into it, the encoder reads them out of it,   *)
(* and nothing but the order of requests and events keeps the two apart.   *)
(*                                                                         *)
(* Requests act on the compositor's frame object at once, and the          *)
(* compositor reacts to them at any later time; since the requests of one  *)
(* frame alternate with its events, that is a FIFO connection.  Events     *)
(* wait in `wire' until a wl_display_dispatch call hands them to a         *)
(* listener.  A dispatch call is a run of Handle... steps that ends with   *)
(* DispatchReturn (some events handled) or DispatchFail (it returned -1).  *)
(***************************************************************************)
EXTENDS Naturals, Sequences

CONSTANTS
  Outputs,    (* wl_output globals the compositor may ever announce           *)
  Geoms,      (* buffer attributes: (format, width, height, stride)           *)
  MaxRequest, (* bound: the largest -o <output_num> considered                *)
  Stamps,     (* bound: presentation stamps are drawn from 1..Stamps in turn  *)
  NULL

VARIABLES
  pc,               (* where main() is                                        *)
  handled,          (* the current dispatch call has handled an event         *)
  want,             (* the value given with -o                                *)
  opt_output_num,   (* what handle_global has left of it                      *)
  outs,             (* outputs announced, in order                            *)
  output,           (* the bound wl_output                                    *)
  bound,            (* wl_shm and screencopy manager globals bound so far     *)
  buffer,           (* the static struct `buffer'                             *)
  buffer_copy_done,
  frames,           (* live zwlr_screencopy_frame_v1 proxies                  *)
  enc               (* geometry the encoder and the AVFrame were opened with  *)

VARIABLES           (* the compositor and the connection                      *)
  offered,          (* the non-output globals it offers                       *)
  plugged,          (* outputs that exist                                     *)
  mode,             (* current geometry of every output                       *)
  frame,            (* its side of the latest frame object                    *)
  wire,             (* events sent and not yet dispatched                     *)
  shm,              (* the picture in the shared memory                       *)
  clock,            (* stamp of the next presentation                         *)
  dead              (* the connection is broken                               *)

clientVars == <<pc, handled, want, opt_output_num, outs, output, bound, buffer,
                buffer_copy_done, frames, enc>>
serverVars == <<offered, plugged, mode, frame, wire, shm, clock, dead>>
registryVars == <<want, opt_output_num, outs, output, bound>>
vars == <<clientVars, serverVars>>

Globals == {"wl_shm", "zwlr_screencopy_manager_v1"}
Dispatching == {"registry", "first", "loop"}
Ended == {"done", "abort"}
PCs == Dispatching \union Ended \union {"setup", "encode", "renew", "cleanup"}
Stages == {"none", "asked", "told", "copyasked", "copying", "done", "failed"}
Events == {"buffer", "flags", "ready", "failed"}
Stamp == 1 .. Stamps
Buffers == [wl_buffer : Geoms \union {NULL}, geom : Geoms \union {NULL},
            y_invert : BOOLEAN, pts : Stamp \union {NULL}]
Pictures == [geom : Geoms, y_invert : BOOLEAN, stamp : Stamp, encoded : BOOLEAN]
FrameObjects == [stage : Stages, output : Outputs \union {NULL},
                 geom : Geoms \union {NULL}, given : Geoms \union {NULL},
                 y_invert : BOOLEAN, stamp : Stamp \union {NULL}]

ASSUME CaptureAssumption ==
  /\ NULL \notin Outputs \union Geoms \union Stamp \union Pictures
  /\ MaxRequest \in Nat
  /\ Stamps \in Nat \ {0}

TypeOK ==
  /\ pc \in PCs
  /\ handled \in BOOLEAN
  /\ want \in 0 .. MaxRequest
  /\ opt_output_num \in 0 .. want
  /\ outs \in Seq(Outputs)
  /\ output \in Outputs \union {NULL}
  /\ bound \subseteq Globals
  /\ buffer \in Buffers
  /\ buffer_copy_done \in BOOLEAN
  /\ frames \in Nat
  /\ enc \in Geoms \union {NULL}
  /\ offered \subseteq Globals
  /\ plugged \subseteq Outputs
  /\ mode \in [Outputs -> Geoms]
  /\ frame \in FrameObjects
  /\ wire \in Seq(Events)
  /\ shm \in Pictures \union {NULL}
  /\ clock \in Stamp
  /\ dead \in BOOLEAN

NoFrame == [stage |-> "none", output |-> NULL, geom |-> NULL, given |-> NULL,
            y_invert |-> FALSE, stamp |-> NULL]

(* Static storage is zeroed; the connection to the compositor exists. *)
Init ==
  /\ pc = "registry" /\ handled = FALSE
  /\ want \in 0 .. MaxRequest /\ opt_output_num = want
  /\ outs = <<>> /\ output = NULL /\ bound = {}
  /\ buffer = [wl_buffer |-> NULL, geom |-> NULL, y_invert |-> FALSE, pts |-> NULL]
  /\ buffer_copy_done = FALSE /\ frames = 0 /\ enc = NULL
  /\ offered \in SUBSET Globals /\ plugged \in SUBSET Outputs
  /\ mode \in [Outputs -> Geoms]
  /\ frame = NoFrame /\ wire = <<>> /\ shm = NULL /\ clock = 1 /\ dead = FALSE

-----------------------------------------------------------------------------
(* The registry listener.  It stays installed, so an output that is plugged  *)
(* in later reaches handle_global as well.                                   *)

Announced == {outs[n] : n \in 1 .. Len(outs)}

WantsAlways == TRUE                             \* seeded fault: guard dropped
WantsOutput == opt_output_num > 0

OutputsLeftSame == opt_output_num               \* seeded fault: no countdown
OutputsLeft == opt_output_num - 1

(* handle_global for a wl_output: bound while opt_output_num is not used up. *)
HandleGlobalOutput(o) ==
  /\ pc \in Dispatching
  /\ o \in plugged \ Announced
  /\ outs' = Append(outs, o)
  /\ IF WantsOutput
       THEN output' = o /\ opt_output_num' = OutputsLeft
       ELSE UNCHANGED <<output, opt_output_num>>
  /\ handled' = TRUE
  /\ UNCHANGED <<pc, want, bound, buffer, buffer_copy_done, frames, enc, serverVars>>

(* handle_global for wl_shm and the screencopy manager. *)
HandleGlobalOther(g) ==
  /\ pc = "registry"
  /\ g \in offered \ bound
  /\ bound' = bound \union {g}
  /\ handled' = TRUE
  /\ UNCHANGED <<pc, want, opt_output_num, outs, output, buffer, buffer_copy_done,
                 frames, enc, serverVars>>

NoCapture == UNCHANGED frame                    \* seeded fault: not requested

(* zwlr_screencopy_manager_v1_capture_output: a frame object at both ends. *)
CaptureOutput ==
  frame' = [NoFrame EXCEPT !.stage = "asked", !.output = output]

(* The roundtrip has returned: every global that existed was announced, or   *)
(* the connection is gone.  Anything missing ends the program.               *)
StartCapture ==
  /\ pc = "registry"
  /\ dead \/ (plugged \subseteq Announced /\ offered \subseteq bound)
  /\ handled' = FALSE
  /\ IF bound = Globals /\ output # NULL
       THEN pc' = "first" /\ CaptureOutput /\ frames' = frames + 1
       ELSE pc' = "abort" /\ UNCHANGED <<frame, frames>>
  /\ UNCHANGED <<registryVars, buffer, buffer_copy_done, enc,
                 offered, plugged, mode, wire, shm, clock, dead>>
-----------------------------------------------------------------------------
(* The frame listener.                                                       *)

(* The next event of the connection is e, and a dispatch call delivers it. *)
Deliver(e) ==
  /\ pc \in {"first", "loop"}
  /\ wire # <<>> /\ Head(wire) = e
  /\ wire' = Tail(wire)
  /\ handled' = TRUE

CopyIntoFresh == frame.geom                     \* seeded fault: a new buffer on resize

(* The buffer is created for the first frame and kept for all others. *)
CopyInto == IF buffer.wl_buffer = NULL THEN frame.geom ELSE buffer.wl_buffer

(* frame_handle_buffer: remember the attributes, create the wl_buffer if there *)
(* is none yet, ask for a copy into it.  create_shm_buffer may fail.  The copy *)
(* request means nothing to a frame object that has failed meanwhile.          *)
HandleBuffer ==
  /\ Deliver("buffer")
  /\ \/ /\ buffer' = [buffer EXCEPT !.geom = frame.geom, !.wl_buffer = CopyInto]
        /\ frame' = IF frame.stage = "told"
                      THEN [frame EXCEPT !.stage = "copyasked", !.given = CopyInto]
                      ELSE frame
        /\ UNCHANGED pc
     \/ /\ buffer.wl_buffer = NULL
        /\ buffer' = [buffer EXCEPT !.geom = frame.geom]
        /\ pc' = "abort"
        /\ UNCHANGED frame
  /\ UNCHANGED <<registryVars, buffer_copy_done, frames, enc,
                 offered, plugged, mode, shm, clock, dead>>

FlagSticky == buffer.y_invert \/ frame.y_invert \* seeded fault: never cleared
Flag == frame.y_invert

HandleFlags ==
  /\ Deliver("flags")
  /\ buffer' = [buffer EXCEPT !.y_invert = Flag]
  /\ UNCHANGED <<pc, registryVars, buffer_copy_done, frames, enc,
                 offered, plugged, mode, frame, shm, clock, dead>>

HandleReady ==
  /\ Deliver("ready")
  /\ buffer' = [buffer EXCEPT !.pts = frame.stamp]
  /\ buffer_copy_done' = TRUE
  /\ UNCHANGED <<pc, registryVars, frames, enc,
                 offered, plugged, mode, frame, shm, clock, dead>>

(* frame_handle_failed: exit(EXIT_FAILURE). *)
HandleFailed ==
  /\ Deliver("failed")
  /\ pc' = "abort"
  /\ UNCHANGED <<registryVars, buffer, buffer_copy_done, frames, enc,
                 offered, plugged, mode, frame, shm, clock, dead>>

-----------------------------------------------------------------------------
(* main(): the wait for the first picture, the encoder, the capture loop.    *)

(* wl_display_dispatch returns after some events.  Both loops test            *)
(* buffer_copy_done next and dispatch again while it is unset.                *)
DispatchReturn ==
  /\ pc \in {"first", "loop"} /\ handled
  /\ handled' = FALSE
  /\ pc' = IF ~buffer_copy_done THEN pc ELSE IF pc = "first" THEN "setup" ELSE "encode"
  /\ UNCHANGED <<registryVars, buffer, buffer_copy_done, frames, enc, serverVars>>

IgnoreFail == pc                                \* seeded fault: -1 taken for events
AfterFail == IF pc = "first" THEN "setup" ELSE "cleanup"

(* wl_display_dispatch returns -1: the wait ends without a picture, the loop  *)
(* ends the program in an orderly way.                                        *)
DispatchFail ==
  /\ pc \in {"first", "loop"} /\ dead
  /\ handled' = FALSE
  /\ pc' = AfterFail
  /\ UNCHANGED <<registryVars, buffer, buffer_copy_done, frames, enc, serverVars>>

OpensAnyway == TRUE                             \* seeded fault: result not checked
EncoderOpens == buffer.geom # NULL

(* Encoder and AVFrame get the size of the first picture.  avcodec_open2      *)
(* refuses a size that was never set, and this or another library call may    *)
(* fail.  The do loop then starts at its test of buffer_copy_done.            *)
Setup ==
  /\ pc = "setup"
  /\ \/ /\ EncoderOpens
        /\ enc' = buffer.geom
        /\ pc' = IF buffer_copy_done THEN "encode" ELSE "loop"
     \/ pc' = "abort" /\ UNCHANGED enc
  /\ UNCHANGED <<handled, registryVars, buffer, buffer_copy_done, frames, serverVars>>

(* sws_scale reads the shared memory and the encoder takes the picture; a      *)
(* library call may fail.  `encoded' is history: this picture has been taken.  *)
Encode ==
  /\ pc = "encode"
  /\ \/ pc' = "renew" /\ shm' = [shm EXCEPT !.encoded = TRUE]
     \/ pc' = "abort" /\ UNCHANGED shm
  /\ UNCHANGED <<handled, registryVars, buffer, buffer_copy_done, frames, enc,
                 offered, plugged, mode, frame, wire, clock, dead>>

KeepCopyDone == UNCHANGED buffer_copy_done      \* seeded fault: flag not reset
ResetCopyDone == buffer_copy_done' = FALSE

NotDestroyed == frames                          \* seeded fault: frame leaked
Destroyed == frames - 1

(* The end of the loop body: unset buffer_copy_done, sleep, destroy the frame *)
(* and capture the output that is bound now.                                  *)
Renew ==
  /\ pc = "renew"
  /\ pc' = "loop"
  /\ ResetCopyDone
  /\ CaptureOutput
  /\ frames' = Destroyed + 1
  /\ UNCHANGED <<handled, registryVars, buffer, enc,
                 offered, plugged, mode, wire, shm, clock, dead>>

(* After the loop: the wl_buffer is destroyed and main returns EXIT_SUCCESS. *)
Cleanup ==
  /\ pc = "cleanup"
  /\ pc' = "done"
  /\ buffer' = [buffer EXCEPT !.wl_buffer = NULL]
  /\ UNCHANGED <<handled, registryVars, buffer_copy_done, frames, enc, serverVars>>

(* The process ends anywhere: by a signal - there is no other way to stop it  *)
(* while the compositor lives, and SIGPIPE is not handled - or by exit().     *)
Terminate ==
  /\ pc \notin Ended
  /\ pc' = "abort"
  /\ UNCHANGED <<handled, registryVars, buffer, buffer_copy_done, frames, enc, serverVars>>

-----------------------------------------------------------------------------
(* The compositor, as the protocol header describes it.                      *)

Serving == ~dead /\ pc \notin Ended
Pending == {"asked", "told", "copyasked", "copying"}

(* A buffer event is sent once, as soon as the frame is created. *)
Advertise ==
  /\ Serving
  /\ frame.stage = "asked" /\ frame.output \in plugged
  /\ frame' = [frame EXCEPT !.stage = "told", !.geom = mode[frame.output]]
  /\ wire' = Append(wire, "buffer")
  /\ UNCHANGED <<clientVars, offered, plugged, mode, shm, clock, dead>>

(* The buffer of a copy request must have the frame's attributes; any other   *)
(* is the protocol error invalid_buffer, which ends the connection.           *)
AcceptCopy ==
  /\ Serving
  /\ frame.stage = "copyasked"
  /\ IF frame.given = frame.geom
       THEN frame' = [frame EXCEPT !.stage = "copying"] /\ UNCHANGED dead
       ELSE dead' = TRUE /\ UNCHANGED frame
  /\ UNCHANGED <<clientVars, offered, plugged, mode, wire, shm, clock>>

NextStamp == IF clock = Stamps THEN 1 ELSE clock + 1

(* The next picture of the output is copied; flags and ready follow. *)
Present ==
  /\ Serving
  /\ frame.stage = "copying" /\ frame.output \in plugged
  /\ \E y \in BOOLEAN :
       /\ shm' = [geom |-> frame.geom, y_invert |-> y, stamp |-> clock, encoded |-> FALSE]
       /\ frame' = [frame EXCEPT !.stage = "done", !.y_invert = y, !.stamp = clock]
  /\ clock' = NextStamp
  /\ wire' = wire \o <<"flags", "ready">>
  /\ UNCHANGED <<clientVars, offered, plugged, mode, dead>>

(* A capture can fail anytime before ready; it must when the output is gone. *)
FailFrame ==
  /\ Serving
  /\ frame.stage \in Pending
  /\ frame' = [frame EXCEPT !.stage = "failed"]
  /\ wire' = Append(wire, "failed")
  /\ UNCHANGED <<clientVars, offered, plugged, mode, shm, clock, dead>>

ChangeMode(o) ==
  /\ Serving
  /\ \E g \in Geoms \ {mode[o]} : mode' = [mode EXCEPT ![o] = g]
  /\ UNCHANGED <<clientVars, offered, plugged, frame, wire, shm, clock, dead>>

Plug(o) ==
  /\ Serving
  /\ o \notin plugged \union Announced
  /\ plugged' = plugged \union {o}
  /\ UNCHANGED <<clientVars, offered, mode, frame, wire, shm, clock, dead>>

(* handle_global_remove is empty: the client goes on with the dead output. *)
Unplug(o) ==
  /\ Serving
  /\ o \in plugged \intersect Announced
  /\ plugged' = plugged \ {o}
  /\ UNCHANGED <<clientVars, offered, mode, frame, wire, shm, clock, dead>>

Disconnect ==
  /\ Serving
  /\ dead' = TRUE
  /\ UNCHANGED <<clientVars, offered, plugged, mode, frame, wire, shm, clock>>

-----------------------------------------------------------------------------
Listeners ==
  \/ \E o \in Outputs : HandleGlobalOutput(o)
  \/ \E g \in Globals : HandleGlobalOther(g)
  \/ HandleBuffer \/ HandleFlags \/ HandleReady \/ HandleFailed

Main ==
  \/ StartCapture \/ DispatchReturn \/ DispatchFail
  \/ Setup \/ Encode \/ Renew \/ Cleanup

Compositor ==
  \/ Advertise \/ AcceptCopy \/ Present \/ FailFrame
  \/ \E o \in Outputs : ChangeMode(o) \/ Plug(o) \/ Unplug(o)
  \/ Disconnect

Next == Listeners \/ Main \/ Terminate \/ Compositor

Spec == Init /\ [][Next]_vars

(* The process runs, so its steps are not put off for ever.  The compositor   *)
(* answers every frame object, as the protocol promises.                      *)
GoneFails == frame.output \notin plugged /\ FailFrame

Fairness ==
  /\ WF_vars(Listeners) /\ WF_vars(Main)
  /\ WF_vars(Advertise) /\ WF_vars(AcceptCopy) /\ WF_vars(Present) /\ WF_vars(GoneFails)

FairSpec == Spec /\ Fairness
-----------------------------------------------------------------------------
(* Properties.                                                               *)

(* The compositor never writes the shared memory while the encoder reads it,  *)
(* nor may it start to: with a single wl_buffer only the order "ready, encode, *)
(* capture again" keeps writer and reader apart.                              *)
BufferExclusive ==
  pc = "encode" => frame.stage \notin {"copyasked", "copying"}

(* What the loop body encodes is one picture with its own metadata: struct    *)
(* `buffer', filled by three listeners of one frame object, describes the     *)
(* picture that is in the shared memory, and no earlier pass encoded it.      *)
CoherentFrame ==
  pc = "encode" =>
    /\ shm # NULL /\ ~shm.encoded
    /\ buffer.pts = shm.stamp /\ buffer.y_invert = shm.y_invert
    /\ buffer.geom = shm.geom

(* sws_scale walks frame->height rows of buffer.stride bytes: at that point   *)
(* the attributes last announced, those the wl_buffer was made with and those *)
(* the encoder was opened with are the same, whatever modes the output took.  *)
ReadInBounds ==
  pc = "encode" =>
    /\ buffer.wl_buffer # NULL
    /\ buffer.geom = buffer.wl_buffer /\ enc = buffer.wl_buffer

(* wl_buffer_destroy at the end of main is never called without a wl_buffer,  *)
(* although the wait for the first picture also ends when dispatch fails.     *)
CleanupOwnsBuffer == pc = "cleanup" => buffer.wl_buffer # NULL

(* One frame object at a time: capturing for ever does not pile up proxies.   *)
OneFrameObject == frames <= 1

(* The bound output is the want-th announced one, or the last one when there  *)
(* are fewer; a later hotplug moves it only while there are fewer.            *)
BoundOutput ==
  LET n == IF want <= Len(outs) THEN want ELSE Len(outs)
  IN output = IF n = 0 THEN NULL ELSE outs[n]

(* The loop keeps producing: again and again a picture is encoded, unless the *)
(* program ends.                                                              *)
KeepsStreaming == []<>(pc = "encode" \/ pc \in Ended)

(* A lost connection ends the program: no loop waits for events for ever.     *)
DisconnectEnds == dead ~> pc \in Ended

(* "The client should then create a buffer with the provided attributes, and  *)
(* send a copy request" (protocol header, buffer event): every copy request   *)
(* carries a buffer of the attributes its frame announced.                    *)
CopyAsAdvertised ==
  frame.stage = "copyasked" => frame.given = frame.geom

(* "-o <output_num> Set the output number to capture" (usage): an output is   *)
(* captured only when it is the one with that number.                         *)
CapturesRequestedOutput ==
  frame.stage # "none" => want \in 1 .. Len(outs) /\ frame.output = outs[want]
-----------------------------------------------------------------------------
(* The inductive invariant behind the safety properties.                     *)

Running == pc \notin Ended

(* What is still on its way belongs to the latest frame object. *)
WireInv == Running =>
  /\ frame.stage \in {"none", "asked", "copyasked", "copying"} => wire = <<>>
  /\ frame.stage = "told" => wire = <<"buffer">>
  /\ frame.stage = "done" => wire \in {<<"flags", "ready">>, <<"ready">>, <<>>}
  /\ frame.stage = "failed" => wire \in {<<"buffer", "failed">>, <<"failed">>, <<>>}

(* A frame object was advertised before it is copied, and copied before it is *)
(* done; the picture in the shared memory is then its own.                    *)
FrameInv ==
  /\ frame.stage \in {"told", "copyasked", "copying", "done"} => frame.geom \in Geoms
  /\ wire = <<"buffer", "failed">> => frame.geom \in Geoms
  /\ frame.stage \in {"copying", "done"} => frame.given = frame.geom
  /\ frame.stage = "done" =>
       /\ shm \in Pictures /\ frame.stamp \in Stamp
       /\ shm.geom = frame.geom /\ shm.stamp = frame.stamp
       /\ shm.y_invert = frame.y_invert
       /\ Running /\ pc # "renew" => ~shm.encoded

(* struct `buffer' follows the events of the frame object that were handled. *)
BufferInv ==
  /\ frame.stage \in {"copyasked", "copying", "done"} /\ Running =>
       buffer.wl_buffer = frame.given /\ buffer.geom = frame.geom
  /\ frame.stage = "done" /\ wire # <<"flags", "ready">> =>
       buffer.y_invert = frame.y_invert
  /\ buffer_copy_done =>
       frame.stage = "done" /\ wire = <<>> /\ buffer.pts = frame.stamp

(* What main() relies on at each place. *)
ProgressInv ==
  /\ pc = "registry" => frame.stage = "none" /\ ~buffer_copy_done /\ frames = 0
  /\ pc \in {"registry", "first"} /\ (frame.stage \in {"none", "asked", "told"}
                                        \/ wire = <<"buffer", "failed">>) =>
       buffer.wl_buffer = NULL
  /\ pc \in {"registry", "first", "setup"} => buffer.geom = buffer.wl_buffer
  /\ pc \in {"loop", "encode", "renew", "cleanup"} =>
       enc = buffer.wl_buffer /\ enc \in Geoms
  /\ pc \in {"encode", "renew"} => buffer_copy_done
  /\ Running /\ pc # "registry" => frames = 1
  /\ frames <= 1

(* Each announced output takes one off what is left of -o. *)
OutputInv ==
  /\ opt_output_num = IF want <= Len(outs) THEN 0 ELSE want - Len(outs)
  /\ BoundOutput

InductiveInv ==
  TypeOK /\ WireInv /\ FrameInv /\ BufferInv /\ ProgressInv /\ OutputInv
=============================================================================
