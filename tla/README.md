# Verification of wlroots-airplay1-mirror

TLA+ models of `src/src/wlroots-airplay1-mirror.c`, the program that captures an
output of a wlroots compositor and streams it to AirPlay 1.0 devices, to a file
and to stdout. TLC checks the models on small instances; TLAPS proves the main
safety properties for every value of the constants. `PROJECT.json` links each
definition to the lines it models and lists the hazards the properties are for.

## 1. The system

The program is one thread. Three other parties run beside it: the compositor,
the devices (or the reader of stdout), and the kernel buffers between them.

| Component | State it keeps | Operations | Talks to |
|---|---|---|---|
| Screen capture (`main` 438-464, 536-627, 732-780, listeners 104-170) | the static `struct buffer` (one `wl_buffer`, attributes, flag, time stamp), `buffer_copy_done`, `output`, `opt_output_num`, the frame proxy | registry and frame listeners, the wait for the first picture, the capture loop, clean-up | compositor by requests and events; encoder through the shared memory |
| Screencopy protocol (protocol header; the `.c` file is generated tables) | a frame object per capture, the connection | `capture_output`, `copy`, `destroy`; events `buffer`, `flags`, `ready`, `failed` | the capture listeners, by events in order |
| Outputs and delivery (`sendToOutputs` 329-346, `main` 466-534, 761-771) | `output_sockets` (255 slots, the first 0 ends the table), `output_file`, `output_stdout` | open, send to all, close | devices, by blocking sends whose result is ignored |
| Mirroring session (`initMirroringConnection`, `prepareHeader`, `main` 680-728) | `codec_data_refresh`, `header_buff`, `avcc_buff` | HTTP head, heartbeat, codec data, picture header and data | delivery |
| NAL unit conversion (`find0001` 221-232, `prepareAVCCData` 234-282, `main` 698-722) | none that outlives a packet; `avcc_buff` | parameter sets to the codec announcement, Annex B to AVCC | session |
| Time stamps and pacing (`frame_handle_ready` 136-140, `main` 563, 655-660, 736-753) | `start_pts`, `frame->pts`, `frame_ts` | rescaling, sleep | encoder |
| Shared memory buffer (`create_shm_buffer` 64-101) | a name in `/dev/shm` for a moment | create, unlink, map | other instances |
| Encoder and scaler | external (libavcodec, libswscale) | send frame, receive packet | the loop |
| RTSP client of the AirPlay 2 script under `tools/` (`client.py` 109-137, `primitives.py`) | the connection, the answer being read | request, response reader, 401 | the device; not used by the program |
| Repeater script, Java converter under `tools/` | - | exploration tools | not used by the program |

### What is hard here

* **One buffer, two writers.** The compositor fills the same shared memory the
  encoder reads; nothing but the order of requests and events separates them.
* **A struct filled by three callbacks.** Attributes, inversion flag and time
  stamp of a picture arrive in different events, and the reader takes all.
* **Registry events during the stream.** A new output reaches `handle_global`
  while the loop runs; a removed one reaches an empty handler.
* **Failure at every dispatch.** The connection may break in the wait for the
  first picture (the program goes on to the encoder set-up) and in the loop
  (orderly end).
* **Blocking fan-out.** `sendToOutputs` blocks on the slowest device, passes
  over failed sends, and may be killed by SIGPIPE at the second send to a
  device that has gone.
* **Coupling.** A blocked send stops the dispatch of events; the encoder's
  queue lies between the two halves.
* **Byte arithmetic** in the NAL unit loop and the codec announcement, `uint8_t`
  sizes and counters, a table without a length.
* **Times.** Unsigned stamps of a clock with an arbitrary origin, 0 as "unset",
  a coarse time base, and a pause computed from a clock that may be set.
* **A name shared by all instances**, taken with `O_EXCL` and given back by a
  second call that a crash can prevent.
* **A reader that takes text apart as it arrives** (RTSP), with no room for a
  line that comes in two pieces.

### What makes each component correct

* Capture: exclusive use of the buffer, coherent metadata, reads within the
  mapping, no leak of frame objects, the requested output, pictures for ever or
  an end of the program.
* Delivery: connected outputs in step, bounded lag, no stuck message, each
  output a prefix of one session whatever happens to the others.
* Session: headers, codec data and pictures in the order the device needs, each
  picture once.
* Whole program: the n-th picture sent is the n-th presented, freshness, nothing
  encoded is lost at an orderly end.
* Conversion: every unit found and marked with its size, no payload touched; the
  announcement holds the encoder's parameter sets and fits its buffer.
* Times: `frame->pts` is the time since the first picture, to the nearest tick,
  and never runs backwards; a picture takes at least its period.
* Shared memory: no two instances in the same memory, a size before it is used,
  the name held for a moment only.
* RTSP client: each request gets its own body, and every wait ends.

## 2. The modules

| Module | Models | State and actions |
|---|---|---|
| `Screencopy` | capture and compositor | `pc` is where `main` is; `buffer`, `buffer_copy_done`, `output`, `opt_output_num` are the C variables. `wl_display_dispatch` is a run of `Handle...` steps closed by `DispatchReturn` or `DispatchFail`, so events can arrive between any two listeners. `wire` holds the events sent and not dispatched; `frame` is the compositor's side of the frame object; `shm` the picture in the shared memory. |
| `MCScreencopy` | - | two outputs, two geometries, symmetric |
| `ScreencopyProofs` | - | proofs about `Screencopy` |
| `MirrorSession` | the promise to an output (abstract) | `streams`: what each output has received; `Write(n)` appends the next message of the session |
| `Airplay` | delivery and session | `cursor` is the output in the loop of `sendToOutputs`; `todo` the messages of the packet still to be sent; `sink` is the table of outputs, filled by `OpenOutput` from slot 1 on and left by `sendToOutputs` at the first empty slot; `log` (history) the messages offered to all; `sink`, `streams`, `taken` also the state of each connection and of its other end |
| `AirplayProofs` | - | proofs about `Airplay` |
| `Mirror` | the composition | instances of `Screencopy` and `Airplay`, the encoder's queue `encq`; the thread does one thing at a time, and an exit of one half is the exit of both |
| `MCMirror` | - | one output, one geometry, one device |
| `MirrorProofs` | - | proofs about `Mirror`, on top of those about its two halves |
| `AnnexB` | `find0001` | `Counter`, `Find0001` over sequences of 0, 1 and "other" |
| `Avcc` | `prepareAVCCData` | `AvccBuff`, the record made of the extradata, `HasThird`, the test that ends the program, and `DeviceView`, how a device reads the record |
| `Nalu` | a packet on its way to the device | `Announce` or `Refuse` before the first packet, then one pass of the loop that replaces start codes by sizes per step; `units` are the stretches the encoder put into the packet, `first_nalu` is where the sent part begins |
| `MCNalu` | - | the NAL units up to a length, alone or joined by a short start code, and the parameter sets |
| `NaluProofs` | - | proofs about `find0001` and the announcement |
| `NaluLoopProofs` | - | proofs about the loop over a packet |
| `ShmName` | `create_shm_buffer` in several processes | one action per system call for each instance; `name` is the entry in `/dev/shm`, `obj` what an instance has open or mapped; `Die` anywhere, `Restart` |
| `ShmNameProofs` | - | proofs about `ShmName` |
| `Timing` | stamps and pacing | `now` is true time, `offset` what `CLOCK_REALTIME` is off by, `origin` where the presentation clock began; `StartFrame` and `FinishFrame` are the two halves of the loop body, `Renew` the next request, `SetClock` an adjustment of the clock |
| `MCTiming` | - | the adjustments |
| `TimingProofs` | - | proofs about `Timing` |
| `Rtsp` | `_request` and `RTSPRequest.send` | `stream` holds what the device sent and nobody received; `RecvHeaders` is one `recv` and the pass over its lines, `RecvBody` one `recv` of the second loop, `Return` and `Unauthorised` what `_request` does with the answer; `spoiled` (history) is set when a `recv` ends inside a header line and one half of that line is blank |
| `RtspProofs` | - | proofs about `Rtsp` |

Definitions marked "seeded fault" are plausible mistakes in the code; the
specifications never use them. They say what each property is sensitive to:
replacing the definition that follows by the fault violates the property
(`PROJECT.json`, "mutants").

### Abstractions

* Geometry (format, width, height, stride) is a model value. `struct buffer`
  holds the attributes last announced (`geom`) and those the `wl_buffer` was
  made with (`wl_buffer`).
* A request acts on the compositor's frame object at once; the compositor
  reacts at any later time. The requests of a frame alternate with its events,
  so this is the FIFO connection.
* A blocking `send` or `fwrite` takes the whole message in one step once there
  is room. The order in which bytes of one message trickle out is not visible
  to any property. A file always has room, or swallows the data when the disk is
  full.
* The kernel buffer of a socket or pipe holds `SendBuf` unread messages.
* The first send after the peer has gone may be accepted or refused; after a
  refusal or reset the next one raises SIGPIPE, which kills the process.
  On stdout stdio's buffer may swallow one more message after the reader has
  left (a bound: the buffer holds several small ones), or the write that kills
  comes at once.
* The encoder is a FIFO that holds back `EncDelay` pictures. The code sets
  `tune=zerolatency` and no B-frames, so the delay is 0 in all runs.
* `exit()` in any library call, and any signal, is `Terminate`/`Abort`; the
  order of partially executed exits is not distinguished.
* A message is its type and the number of its picture; its bytes are not
  modelled except in `Nalu`, which tells 0, 1 and other bytes apart.
* `MaxSockets` is at most 255: with more addresses the program writes outside
  `output_sockets`, and no outcome is defined.
* x264 puts the long start code (00 00 00 01) before the first NAL unit of a
  packet and before parameter sets, and the short one (00 00 01), which
  `find0001` does not look for, before the other units: the slices of a picture
  and the comment in front of the first one. What stands between two long start
  codes is therefore a *stretch*: one unit, or several with short start codes
  between them. No unit ends in a zero byte and none has a start code inside
  (emulation prevention). The parameter sets are in the extradata; an SPS has at
  least four bytes. A device that reads the announcement trusts its sizes.
* In `Timing` a picture is presented at any time between its request and the
  start of the loop body; encoding and sending take any time. Each clock
  reading is exact, and the clock is set at most once during a picture, by any
  of a set of amounts. The `usleep` ends at its time or later.
* In `ShmName` a signal that interrupts `ftruncate` and a call that fails are
  one outcome; the descriptor sent to the compositor is not followed.
* In `Rtsp` the text of an answer is a sequence of words, keys with their colon,
  blanks, CR and LF. A `recv` that ends inside a word leaves the same two
  fragments of the line as one that ends beside it: with a colon on either side
  the reader sees two headers, without one it raises a `ValueError`. Requests
  fit the socket buffer. The answers are those of a device: a status line,
  `Content-Length` or none, `Date`, whose value holds colons too, and
  `WWW-Authenticate` with a 401.
* Error messages, options parsing and `-p` (documented and read, not used) have
  no model.

## 3. What is checked

| Run | Bounds | Shows |
|---|---|---|
| `Screencopy.cfg` | 2 outputs, 2 geometries, `-o` up to 2, 2 stamps | `BufferExclusive`, `CoherentFrame`, `ReadInBounds`, `CleanupOwnsBuffer`, `OneFrameObject`, `BoundOutput` and the invariant `InductiveInv` behind them, under mode changes, hotplug, failed frames, a lost connection and failing calls at every point; `KeepsStreaming`, `DisconnectEnds` under fairness |
| `Airplay.cfg` | 2 devices, file and stdout, 2 pictures, kernel buffers of 1 message | `InStep`, `LagBounded`, `DeliveryInv`, and that the module implements `MirrorSession` |
| `AirplayLive.cfg` | 1 device, file and stdout | `RoundsEnd` |
| `Mirror.cfg` | 1 output, 1 device, stdout or not, 3 pictures | `EndToEnd`, `Fresh`, `NothingLost` and the invariant `JointInv` behind them; `EachPictureSent` under fairness |
| `Nalu.cfg` | every packet of up to 3 stretches, each a unit of up to 3 bytes or two units of 1 and up to 2 bytes joined by a short start code, and every first packet of one stretch of up to 2 bytes with or without a comment; SPS of 4 bytes or 9, PPS of 1 or 2, once or twice; sizes modulo 5, 19 bytes of buffer | `UnitsFound`, `LastUnitMarked`, `SentFromFirstUnit`, `CodecDataExact`, `RecordFits` |
| `ShmName.cfg` | 3 instances, 5 objects | `Isolation`, `NameHeld`, `SizedWhenUsed`, `NeverAllRefused` and the invariant `ShmInv` behind them, under crashes and restarts between any two calls |
| `Timing.cfg` | stamps modulo 32, 8 ns to a tick, 2 ns to a microsecond, period 2, pause below 4, 15 instants, origins 0, 3 and 26, four settings of the clock | `PtsExact`, `PtsNeverBack`, `Paced`, `PauseEnds` and the invariant `TimingInv` behind them |
| `Rtsp.cfg` | 2 requests, bodies of 1 byte, 2 `recv` calls that take less than they could | `BodiesExact`, `NothingLeft` and the invariant `ReaderInv` behind them, unless a `recv` left half a header line blank; `WaitEnds` under fairness, whatever was cut |
| `StaleBuffer.cfg` | as `Screencopy.cfg` | violation of `CopyAsAdvertised` |
| `OutputChoice.cfg` | as `Screencopy.cfg` | violation of `CapturesRequestedOutput` |
| `NaluSizes.cfg` | up to 2 stretches, each a unit of up to 2 bytes | violation of `UnitsMarked` |
| `TimingDistinct.cfg` | as `Timing.cfg`, the clock never set | violation of `DistinctPts` |

**Why the bounds are enough.** Two geometries are the least for a picture to
disagree with its buffer, two outputs the least for a capture to change over or
`-o` to be unsatisfied. Stamps are drawn in turn and only compared for equality
with those of the previous picture, so two make the loop unbounded with finitely
many states. Two devices before the file and stdout allow a failing, a slow and
a healthy output in every order that `sendToOutputs` distinguishes; two pictures
cover the packet with codec data and one without. With a kernel buffer of one
message every send can block. In `Mirror` the bound of `Fresh` is tight: one
picture less and TLC finds a state beyond it. Units of three bytes hold every
run of zeros that may legally occur in front of a start code, and those that end
behind a short one show that its two zeros are never counted on to three. Sizes modulo 5 make
the SPS of nine bytes one that the size variable cuts, and 19 bytes are exactly
what two parameter sets of the largest size need, as 1024 are more than enough
for 255. Three instances around one name give a holder, one that is refused and
one that comes later; five objects leave room for restarts after a crash. In
`Timing` the numbers stand in the relations of the real ones (a tick is two
periods, the longest pause two), a clock that began at 26 wraps around after six
instants and one that began at 0 stamps the first picture 0. In `Rtsp` two cuts
in an answer suffice for a fragment that is a single blank, the one that ends
the headers early without a line feed near it, and for a `Date` header that
becomes two headers; two requests show what is left over for the next.

**Deadlock** is not checked: the process is meant to end, and a device that
stops reading blocks it.

**Fairness.** `WF` on the program's own steps: the thread is scheduled.
`WF` on the compositor's reactions: the protocol promises `buffer`, and `ready`
or `failed`, to every capture. `WF` on `DeviceRead`: a device that stays
connected goes on reading. The last one is an assumption about the other end:
the code has no timeout on a send, and without the assumption a device that
stops reading stops the whole program. `WaitEnds` assumes that a device answers
what it has received, and allows for one that hangs up: the reader then loops
for ever on `recv`, which returns no bytes. `KeepsStreaming` and `EachPictureSent`
allow the program to end, since it may be ended at any time.

### Disagreements between code and documentation

1. **A mode change ends the program** (`stale_buffer`). The `wl_buffer` of the
   first picture is used for every later copy (`wlroots-airplay1-mirror.c:110`),
   while the protocol header wants one with the attributes just announced. The
   compositor answers with `invalid_buffer`. `ReadInBounds` and `CoherentFrame`
   hold nevertheless: no picture of the new mode is ever encoded.
2. **`-o` with too large a number captures the last output** (`output_choice`),
   where the usage text says that the number selects the output. `BoundOutput`
   says exactly which output is captured. An output that is plugged in later
   takes the capture over while the number is not reached.
3. **Sizes of inner NAL units are wrong** (`nalu_sizes`). Line 713 subtracts
   `pos_data`, an offset that `pos_data2` no longer includes. The last long start
   code of a packet becomes the right size, and with one per packet, as x264
   writes them when the parameter sets are in the extradata, it is the only one.
4. **Two pictures, one time stamp** (`timing_distinct`). The time base is a tenth
   of a second (`STREAM_FRAME_RATE` 10, line 563), and the loop takes 20 pictures
   a second, as the README says and line 744 computes. `PtsExact` holds: the
   stamps are as exact as the time base allows.

Observations that contradict no text:

* Units behind short start codes are given no size field: the one in front of
  them, right as it is for the whole stretch (`LastUnitMarked`), covers the short
  codes too. `main` asks for one slice per picture (line 587), so that there are
  none but the comment, which is cut off.
* A `recv` that ends inside a header line and leaves one half of it blank, between
  CR and LF or on both sides of a blank, ends the headers early and spoils the
  answer. That cut is what `BodiesExact` and `NothingLeft` except, by `~spoiled`.
  Every other cut inside a line is harmless or refused: the halves are two
  headers, or a `ValueError` ends the script. Where one `recv` takes all the
  headers of an answer nothing is excepted (`OneRecvExact`).
* The retry after a 401 is never made, because the header is looked up with
  capitals in a dictionary of lower-case keys: the `KeyError` ends the script, so
  that the count of attempts is never above 1.
* Three limits of the code are assumed away where they would bite: a compositor
  that never fails the capture of a removed output, a device that stops reading
  without hanging up, and a peer of the RTSP client that closes the connection
  each leave the program waiting for ever.

## 4. What is proved

The eight proof modules hold for all constants that satisfy the named assumptions
of the modules they are about, and not just for the runs' values. The
assumptions of `Screencopy` and `ShmName` say that bounds are natural numbers
and that the model values stand apart, those of `Airplay` that there are at most
255 devices and a kernel buffer holds at least one message; `Mirror` has those
of its two halves. Those of `Avcc`, `Nalu` and `Timing` are met by the code's
numbers (256 and 1024; 2^64, 10^8, 1000, 50000 and 1000000), by x264's parameter
sets, and by the type of `pkt->size`: it is an `int`, so the size of a stretch
fits the four bytes of a size field. `Rtsp` asks that a
`recv` can take at least one word, and takes any number of requests, cuts and
words of a body.

**`ScreencopyProofs`.** `InductiveInv` is the conjunction of `TypeOK` and

* `WireInv` - the events on the wire are exactly those the stage of the frame
  object allows; without it a listener could run at the wrong time;
* `FrameInv` - a frame object past a stage has what that stage gave it, and the
  shared memory holds its picture once it is done;
* `BufferInv` - `struct buffer` repeats what the handled events said;
* `ProgressInv` - what each place of `main` relies on;
* `OutputInv` - what is left of `-o` counts the outputs announced.

No single safety property is inductive: that the buffer is not written while
it is read (`BufferExclusive`) needs that `buffer_copy_done` is set only for a
frame object that is done, which needs that a `ready` event on the wire belongs
to it. The theorems `TypeCorrect`, `ExclusiveUse`, `Coherence`,
`BoundsRespected`, `CleanupSafe`, `FramesBounded` and `OutputBinding` follow.

**`AirplayProofs`.** `DeliveryInv` is `TypeOK`, `InStep`,

* `TableInv` - the slots in use are the first ones, so that the first 0 is the
  end of the table and `sendToOutputs` passes over no device;
* `GrammarInv` - what was sent, what is being sent and what the next packet
  brings follow on each other in the session;
* `QueueInv` - no output is more than one message ahead of `log`, and none has
  more unread than its buffer holds;
* `CountInv` - `log` is in the order of the session and holds the data of every
  packet but the one in hand, which is what the whole program counts on.

`TypeCorrect`, `StepTogether` and `LagBound` follow. `Refinement` proves `Spec => SessionSpec`:
`Send` is the only action that changes `streams`; `InStep` gives that the output
has received `log`, `GrammarInv` that the message at hand is the next one.

**`MirrorProofs`.** `Mirror` is proved about by reuse. Each of its steps is a step
of either half or leaves it alone (`StepOfCapture`, `StepOfDelivery`), so the
invariants of the halves hold of it, and `Composition` follows: the program
implements both of their specifications. What the halves do not know of each
other is `JointInv`:

* `LoopInv` - where `main` is: a packet is in hand only while the loop body
  delivers it, and a picture is encoded before the next one is captured;
* `NumberInv` - the encoder's queue holds the pictures that follow on the packets
  it has given, up to the one in the shared memory;
* `BacklogInv` - besides the `EncDelay` pictures the encoder keeps, one picture at
  most is on its way between screen and log;
* `DoneInv` - what the end of `main` leaves.

`ProgramInvariant` shows the three invariants together (`ProgramInv`).
`InOrder` is the refinement of `MirrorSession` by the whole program, `NoneLost`
follows from `DoneInv` and the count of `CountInv`. `NeverStale` needs one more
argument: of the messages a device has not read at most every second one is a
picture, because `log` is in the order of the session (`Sparse`), and that is
where `(SendBuf + 1) \div 2` in `Fresh` comes from.

**`ShmNameProofs`.** `ShmInv` is inductive: the name refers to an object that
was created, and an instance about to unlink the name owns it (`OwnName`).
`MemoryIsolated`, `NameReleased`, `MappedMemorySized` and `OneGetsThrough`
follow, for any number of instances.

**`TimingProofs`.** `TimingInv` relates the code's variables to true time: once
the first stamp is known, `start_pts` is that stamp and `frame->pts` the rescaled
difference of two true times, whatever the origin of the clock; a pause that is
not disturbed ends a period after its picture began. `StampsExact` needs that the
stamps of a run shorter than half their range subtract exactly modulo 2^64, and
that `av_rescale_q` is off by half a tick at most. `PeriodKept` is a part of the
invariant. `NeverBack` needs `BaseInv` besides: a first stamp of 0 counts as
unset, so the stream has a second base then, and it goes on from tick 0 only
because its base is the latest picture as long as `start_pts` is 0; rescaling is
monotone (`RescaleMonotone`). `PauseBounded` is a theorem about each
`FinishFrame` step: rounding to microseconds costs less than one of them.

**`NaluProofs`.** `FindBehind`: behind a stretch, which has no long start code
inside, the next long start code is found, and nowhere before; `FindNone`:
nothing is found in a stretch alone, whatever the lengths. The counter of `find0001` is a `char` that wraps: the
lemma `ThreeZeros` shows that it is 3 only behind three zeros, and `ExactlyThree`
that it is 3 behind a byte other than 0 and three zeros. `RecordIsExact` and `BufferNotOverrun` follow: the
invariant `AnnounceInv` says that what is announced is `AvccBuff` of the
extradata, the lemma `ExtradataLayout` where the parameter sets lie in it, and
`RecordView` what a device reads out of the record.

**`NaluLoopProofs`.** `LoopInv` says that the loop has passed the first j
stretches, stands behind the start code of the j-th and knows where the next one
is; only with the whole path behind it can it say that the last pass marks the
last one. `PacketLaid` gives what a search finds at each. It rests on
`SplitPacket`, a packet of any number of stretches taken apart at any of them, on `FindBehind` and
`FindNone`, and on `CommentCodeless`: the three-byte start code of a comment is
not taken for a start code. `EveryUnitFound`, `LastIsMarked` and `CommentCutOff`
follow. That inner units get a wrong size (`nalu_sizes`) disturbs none of this:
the search starts again at each long start code.

The recursive counter is reasoned about without induction over data: the set of
lengths for which a function with its recurrence exists contains 0 and is closed
under successor, and `SetInduction`, from the well-foundedness of < on the
naturals, makes it all of them. The function `Prefixes` that puts a packet
together is treated the same way (`PrefixLoop`), and so is the one that finds the
lines of a chunk in `Rtsp` (`EndsLoop`).

**`RtspProofs`.** `ReaderInv` says, for as long as no `recv` of headers left half
a line blank, where the one answer under way is: not sent yet; in `stream`, from
the beginning of a line on or from inside one with a word still to come, and with
its blank line ahead (`Arriving`); or, once the headers are read, in `buf` and
`stream` together. `NothingLeft` is a part of it, and `BodiesReturned` follows
because a body is returned when `buf` holds `BodyLen` words, so that nothing of the
answer can be left behind it. Both have the condition `~spoiled`, and need it: the
code returns a shifted body otherwise. The argument is about a single `recv`
(`RecvPiece`): if the chunk reaches beyond the blank line, the reader finds this
line and no other (`HeadFound`), and what it keeps continues with the rest of the
stream to the body; if not, no line of the chunk is blank (`HeadGoesOn`), and what
is left of the line that was cut has a word in it (`FilledBehind`). `EndsStops`
says which lines the iteration over the chunk gives, `FilledFront` and `HeadFront`
that a chunk has the lines and the headers it reaches beyond, and
`AnswerHolds` that each of the peer's answers has the form the reader expects. In
the body nothing is assumed of line feeds. The case of a 401 needs
`NoSuchHeader`: the header looked up is never found, so no second request goes
out that the count of answers would have to allow for.

`OneRecvExact` has no condition on the run: if every `recv` takes what it can
(`MaxPieces = 0`) and that is room for any headers (23 words, `HeadLen`), no line
is ever cut (`WholeHeads`), so `spoiled` stays false, every body is exact and
nothing is left over.

**Only model-checked**: liveness (`KeepsStreaming`, `DisconnectEnds`, `RoundsEnd`,
`EachPictureSent`, `WaitEnds`), since the prover does not reason about fairness or
ENABLED here.

## 5. What is not modelled, and the plan

| Part | Status |
|---|---|
| Encoder and scaler | external: a FIFO in `Mirror`, its parameter sets and packets in `Nalu`; what they compute is not modelled |
| Header bytes (`prepareHeader`), the property list | data that no property tells apart; which message is sent when is in `Airplay` |
| `wlr-screencopy-unstable-v1-protocol.c` | generated tables of the marshaller, no state |
| `capture_output_region`, `copy_with_damage`, `zwlr_screencopy_manager_v1_destroy` | never called by the program |
| More than 255 devices | a write outside an array: no outcome is defined |
| RTSP `options`, `describe`, `setup`, `play`, the digests | never called by the script, or data; a request without data sends nothing and waits for ever, as `Sends` says |
| Repeater script | replays recorded files for ever, no state beyond the connection |
| Java converter | decompiled class of another program, an example of the conversion; what the conversion promises is stated in `Nalu` |
| `build.sh`, logs in `doc/` | no behaviour |

Every part of the program with a state of its own has a module, and every safety
property that a passing run checks is a theorem. What is left is liveness, which
stays with the model checker, and the parts of the table above.
