------------------------------- MODULE Timing -------------------------------
(***************************************************************************)
(* The times of wlroots-airplay1-mirror.  A picture carries the time at    *)
(* which the compositor presented it, in a clock with an arbitrary origin; *)
(* the loop turns it into ticks of the encoder's time base since the first *)
(* picture.  The pause after a picture is computed from two readings of    *)
(* CLOCK_REALTIME, which may be set at any moment.                         *)
(*                                                                         *)
(* `now' is true time, in nanoseconds from the start of the program.       *)
(***************************************************************************)
EXTENDS Integers

CONSTANTS
  PtsValues,  (* values of a uint64_t: 2^64                                   *)
  TimeBase,   (* nanoseconds in a tick: 10^9 / STREAM_FRAME_RATE              *)
  NsPerUs,    (* 1000                                                         *)
  Period,     (* microseconds from picture to picture: 50000                  *)
  MaxPause,   (* microseconds: a pause of 1000000 or more is not made         *)
  Origins,    (* bound: presentation times of instant 0                       *)
  Offsets,    (* bound: what CLOCK_REALTIME may be set to, relative to now    *)
  Horizon     (* bound: nanoseconds the program runs, less than PtsValues / 2 *)

ASSUME TimingAssumption ==
  /\ PtsValues \in Nat \ {0} /\ TimeBase \in Nat \ {0} /\ NsPerUs \in Nat \ {0}
  /\ Period \in Nat /\ MaxPause \in Nat /\ Period < MaxPause
  /\ Origins \subseteq 0 .. PtsValues - 1
  /\ Offsets \subseteq Int
  /\ Horizon \in Nat /\ 2 * Horizon < PtsValues

Unset == -1

VARIABLES
  now,        (* true time                                                *)
  offset,     (* CLOCK_REALTIME minus true time                           *)
  origin,     (* the presentation clock at instant 0                      *)
  pc,         (* "capture", "encode", "pause"                             *)
  start_pts,  (* buffer.start_pts                                         *)
  frame_pts,  (* frame->pts                                               *)
  frame_ts,   (* CLOCK_REALTIME at the start of the loop body             *)
  wake,       (* when usleep returns at the earliest                      *)
  requested,  (* when the capture was requested                           *)
  started,    (* history: when the loop body was entered                  *)
  set,        (* history: CLOCK_REALTIME was set since then               *)
  first,      (* history: when the first picture was presented            *)
  shown,      (* history: when the latest picture was presented           *)
  prev_pts    (* history: frame->pts of the picture before                *)

clockVars == <<now, offset, origin>>
stampVars == <<start_pts, frame_pts, first, shown, prev_pts>>
paceVars == <<frame_ts, wake, requested, started, set>>
vars == <<clockVars, pc, stampVars, paceVars>>

Times == 0 .. Horizon

TypeOK ==
  /\ now \in Times /\ offset \in Int /\ origin \in 0 .. PtsValues - 1
  /\ pc \in {"capture", "encode", "pause"}
  /\ start_pts \in 0 .. PtsValues - 1
  /\ frame_pts \in Int /\ prev_pts \in Int /\ frame_ts \in Int /\ wake \in Int
  /\ requested \in Times
  /\ started \in Times \union {Unset} /\ set \in BOOLEAN
  /\ first \in Times \union {Unset} /\ shown \in Times \union {Unset}

Init ==
  /\ now = 0 /\ offset \in Offsets /\ origin \in Origins
  /\ pc = "capture" /\ requested = 0
  /\ start_pts = 0 /\ frame_pts = Unset /\ prev_pts = Unset
  /\ frame_ts = 0 /\ wake = 0 /\ started = Unset /\ set = FALSE
  /\ first = Unset /\ shown = Unset

-----------------------------------------------------------------------------
(* Time stamps.                                                              *)

(* frame_handle_ready: the stamp of a picture presented at t, a uint64_t. *)
Stamp(t) == (origin + t) % PtsValues

LatestStart(pts) == pts                         \* seeded fault: test of start_pts lost
StartPts(pts) == IF start_pts = 0 THEN pts ELSE start_pts

PlainElapsed(pts, start) == pts - start         \* seeded fault: no wrap-around

(* frame->pts - buffer.start_pts, computed as uint64_t, read as int64_t. *)
Elapsed(pts, start) ==
  LET d == (pts - start) % PtsValues
  IN IF 2 * d < PtsValues THEN d ELSE d - PtsValues

(* av_rescale_q to the time base: to the nearest tick, halves away from zero. *)
Nearest(d) == (d + TimeBase \div 2) \div TimeBase
Rescale(d) == IF d >= 0 THEN Nearest(d) ELSE -Nearest(-d)

(* The picture of the request is presented at t, and the loop body starts: it *)
(* reads the clock, computes frame->pts and encodes.                          *)
StartFrame(t) ==
  /\ pc = "capture"
  /\ pc' = "encode"
  /\ frame_ts' = now + offset
  /\ start_pts' = StartPts(Stamp(t))
  /\ frame_pts' = Rescale(Elapsed(Stamp(t), start_pts'))
  /\ prev_pts' = frame_pts
  /\ first' = IF first = Unset THEN t ELSE first
  /\ shown' = t /\ started' = now /\ set' = FALSE
  /\ UNCHANGED <<clockVars, wake, requested>>

-----------------------------------------------------------------------------
(* Pacing.                                                                   *)

Microseconds(ns) ==                             (* integer division of C *)
  IF ns >= 0 THEN ns \div NsPerUs ELSE -((-ns) \div NsPerUs)

DelayRoundedUp(elapsed) ==                      \* seeded fault: elapsed time rounded up
  Period - Microseconds(elapsed + NsPerUs - 1)
Delay(elapsed) == Period - Microseconds(elapsed)

AnyDelay(delay) == delay > 0                    \* seeded fault: no upper limit
Sleeps(delay) == delay > 0 /\ delay < MaxPause

(* The picture has been sent: usleep for what is left of the period.  last_ts *)
(* and frame->pts are never AV_NOPTS_VALUE, so their tests always pass, and   *)
(* frame_ts is not read again.                                                *)
FinishFrame ==
  /\ pc = "encode"
  /\ pc' = "pause"
  /\ LET delay == Delay(now + offset - frame_ts)
     IN wake' = IF Sleeps(delay) THEN now + delay * NsPerUs ELSE now
  /\ frame_ts' = 0
  /\ UNCHANGED <<clockVars, stampVars, requested, started, set>>

(* usleep returns, at the earliest when it should, and the next picture is    *)
(* requested.                                                                 *)
Renew ==
  /\ pc = "pause" /\ now >= wake
  /\ pc' = "capture"
  /\ requested' = now /\ wake' = 0
  /\ UNCHANGED <<clockVars, stampVars, frame_ts, started, set>>

Tick ==
  /\ now < Horizon
  /\ now' = now + 1
  /\ UNCHANGED <<offset, origin, pc, stampVars, paceVars>>

(* The program reads CLOCK_REALTIME when it starts a picture and when it has   *)
(* finished it; only what happens to the clock in between makes a difference. *)
SetClock ==
  /\ pc = "encode" /\ ~set
  /\ offset' \in Offsets \ {offset}
  /\ set' = TRUE
  /\ UNCHANGED <<now, origin, pc, stampVars, frame_ts, wake, requested, started>>

Next ==
  \/ \E t \in requested .. now : StartFrame(t)
  \/ FinishFrame \/ Renew
  \/ Tick \/ SetClock

Spec == Init /\ [][Next]_vars

-----------------------------------------------------------------------------
(* Properties.                                                               *)

(* 0 in start_pts stands for "unset" (loop body): a first picture stamped 0   *)
(* leaves it unset, and the time base then starts at the second one.          *)
StartKnown == first # Unset /\ Stamp(first) # 0

(* frame->pts is the time since the first picture, to the nearest tick,       *)
(* although the presentation clock starts anywhere and may wrap around, and   *)
(* whatever happens to CLOCK_REALTIME.                                        *)
PtsExact ==
  StartKnown =>
    LET error == frame_pts * TimeBase - (shown - first)
    IN -TimeBase <= 2 * error /\ 2 * error <= TimeBase

(* Time never runs backwards for the encoder, also after a first stamp of 0. *)
PtsNeverBack == prev_pts # Unset => frame_pts >= prev_pts

(* "50000 = 50msec == 0.05 sec = 20f/s" (pause at the end of the loop): from   *)
(* one picture to the request of the next at least a period passes, unless    *)
(* CLOCK_REALTIME is set in between.                                          *)
Paced ==
  pc = "capture" /\ started # Unset /\ ~set =>
    requested - started >= Period * NsPerUs

(* The pause ends: within a microsecond of the period, or at once when        *)
(* encoding took longer; a clock set back does not stretch it to MaxPause.    *)
PauseEnds ==
  [][FinishFrame =>
       /\ wake' - now < MaxPause * NsPerUs
       /\ ~set => \/ wake' = now
                  \/ wake' - started < (Period + 1) * NsPerUs]_vars

(* The stream runs at 20 pictures a second (README, Tests) and every picture  *)
(* has a time of its own in it.                                               *)
DistinctPts == StartKnown /\ prev_pts # Unset => frame_pts # prev_pts

-----------------------------------------------------------------------------
(* The inductive invariants behind PtsExact, PtsNeverBack and Paced.         *)

StampInv ==
  /\ shown = Unset <=> first = Unset
  /\ shown # Unset => first <= shown /\ shown <= now
  /\ first = Unset => start_pts = 0
  /\ first # Unset /\ pc = "capture" => shown <= requested
  /\ StartKnown =>
       /\ start_pts = Stamp(first)
       /\ frame_pts = Rescale(shown - first)

(* The time base is the stamp of some picture s, the latest one as long as    *)
(* start_pts still counts as unset.                                           *)
BaseInv ==
  /\ first = Unset => frame_pts = Unset
  /\ first # Unset => \E s \in first .. shown :
       /\ start_pts = Stamp(s) /\ frame_pts = Rescale(shown - s)
       /\ start_pts = 0 => s = shown
  /\ PtsNeverBack

PaceInv ==
  /\ started <= now /\ requested <= now
  /\ pc # "capture" => started # Unset
  /\ pc = "encode" /\ ~set => frame_ts = started + offset
  /\ pc = "pause" /\ ~set => wake - started >= Period * NsPerUs
  /\ Paced

TimingInv == TypeOK /\ StampInv /\ BaseInv /\ PaceInv
=============================================================================
