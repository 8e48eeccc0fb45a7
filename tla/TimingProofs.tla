---------------------------- MODULE TimingProofs ----------------------------
(***************************************************************************)
(* The time stamps and the pacing of the loop, for every width of the      *)
(* stamps, every time base and every period, with the clock set at any     *)
(* moment to any value.                                                    *)
(***************************************************************************)
EXTENDS Timing, TLAPS

-----------------------------------------------------------------------------
(* Arithmetic: what \div and % of the code's integers amount to.             *)

LEMMA DivBounds ==
  ASSUME NEW d \in Int, NEW n \in Nat \ {0}
  PROVE  d \div n \in Int /\ n * (d \div n) <= d /\ d < n * (d \div n) + n
<1>1. d \div n \in Int
  OBVIOUS
<1>2. n * (d \div n) <= d
  OBVIOUS
<1>3. d < n * (d \div n) + n
  OBVIOUS
<1> QED BY <1>1, <1>2, <1>3

LEMMA ModUnique ==
  ASSUME NEW n \in Nat \ {0}, NEW k \in Int, NEW r \in 0 .. n - 1
  PROVE  (n * k + r) % n = r
OBVIOUS

LEMMA Division ==
  ASSUME NEW d \in Int, NEW n \in Nat \ {0}
  PROVE  \E k \in Int : d = n * k + (d % n)
<1> DEFINE k == d \div n
           r == d - n * k
<1>1. k \in Int /\ n * k <= d /\ d < n * k + n
  BY DivBounds
<1>2. n * k \in Int
  BY <1>1
<1>3. r \in 0 .. n - 1 /\ d = n * k + r
  BY <1>1, <1>2
<1>4. d % n = r
  <2> HIDE DEF k, r
  <2> QED BY <1>1, <1>3, ModUnique
<1> QED BY <1>1, <1>3, <1>4

(* A difference that fits is not changed by the wrap-around of its terms. *)
LEMMA ModDiff ==
  ASSUME NEW a \in Int, NEW b \in Int, NEW n \in Nat \ {0}, a - b \in 0 .. n - 1
  PROVE  ((a % n) - (b % n)) % n = a - b
<1>1. PICK i \in Int : a = n * i + (a % n)
  BY Division
<1>2. PICK j \in Int : b = n * j + (b % n)
  BY Division
<1> DEFINE u == a % n
           v == b % n
           p == n * i
           q == n * j
           s == n * (j - i)
<1>3. u \in Int /\ v \in Int /\ p \in Int /\ q \in Int /\ s = q - p
  OBVIOUS
<1>4. a = p + u /\ b = q + v
  BY <1>1, <1>2
<1>5. u - v = s + (a - b)
  <2> HIDE DEF u, v, p, q, s
  <2> QED BY <1>3, <1>4
<1> QED BY <1>5, ModUnique, j - i \in Int

(* av_rescale_q is off by half a tick at most. *)
LEMMA NearestTick ==
  ASSUME NEW d \in Nat, TimeBase \in Nat \ {0}
  PROVE  /\ Rescale(d) \in Int
         /\ -TimeBase <= 2 * (Rescale(d) * TimeBase - d)
         /\ 2 * (Rescale(d) * TimeBase - d) <= TimeBase
<1> DEFINE h == TimeBase \div 2
           q == (d + h) \div TimeBase
           p == TimeBase * q
<1>1. h \in Int /\ 2 * h <= TimeBase /\ TimeBase < 2 * h + 2
  BY DivBounds
<1>2. q \in Int /\ p <= d + h /\ d + h < p + TimeBase
  BY <1>1, DivBounds
<1>3. Rescale(d) = q /\ p \in Int /\ q * TimeBase = p
  BY <1>2 DEF Rescale, Nearest
<1>4. -TimeBase <= 2 * (p - d) /\ 2 * (p - d) <= TimeBase
  <2> HIDE DEF h, q, p
  <2> QED BY <1>1, <1>2, <1>3
<1> QED BY <1>2, <1>3, <1>4

(* A later picture is not given an earlier tick. *)
LEMMA RescaleMonotone ==
  ASSUME NEW c \in Nat, NEW d \in Nat, c <= d, TimeBase \in Nat \ {0}
  PROVE  Rescale(c) <= Rescale(d) /\ Rescale(0) = 0 /\ Rescale(c) >= 0
<1> DEFINE h == TimeBase \div 2
<1>1. h \in Int /\ 0 <= h /\ h < TimeBase
  <2>1. h \in Int /\ 2 * h <= TimeBase /\ TimeBase < 2 * h + 2
    BY DivBounds
  <2> HIDE DEF h
  <2> QED BY <2>1
<1>2. ASSUME NEW a \in Int, NEW b \in Int, a <= b
      PROVE  a \div TimeBase <= b \div TimeBase
  <2> DEFINE i == a \div TimeBase
             j == b \div TimeBase
  <2>1. i \in Int /\ j \in Int /\ TimeBase * i <= a /\ b < TimeBase * j + TimeBase
    BY DivBounds
  <2> HIDE DEF i, j
  <2>2. TimeBase * i < TimeBase * (j + 1)
    <3>1. TimeBase * (j + 1) = TimeBase * j + TimeBase
      BY <2>1
    <3>2. TimeBase * i \in Int /\ TimeBase * j \in Int
      BY <2>1
    <3> QED BY <1>2, <2>1, <3>1, <3>2
  <2>3. i < j + 1
    BY <2>1, <2>2
  <2> QED BY <2>1, <2>3 DEF i, j
<1>3. h \div TimeBase = 0
  <2>1. h \div TimeBase \in Int /\ TimeBase * (h \div TimeBase) <= h
        /\ h < TimeBase * (h \div TimeBase) + TimeBase
    BY <1>1, DivBounds
  <2> QED BY <1>1, <2>1
<1>4. Rescale(0) = 0
  BY <1>1, <1>3 DEF Rescale, Nearest
<1>5. Rescale(c) = (c + h) \div TimeBase /\ Rescale(d) = (d + h) \div TimeBase
  BY DEF Rescale, Nearest
<1>6. c + h \in Int /\ d + h \in Int /\ c + h <= d + h /\ h <= c + h
  <2> HIDE DEF h
  <2> QED BY <1>1
<1> QED BY <1>1, <1>2, <1>3, <1>4, <1>5, <1>6

LEMMA RescaleInt ==
  ASSUME NEW d \in Int, TimeBase \in Nat \ {0}
  PROVE  Rescale(d) \in Int
<1>1. CASE d >= 0
  BY <1>1, NearestTick, d \in Nat
<1>2. CASE ~ d >= 0
  BY <1>2, (-d + TimeBase \div 2) \in Int DEF Rescale, Nearest
<1> QED BY <1>1, <1>2

(* The stamps of two pictures give the time between them. *)
LEMMA ElapsedExact ==
  ASSUME TimingAssumption, origin \in Int,
         NEW f \in Times, NEW t \in Times, f <= t
  PROVE  Elapsed(Stamp(t), Stamp(f)) = t - f
<1>1. t - f \in 0 .. PtsValues - 1 /\ 2 * (t - f) < PtsValues
  BY DEF TimingAssumption, Times
<1>2. (Stamp(t) - Stamp(f)) % PtsValues = t - f
  BY <1>1, ModDiff, (origin + t) - (origin + f) = t - f, origin + t \in Int,
     origin + f \in Int DEF Stamp, TimingAssumption, Times
<1> QED BY <1>1, <1>2 DEF Elapsed

(* The program sleeps long enough, as the quotient is rounded down, and less   *)
(* than a microsecond too long.                                               *)
LEMMA DelayEnough ==
  ASSUME TimingAssumption, NEW d \in Nat
  PROVE  /\ Delay(d) \in Int /\ Delay(d) < MaxPause
         /\ Delay(d) > 0 => d + Delay(d) * NsPerUs >= Period * NsPerUs
         /\ Delay(d) <= 0 => d >= Period * NsPerUs
         /\ d + Delay(d) * NsPerUs < Period * NsPerUs + NsPerUs
<1> DEFINE q == d \div NsPerUs
           p == NsPerUs * q
           r == Period * NsPerUs
<1>1. q \in Int /\ p <= d /\ d < p + NsPerUs /\ q >= 0
  <2>1. q \in Int /\ p <= d /\ d < p + NsPerUs
    BY DivBounds DEF TimingAssumption
  <2>2. q >= 0
    BY <2>1 DEF TimingAssumption
  <2> QED BY <2>1, <2>2
<1>2. Delay(d) = Period - q
  BY DEF Delay, Microseconds
<1>3. (Period - q) * NsPerUs = r - p /\ p \in Int /\ r \in Int
  BY <1>1 DEF TimingAssumption
<1>4. q >= Period => p >= r
  BY <1>1 DEF TimingAssumption
<1>5. Period \in Nat /\ MaxPause \in Nat /\ Period < MaxPause
  BY DEF TimingAssumption
<1> HIDE DEF q, p, r
<1>6. Delay(d) \in Int /\ Delay(d) < MaxPause
  BY <1>1, <1>2, <1>5
<1>7. Delay(d) > 0 => d + Delay(d) * NsPerUs >= r
  BY <1>1, <1>2, <1>3
<1>8. Delay(d) <= 0 => d >= r
  BY <1>1, <1>2, <1>3, <1>4, <1>5
<1>9. d + Delay(d) * NsPerUs < r + NsPerUs
  BY <1>1, <1>2, <1>3 DEF TimingAssumption
<1> QED BY <1>6, <1>7, <1>8, <1>9 DEF r
-----------------------------------------------------------------------------
(* The inductive invariant.                                                  *)

LEMMA InitTiming == ASSUME TimingAssumption, Init PROVE TimingInv
<1>1. /\ PtsValues \in Nat \ {0} /\ Horizon \in Nat
      /\ Origins \subseteq 0 .. PtsValues - 1 /\ Offsets \subseteq Int
  BY DEF TimingAssumption
<1>2. offset \in Int /\ origin \in 0 .. PtsValues - 1
  BY <1>1 DEF Init
<1>3. 0 \in Times /\ 0 \in 0 .. PtsValues - 1 /\ Unset \in Int
  BY <1>1 DEF Times, Unset
<1>4. /\ now \in Times /\ start_pts \in 0 .. PtsValues - 1 /\ requested \in Times
      /\ frame_pts \in Int /\ prev_pts \in Int /\ frame_ts \in Int /\ wake \in Int
  BY <1>3 DEF Init
<1>5. /\ started \in Times \union {Unset} /\ set \in BOOLEAN
      /\ first \in Times \union {Unset} /\ shown \in Times \union {Unset}
      /\ pc \in {"capture", "encode", "pause"}
  BY DEF Init
<1>6. TypeOK
  BY <1>2, <1>4, <1>5 DEF TypeOK
<1>7. StampInv /\ BaseInv /\ PaceInv
  BY DEF Init, StampInv, BaseInv, PaceInv, PtsNeverBack, Paced, StartKnown, Unset
<1> QED BY <1>6, <1>7 DEF TimingInv

(* The first picture that does not leave start_pts 0 makes it its own stamp. *)
LEMMA StartFrameStep ==
  ASSUME TimingAssumption, TimingInv, NEW t \in requested .. now, StartFrame(t)
  PROVE  TimingInv'
<1>1. /\ now \in Times /\ requested \in Times /\ t \in Times
      /\ requested <= t /\ t <= now /\ origin \in 0 .. PtsValues - 1 /\ offset \in Int
      /\ shown \in Times \union {Unset} /\ first \in Times \union {Unset}
      /\ start_pts \in 0 .. PtsValues - 1
  BY DEF TimingInv, TypeOK, PaceInv, Times, TimingAssumption
<1>2. /\ UNCHANGED <<now, offset, origin, wake, requested>>
      /\ pc = "capture" /\ pc' = "encode" /\ frame_ts' = now + offset
      /\ start_pts' = StartPts(Stamp(t))
      /\ frame_pts' = Rescale(Elapsed(Stamp(t), start_pts'))
      /\ prev_pts' = frame_pts
      /\ first' = IF first = Unset THEN t ELSE first
      /\ shown' = t /\ started' = now /\ set' = FALSE
  BY DEF StartFrame, clockVars
<1>3. Stamp(t) \in 0 .. PtsValues - 1
  BY <1>1 DEF Stamp, TimingAssumption, Times
<1>4. start_pts' \in 0 .. PtsValues - 1
  BY <1>1, <1>2, <1>3 DEF StartPts
<1>5. first' \in Times /\ first' <= t /\ first' # Unset
  BY <1>1, <1>2 DEF TimingInv, StampInv, Times, Unset
<1>6. Elapsed(Stamp(t), start_pts') \in Int
  BY <1>3, <1>4 DEF Elapsed, TimingAssumption
<1>7. frame_pts' \in Int
  <2>1. Rescale(Elapsed(Stamp(t), start_pts')) \in Int
    BY <1>6, RescaleInt DEF TimingAssumption
  <2> QED BY <2>1, <1>2
<1>8. TypeOK'
  <2>1. /\ now' \in Times /\ offset' \in Int /\ origin' \in 0 .. PtsValues - 1
        /\ requested' \in Times /\ wake' \in Int /\ prev_pts' \in Int
    BY <1>1, <1>2 DEF TimingInv, TypeOK
  <2>2. frame_ts' \in Int
    BY <1>1, <1>2 DEF Times, TimingAssumption
  <2>3. /\ first' \in Times \union {Unset} /\ shown' \in Times \union {Unset}
        /\ started' \in Times \union {Unset} /\ set' \in BOOLEAN
        /\ pc' \in {"capture", "encode", "pause"}
    BY <1>1, <1>2, <1>5
  <2> QED BY <1>4, <1>7, <2>1, <2>2, <2>3 DEF TypeOK
<1>9. ASSUME StartKnown'
      PROVE  start_pts' = Stamp(first)' /\ frame_pts' = Rescale(shown - first)'
  <2>1. Stamp(first)' = Stamp(first')
    BY <1>2 DEF Stamp
  <2>2. start_pts' = Stamp(first')
    <3>1. CASE first = Unset
      BY <3>1, <1>2 DEF TimingInv, StampInv, StartPts
    <3>2. CASE first # Unset
      BY <3>2, <1>2, <1>9, <2>1 DEF TimingInv, StampInv, StartPts, StartKnown
    <3> QED BY <3>1, <3>2
  <2>3. Elapsed(Stamp(t), Stamp(first')) = t - first'
    BY ElapsedExact, <1>1, <1>5
  <2> QED BY <2>1, <2>2, <2>3, <1>2
<1>10. StampInv'
  BY <1>1, <1>2, <1>5, <1>9 DEF StampInv, Times, Unset
<1>11. BaseInv'
  <2>1. \A u : Stamp(u)' = Stamp(u')
    BY <1>2 DEF Stamp
  <2>2. CASE first = Unset
    <3>1. frame_pts = Unset /\ start_pts' = Stamp(t)
      BY <2>2, <1>2 DEF TimingInv, BaseInv, StampInv, StartPts
    <3>2. frame_pts' = Rescale(t - t)
      <4>1. Elapsed(Stamp(t), Stamp(t)) = t - t
        BY <1>1, ElapsedExact, t <= t DEF Times, TimingAssumption
      <4> QED BY ONLY <4>1, <3>1, <1>2
    <3>3. t \in first' .. shown' /\ shown' = t /\ prev_pts' = Unset
      <4>1. first' = t /\ shown' = t /\ prev_pts' = Unset
        BY ONLY <2>2, <3>1, <1>2
      <4> QED BY <4>1, <1>1 DEF Times
    <3> QED BY <3>1, <3>2, <3>3, <1>5, <1>2 DEF BaseInv, PtsNeverBack, Stamp
  <2>3. CASE first # Unset
    <3>1. PICK s \in first .. shown :
            /\ start_pts = Stamp(s) /\ frame_pts = Rescale(shown - s)
            /\ start_pts = 0 => s = shown
      BY <2>3 DEF TimingInv, BaseInv
    <3>2. /\ s \in Times /\ shown \in Times /\ first' = first
          /\ first <= s /\ s <= shown /\ shown <= t
      BY <2>3, <3>1, <1>1, <1>2 DEF TimingInv, StampInv, Times, Unset, TimingAssumption
    <3>3. PICK v \in s .. t : /\ start_pts' = Stamp(v) /\ frame_pts <= Rescale(t - v)
                              /\ start_pts' = 0 => v = t
      <4>1. shown - s \in Nat /\ t - s \in Nat /\ shown - s <= t - s /\ t - t = 0
        BY <3>2, <1>1 DEF Times, TimingAssumption
      <4>2. CASE start_pts # 0
        <5>1. start_pts' = Stamp(s) /\ start_pts' # 0 /\ s \in s .. t
          BY <4>2, <3>1, <3>2, <1>1, <1>2 DEF StartPts, Times, TimingAssumption
        <5>2. frame_pts <= Rescale(t - s)
          BY <4>1, <3>1, RescaleMonotone DEF TimingAssumption
        <5> QED BY <5>1, <5>2
      <4>3. CASE start_pts = 0
        <5>1. start_pts' = Stamp(t) /\ t \in s .. t
          BY <4>3, <3>2, <1>1, <1>2 DEF StartPts, Times, TimingAssumption
        <5>2. frame_pts = Rescale(0)
          BY <4>3, <3>1, <3>2 DEF Times, TimingAssumption
        <5>3. frame_pts <= Rescale(t - t)
          BY <5>2, <4>1, RescaleMonotone DEF TimingAssumption
        <5> QED BY <5>1, <5>3
      <4> QED BY <4>2, <4>3
    <3>4. v \in Times /\ v <= t /\ v \in first' .. shown'
      BY <3>2, <3>3, <1>1, <1>2 DEF Times, TimingAssumption
    <3>5. frame_pts' = Rescale(t - v)
      <4>1. Elapsed(Stamp(t), Stamp(v)) = t - v
        BY <3>4, <1>1, ElapsedExact
      <4> QED BY ONLY <4>1, <3>3, <1>2
    <3> QED BY <3>3, <3>4, <3>5, <1>2, <1>5 DEF BaseInv, PtsNeverBack, Stamp
  <2> QED BY <2>2, <2>3
<1>12. PaceInv'
  BY <1>1, <1>2 DEF TimingInv, PaceInv, Paced, Times, Unset
<1> QED BY <1>8, <1>10, <1>11, <1>12 DEF TimingInv

(* Nothing in StampInv or PaceInv grows false as the pause is computed. *)
LEMMA FinishFrameStep ==
  ASSUME TimingAssumption, TimingInv, FinishFrame
  PROVE  TimingInv'
<1> DEFINE d == now + offset - frame_ts
<1>1. /\ pc = "encode" /\ pc' = "pause" /\ frame_ts' = 0
      /\ wake' = IF Sleeps(Delay(d)) THEN now + Delay(d) * NsPerUs ELSE now
      /\ UNCHANGED <<now, offset, origin, requested, started, set>>
      /\ UNCHANGED <<start_pts, frame_pts, first, shown, prev_pts>>
  BY DEF FinishFrame, clockVars, stampVars
<1>2. d \in Int /\ now \in Int
  BY DEF TimingInv, TypeOK, Times, TimingAssumption
<1>3. Delay(d) * NsPerUs \in Int
  <2>1. Microseconds(d) \in Int
    BY <1>2, DivBounds DEF Microseconds, TimingAssumption
  <2> QED BY <2>1 DEF Delay, TimingAssumption
<1>4. wake' \in Int
  BY <1>1, <1>2, <1>3
<1>5. ASSUME ~set PROVE wake' - started >= Period * NsPerUs
  <2>1. started \in Int /\ d = now - started /\ d \in Nat
    BY <1>1, <1>2, <1>5 DEF TimingInv, TypeOK, PaceInv, Times, Unset, TimingAssumption
  <2>2. Period * NsPerUs \in Int
    BY DEF TimingAssumption
  <2>3. /\ Delay(d) \in Int /\ Delay(d) < MaxPause
        /\ Delay(d) > 0 => d + Delay(d) * NsPerUs >= Period * NsPerUs
        /\ Delay(d) <= 0 => d >= Period * NsPerUs
    BY <2>1, DelayEnough
  <2> DEFINE w == Delay(d)
             x == w * NsPerUs
             r == Period * NsPerUs
  <2>4. w \in Int /\ x \in Int /\ r \in Int
    BY <2>2, <2>3, <1>3
  <2>5. CASE w > 0
    <3>1. wake' = now + x
      BY <2>3, <2>5, <1>1 DEF Sleeps
    <3>2. d + x >= r
      BY <2>3, <2>5
    <3> HIDE DEF x, r, d
    <3> QED BY <3>1, <3>2, <2>1, <2>4, <1>2 DEF r
  <2>6. CASE w <= 0
    <3>1. wake' = now
      BY <2>3, <2>6, <1>1 DEF Sleeps
    <3>2. d >= r
      BY <2>3, <2>6
    <3> HIDE DEF x, r, d
    <3> QED BY <3>1, <3>2, <2>1, <2>4, <1>2 DEF r
  <2> QED BY <2>4, <2>5, <2>6
<1>6. TypeOK'
  BY <1>1, <1>4 DEF TimingInv, TypeOK
<1>7. StampInv' /\ BaseInv'
  BY <1>1 DEF TimingInv, StampInv, BaseInv, PtsNeverBack, StartKnown, Stamp
<1>8. PaceInv'
  BY <1>1, <1>5 DEF TimingInv, PaceInv, Paced, Unset
<1> QED BY <1>6, <1>7, <1>8 DEF TimingInv

LEMMA RenewStep ==
  ASSUME TimingAssumption, TimingInv, Renew
  PROVE  TimingInv'
<1>1. /\ pc = "pause" /\ now >= wake /\ pc' = "capture"
      /\ requested' = now /\ wake' = 0
      /\ UNCHANGED <<now, offset, origin, frame_ts, started, set>>
      /\ UNCHANGED <<start_pts, frame_pts, first, shown, prev_pts>>
  BY DEF Renew, clockVars, stampVars
<1>2. TypeOK'
  BY <1>1 DEF TimingInv, TypeOK
<1>3. StampInv' /\ BaseInv'
  BY <1>1 DEF TimingInv, StampInv, BaseInv, PtsNeverBack, StartKnown, Stamp
<1>4. Paced'
  <2> DEFINE r == Period * NsPerUs
  <2>1. r \in Int /\ now \in Int /\ wake \in Int /\ (started # Unset => started \in Int)
    BY DEF TimingAssumption, TimingInv, TypeOK, Times
  <2>2. ~set => wake - started >= r
    BY <1>1 DEF TimingInv, PaceInv
  <2> HIDE DEF r
  <2>3. started # Unset /\ ~set => now - started >= r
    BY <2>1, <2>2, <1>1
  <2> QED BY <2>3, <1>1 DEF Paced, r
<1>5. PaceInv'
  BY <1>1, <1>4 DEF TimingInv, PaceInv, TypeOK, Times, Unset, TimingAssumption
<1> QED BY <1>2, <1>3, <1>5 DEF TimingInv

LEMMA ClockStep ==
  ASSUME TimingAssumption, TimingInv, Tick \/ SetClock \/ UNCHANGED vars
  PROVE  TimingInv'
<1>1. CASE Tick
  BY <1>1 DEF Tick, stampVars, paceVars, TimingAssumption, TimingInv, TypeOK, StampInv, BaseInv,
     PtsNeverBack, PaceInv, Paced, StartKnown, Stamp, Times, Unset
<1>2. CASE SetClock
  BY <1>2 DEF SetClock, stampVars, TimingAssumption, TimingInv, TypeOK, StampInv, BaseInv,
     PtsNeverBack, PaceInv, Paced, StartKnown, Stamp, Times, Unset
<1>3. CASE UNCHANGED vars
  BY <1>3 DEF vars, clockVars, stampVars, paceVars, TimingInv, TypeOK, StampInv, BaseInv,
     PtsNeverBack, PaceInv, Paced, StartKnown, Stamp
<1> QED BY <1>1, <1>2, <1>3

(* TimingInv holds throughout: the base of the time stamps is the first stamp *)
(* and the end of the pause was computed from a clock nobody set.             *)
THEOREM TimingInvariant == Spec => []TimingInv
<1>1. Init => TimingInv
  BY InitTiming, TimingAssumption
<1>2. TimingInv /\ [Next]_vars => TimingInv'
  BY StartFrameStep, FinishFrameStep, RenewStep, ClockStep, TimingAssumption DEF Next
<1> QED BY <1>1, <1>2, PTL DEF Spec

(* frame->pts is the time since the first picture to the nearest tick, for    *)
(* every width of the stamps and every origin of the presentation clock       *)
(* (loop body, 655-660).                                                      *)
THEOREM StampsExact == Spec => []PtsExact
<1>1. TimingInv => PtsExact
  <2> SUFFICES ASSUME TimingInv, StartKnown
               PROVE  LET error == frame_pts * TimeBase - (shown - first)
                      IN -TimeBase <= 2 * error /\ 2 * error <= TimeBase
    BY DEF PtsExact
  <2>1. frame_pts = Rescale(shown - first)
    BY DEF TimingInv, StampInv
  <2>2. shown - first \in Nat
    BY DEF TimingInv, TypeOK, StampInv, StartKnown, Times, Unset, TimingAssumption
  <2> QED BY <2>1, <2>2, NearestTick, TimingAssumption DEF TimingAssumption
<1> QED BY <1>1, TimingInvariant, PTL

(* From one picture to the request of the next at least a period passes, for  *)
(* every period and every jump of the clock outside it (loop end, 736-753).   *)
THEOREM PeriodKept == Spec => []Paced
<1>1. TimingInv => Paced
  BY DEF TimingInv, PaceInv
<1> QED BY <1>1, TimingInvariant, PTL

(* Time never runs backwards for the encoder, whatever the first stamp is: a  *)
(* base that is found with the second picture only makes it tick 0 again      *)
(* (loop body, 655-660).                                                      *)
THEOREM NeverBack == Spec => []PtsNeverBack
<1>1. TimingInv => PtsNeverBack
  BY DEF TimingInv, BaseInv
<1> QED BY <1>1, TimingInvariant, PTL

(* What the pause computed amounts to, clock set or not. *)
LEMMA PauseStep ==
  ASSUME TimingAssumption, TimingInv, FinishFrame
  PROVE  /\ wake' - now < MaxPause * NsPerUs
         /\ ~set => \/ wake' = now
                    \/ wake' - started < (Period + 1) * NsPerUs
<1> DEFINE d == now + offset - frame_ts
           w == Delay(d)
           x == w * NsPerUs
           m == MaxPause * NsPerUs
           r == Period * NsPerUs
<1>1. /\ pc = "encode"
      /\ wake' = IF Sleeps(w) THEN now + x ELSE now
  BY DEF FinishFrame
<1>2. d \in Int /\ now \in Int /\ m \in Int /\ r \in Int /\ m > 0 /\ NsPerUs \in Int
  <2>1. d \in Int /\ now \in Int
    BY DEF TimingInv, TypeOK, Times, TimingAssumption
  <2>2. m \in Int /\ r \in Int /\ m > 0 /\ NsPerUs \in Int
    BY DEF TimingAssumption
  <2> QED BY <2>1, <2>2
<1>3. w \in Int
  <2>1. Microseconds(d) \in Int
    BY <1>2, DivBounds DEF Microseconds, TimingAssumption
  <2> QED BY <2>1 DEF Delay, TimingAssumption
<1>4. CASE ~Sleeps(w)
  <2>1. wake' = now
    BY <1>1, <1>4
  <2> HIDE DEF m
  <2> QED BY <2>1, <1>2 DEF m
<1>5. CASE Sleeps(w)
  <2>1. wake' = now + x /\ w > 0 /\ w < MaxPause
    BY <1>1, <1>5 DEF Sleeps
  <2>2. x \in Int /\ x < m
    <3>1. MaxPause \in Nat /\ NsPerUs \in Nat \ {0}
      BY DEF TimingAssumption
    <3> HIDE DEF w
    <3> QED BY <3>1, <2>1, <1>3
  <2>3. wake' - now < m
    <3> HIDE DEF x, m
    <3> QED BY <2>1, <2>2, <1>2
  <2>4. ASSUME ~set PROVE wake' - started < (Period + 1) * NsPerUs
    <3>1. started \in Int /\ d = now - started /\ d \in Nat
      BY <1>1, <1>2, <2>4 DEF TimingInv, TypeOK, PaceInv, Times, Unset, TimingAssumption
    <3>2. d + x < r + NsPerUs
      BY <3>1, DelayEnough
    <3>3. (Period + 1) * NsPerUs = r + NsPerUs
      BY DEF TimingAssumption
    <3> HIDE DEF d, x, r
    <3> QED BY <2>1, <2>2, <3>1, <3>2, <3>3, <1>2 DEF r
  <2> QED BY <2>3, <2>4
<1> QED BY <1>4, <1>5

(* The pause ends within a microsecond of the period, or is not made, and the *)
(* longest one a clock that is set can cause is MaxPause.                     *)
THEOREM PauseBounded == Spec => PauseEnds
<1>1. TimingInv /\ [Next]_vars =>
        [FinishFrame =>
           /\ wake' - now < MaxPause * NsPerUs
           /\ ~set => \/ wake' = now
                      \/ wake' - started < (Period + 1) * NsPerUs]_vars
  BY PauseStep, TimingAssumption
<1> QED BY <1>1, TimingInvariant, PTL DEF Spec, PauseEnds
=============================================================================
