-------------------------------- MODULE Avcc --------------------------------
(***************************************************************************)
(* prepareAVCCData of wlroots-airplay1-mirror: from the parameter sets of  *)
(* the encoder, in Annex B format, to the configuration record that        *)
(* announces the codec.  Positions are counted like the pointers of the    *)
(* code, so x[n + 1] is the byte at position n.                            *)
(***************************************************************************)
EXTENDS AnnexB

CONSTANTS
  UInt8,     (* values of the uint8_t sps_size and pps_size: 256 *)
  BuffSize   (* size of avcc_buff: 1024                          *)

ASSUME AvccAssumption ==
  /\ UInt8 \in 1 .. 256
  /\ BuffSize \in Nat /\ 11 + 2 * (UInt8 - 1) <= BuffSize

WithStartCode(n) == (n + 4) % UInt8             \* seeded fault: start code counted
Unbounded(n) == n                               \* seeded fault: sizes that hold any length
SizeOf(n) == n % UInt8

(* The bytes of x from position n on. *)
Drop(x, n) == SubSeq(x, n + 1, Len(x))

PosSps(x) == Find0001(x)
PosPps(x) == PosSps(x) + Find0001(Drop(x, PosSps(x)))

SpsSize(x) == SizeOf(PosPps(x) - PosSps(x) - 4)
PpsSize(x) == SizeOf(Len(x) - PosPps(x))

(* "Found another nalu, it should not be here" *)
HasThird(x) == Find0001(Drop(x, PosPps(x))) # NotFound

UInt16BE(n) == <<n \div 256, n % 256>>

(* Version, profile, compatibility and level (bytes 1 to 3 of the SPS), the    *)
(* size of a size field less 1 (in 255), one SPS (in 225), one PPS.            *)
AvccBuff(x) ==
  <<1>> \o SubSeq(x, PosSps(x) + 2, PosSps(x) + 4) \o <<255, 225>>
    \o UInt16BE(SpsSize(x)) \o SubSeq(x, PosSps(x) + 1, PosSps(x) + SpsSize(x))
    \o <<1>>
    \o UInt16BE(PpsSize(x)) \o SubSeq(x, PosPps(x) + 1, PosPps(x) + PpsSize(x))

(* What a device reads out of such a record: the header, the SPS and what is   *)
(* behind it, the PPS and what is behind that.                                 *)
DeviceView(b) ==
  LET m == 256 * b[7] + b[8]
      n == 256 * b[m + 10] + b[m + 11]
  IN [header |-> SubSeq(b, 1, 6), sps |-> SubSeq(b, 9, m + 8), count |-> b[m + 9],
      pps |-> SubSeq(b, m + 12, m + n + 11), rest |-> Drop(b, m + n + 11)]
=============================================================================
