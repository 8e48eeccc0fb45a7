-------------------------------- MODULE Nalu --------------------------------
(***************************************************************************)
(* One packet of the encoder on its way from Annex B to the AVCC format of *)
(* the mirroring session: the configuration record that precedes the first *)
(* packet, and the loop that overwrites each start code of the packet with *)
(* the size of what stands behind it.                                      *)
(***************************************************************************)
EXTENDS Avcc

CONSTANTS
  MaxUnits,    (* bound: long start codes in a packet                 *)
  Stretches,   (* bound: what stands between two of them              *)
  MaxFirst,    (* bound: bytes of a stretch of the first packet       *)
  SizeValues,  (* values of the 4-byte size field                     *)
  SpsSet,      (* bound: sequence parameter sets                      *)
  PpsSet       (* bound: picture parameter sets                       *)

VARIABLES
  pc,                  (* where the loop is                                  *)
  codec_data_refresh,  (* the codec is still to be announced                 *)
  sets,                (* history: the parameter sets of the extradata       *)
  avcc,                (* avcc_buff[0 .. avcc_len - 1]                       *)
  units,               (* history: the stretches the encoder put in          *)
  packet,              (* pkt->data                                          *)
  pd,                  (* offset of the pointer pd                           *)
  pos_data,            (* result of the last search, relative to pd          *)
  first_nalu,          (* where what is sent of the packet begins            *)
  sizes                (* the size fields written: offset behind it -> value *)

announceVars == <<codec_data_refresh, sets, avcc>>
loopVars == <<units, packet, pd, pos_data, first_nalu, sizes>>
vars == <<pc, announceVars, loopVars>>

(* x264 puts the long start code before the first NAL unit of a packet and    *)
(* before parameter sets, and the short one, which find0001 does not look for, *)
(* before the other units: a stretch is a unit, or several with short codes    *)
(* between them.  Emulation prevention keeps 00 00 00 and 00 00 01 out of a    *)
(* unit, and no unit ends in 00.                                               *)
Byte == 0 .. 2
ShortCode == <<0, 0, 1>>
Stretch(u) ==
  /\ u \in Seq(Byte) /\ u # <<>> /\ u[Len(u)] # 0
  /\ \A i \in 1 .. Len(u) - 2 : ~(u[i] = 0 /\ u[i + 1] = 0 /\ u[i + 2] = 0)

ASSUME NaluAssumption ==
  /\ MaxUnits \in Nat /\ MaxFirst \in Nat /\ SizeValues \in Nat \ {0}
  /\ \A u \in Stretches \union SpsSet \union PpsSet : Stretch(u)
  /\ \A u \in Stretches : Len(u) < SizeValues       \* the size of a packet is an int
  /\ \A u \in SpsSet : Len(u) >= 4

UnitLists == UNION {[1 .. n -> Stretches] : n \in 1 .. MaxUnits}
FirstStretches == {u \in Stretches : Len(u) <= MaxFirst}

Prefixes(us) ==
  LET bytes[k \in 0 .. Len(us)] ==
        IF k = 0 THEN <<>> ELSE bytes[k - 1] \o StartCode \o us[k]
  IN bytes
AnnexBPacket(us) == Prefixes(us)[Len(us)]

(* Its first packet begins with a comment, an SEI unit with the short start    *)
(* code; the parameter sets are in the extradata (GLOBAL_HEADER).             *)
Comments == {ShortCode \o u : u \in FirstStretches}
ParameterSets ==
  LET pairs == SpsSet \X PpsSet
  IN  pairs \union {<<v[1], v[2], v[2]>> : v \in pairs}

Init ==
  /\ \/ /\ codec_data_refresh = TRUE /\ sets \in ParameterSets
        /\ units \in [1 .. 1 -> FirstStretches]
        /\ \E comment \in Comments \union {<<>>} : packet = comment \o AnnexBPacket(units)
     \/ /\ codec_data_refresh = FALSE /\ sets = <<>>
        /\ units \in UnitLists /\ packet = AnnexBPacket(units)
  /\ pc = "start" /\ avcc = <<>>
  /\ pd = 0 /\ pos_data = 0 /\ first_nalu = 0 /\ sizes = <<>>

-----------------------------------------------------------------------------
(* The announcement.                                                         *)

Extradata ==
  StartCode \o sets[1] \o StartCode \o sets[2]
    \o (IF Len(sets) = 3 THEN StartCode \o sets[3] ELSE <<>>)

Announce ==
  /\ pc = "start" /\ codec_data_refresh /\ ~HasThird(Extradata)
  /\ avcc' = AvccBuff(Extradata)
  /\ codec_data_refresh' = FALSE
  /\ UNCHANGED <<pc, sets, loopVars>>

Refuse ==
  /\ pc = "start" /\ codec_data_refresh /\ HasThird(Extradata)
  /\ pc' = "exit"
  /\ UNCHANGED <<announceVars, loopVars>>

-----------------------------------------------------------------------------
(* The packet.                                                               *)

WithComment(pos) == 0                           \* seeded fault: nothing cut off
FirstNalu(pos) == pos - 4

FindFirst ==
  /\ pc = "start" /\ ~codec_data_refresh
  /\ pos_data' = Find0001(packet)
  /\ first_nalu' = FirstNalu(pos_data')
  /\ pc' = "loop"
  /\ UNCHANGED <<announceVars, units, packet, pd, sizes>>

WithStart(ps) == ps + 4                         \* seeded fault: start code counted
LastSize(ps) == ps

(* pos_data2 counts from the new pd already; pos_data is taken off it again. *)
InnerSize(pos_data2) == pos_data2 - pos_data - 4

(* One pass of the loop: move on behind the start code, look for the next one, *)
(* write the size into the four bytes of this one.                           *)
Rewrite ==
  /\ pc = "loop" /\ pos_data # NotFound
  /\ LET next == pd + pos_data
         pos_data2 == Find0001(Drop(packet, next))
         nalu_len == IF pos_data2 = NotFound THEN LastSize(Len(packet) - next)
                                             ELSE InnerSize(pos_data2)
     IN /\ pd' = next
        /\ pos_data' = pos_data2
        /\ sizes' = [n \in DOMAIN sizes \union {next} |->
                       IF n = next THEN nalu_len % SizeValues ELSE sizes[n]]
  /\ UNCHANGED <<pc, announceVars, units, packet, first_nalu>>

Finish ==
  /\ pc = "loop" /\ pos_data = NotFound
  /\ pc' = "done"
  /\ UNCHANGED <<announceVars, loopVars>>

Next == Announce \/ Refuse \/ FindFirst \/ Rewrite \/ Finish
Spec == Init /\ [][Next]_vars

-----------------------------------------------------------------------------
(* Properties.                                                               *)

(* The offset behind long start code k. *)
Offset(k) == Len(packet) - Len(AnnexBPacket(SubSeq(units, k, Len(units)))) + 4
UnitOffsets == {Offset(k) : k \in 1 .. Len(units)}

(* The loop finds every long start code and nothing else: no byte of a unit    *)
(* and no short start code is overwritten, however zeros and ones fall, and no *)
(* long one is left in the packet.                                             *)
UnitsFound ==
  /\ DOMAIN sizes \subseteq UnitOffsets
  /\ pc = "done" => DOMAIN sizes = UnitOffsets

(* The last long start code, the only one of most packets, becomes the size of *)
(* all that stands behind it.                                                  *)
LastUnitMarked ==
  pc = "done" => sizes[Offset(Len(units))] = Len(units[Len(units)])

(* What is sent of a packet begins with the size field of the first long start *)
(* code: the comment of the encoder is cut off and nothing else ("To cut       *)
(* avcodec comments").                                                         *)
SentFromFirstUnit == pc = "done" => first_nalu = Offset(1) - 4

(* A device that reads the record finds the two parameter sets of the encoder, *)
(* whole and with nothing behind them, as long as their sizes fit the uint8_t  *)
(* variables; extradata with a third unit is never announced.                  *)
CodecDataExact ==
  avcc # <<>> =>
    /\ Len(sets) = 2
    /\ Len(sets[1]) < UInt8 /\ Len(sets[2]) < UInt8 =>
         DeviceView(avcc) = [header |-> <<1>> \o SubSeq(sets[1], 2, 4) \o <<255, 225>>,
                             sps |-> sets[1], count |-> 1, pps |-> sets[2], rest |-> <<>>]

(* "TODO: check buffer overload" (prepareAVCCData): the record fits avcc_buff, *)
(* because sizes of 256 and more are cut.                                      *)
RecordFits == Len(avcc) <= BuffSize

(* "Change nalu start to nalu size", "BE size of the nalu buffer" (comments   *)
(* of the loop): every long start code has become the size of what it starts. *)
UnitsMarked ==
  pc = "done" => \A k \in 1 .. Len(units) : sizes[Offset(k)] = Len(units[k])

-----------------------------------------------------------------------------
(* The inductive invariant behind CodecDataExact and RecordFits.             *)
AnnounceInv ==
  /\ codec_data_refresh => sets \in ParameterSets
  /\ avcc # <<>> =>
       sets \in ParameterSets /\ ~HasThird(Extradata) /\ avcc = AvccBuff(Extradata)

-----------------------------------------------------------------------------
(* The inductive invariant behind UnitsFound, LastUnitMarked and              *)
(* SentFromFirstUnit.                                                        *)

(* A comment in front or none, then the stretches. *)
PacketInv ==
  /\ \E n \in 1 .. Len(units) : units \in [1 .. n -> Stretches]
  /\ \E comment \in Comments \union {<<>>} : packet = comment \o AnnexBPacket(units)

(* The loop has passed the first j stretches and knows where the next one is. *)
At(j) ==
  /\ pd = IF j = 0 THEN 0 ELSE Offset(j)
  /\ pos_data = IF j = Len(units) THEN NotFound ELSE Offset(j + 1) - pd
  /\ DOMAIN sizes = {Offset(k) : k \in 1 .. j}
  /\ j = Len(units) => sizes[Offset(j)] = Len(units[j])

LoopInv ==
  /\ pc \in {"start", "exit", "loop", "done"} /\ PacketInv
  /\ pc \in {"start", "exit"} => pd = 0 /\ sizes = <<>>
  /\ pc \in {"loop", "done"} =>
       /\ first_nalu = Offset(1) - 4
       /\ \E j \in 0 .. Len(units) : At(j)
  /\ pc = "done" => pos_data = NotFound
=============================================================================
