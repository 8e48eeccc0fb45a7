------------------------------- MODULE AnnexB -------------------------------
(***************************************************************************)
(* Annex B byte streams, as wlroots-airplay1-mirror searches them: NAL     *)
(* units preceded by the start code 00 00 00 01.  Only three kinds of byte *)
(* are told apart: 0, 1 and any other, written 2.                          *)
(***************************************************************************)
EXTENDS Integers, Sequences

CharValues == 256
NotFound == -1
StartCode == <<0, 0, 0, 1>>

CounterKept(p) ==                               \* seeded fault: no reset in the else branch
  LET counter[i \in 0 .. Len(p)] ==
        IF i = 0 THEN 0
        ELSE IF p[i] = 0 THEN (counter[i - 1] + 1) % CharValues
        ELSE IF p[i] = 1 THEN 0 ELSE counter[i - 1]
  IN counter

(* `char counter' of find0001 after the first i bytes of p: it wraps. *)
Counter(p) ==
  LET counter[i \in 0 .. Len(p)] ==
        IF i = 0 \/ p[i] # 0 THEN 0 ELSE (counter[i - 1] + 1) % CharValues
  IN counter

(* find0001: the number of bytes up to the end of the first start code. *)
Find0001(p) ==
  LET counter == Counter(p)
      ends == {i \in 1 .. Len(p) : p[i] = 1 /\ counter[i - 1] = 3}
  IN IF ends = {} THEN NotFound ELSE CHOOSE i \in ends : \A j \in ends : i <= j
=============================================================================
