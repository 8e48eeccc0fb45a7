----------------------------- MODULE NaluProofs -----------------------------
(***************************************************************************)
(* find0001 and the announcement of the codec, for byte strings and        *)
(* parameter sets of every length.                                         *)
(***************************************************************************)
EXTENDS Nalu, TLAPS, SequenceTheorems, WellFoundedInduction

-----------------------------------------------------------------------------
(* Natural numbers: a least element, and induction over a set.               *)

LEMMA LeastElement ==
  ASSUME NEW S \in SUBSET Nat, S # {}
  PROVE  \E i \in S : \A j \in S : i <= j
<1> DEFINE R == {ss \in Nat \X Nat : ss[1] < ss[2]}
<1>1. IsWellFoundedOn(R, Nat)
  BY NatLessThanWellFounded DEF OpToRel
<1>2. PICK i \in S : \A j \in S : ~(<<j, i>> \in R)
  <2> HIDE DEF R
  <2> QED BY <1>1, WFMin
<1>3. ASSUME NEW j \in S PROVE i <= j
  <2>1. <<j, i>> \in Nat \X Nat /\ <<j, i>>[1] = j /\ <<j, i>>[2] = i
    OBVIOUS
  <2>2. ~(j < i)
    BY <1>2, <2>1
  <2> QED BY <2>2
<1> QED BY <1>3

LEMMA SetInduction ==
  ASSUME NEW S, 0 \in S, \A n \in S \cap Nat : n + 1 \in S
  PROVE  Nat \subseteq S
<1> SUFFICES ASSUME Nat \ S # {} PROVE FALSE
  OBVIOUS
<1>1. PICK m \in Nat \ S : \A j \in Nat \ S : m <= j
  BY LeastElement
<1>2. m - 1 \in Nat /\ m = (m - 1) + 1
  BY <1>1
<1>3. m - 1 \in S
  BY <1>1, <1>2
<1> QED BY <1>1, <1>2, <1>3

-----------------------------------------------------------------------------
(* find0001.                                                                 *)

LEMMA CounterWraps ==
  ASSUME NEW c \in 0 .. CharValues - 1
  PROVE  (c + 1) % CharValues \in 0 .. CharValues - 1 /\ 0 \in 0 .. CharValues - 1
BY DEF CharValues

(* The counter after each byte is what the loop makes of it. *)
LEMMA CounterLoop ==
  ASSUME NEW p, NEW N \in Nat, Len(p) = N
  PROVE  /\ Counter(p) \in [0 .. N -> 0 .. CharValues - 1]
         /\ \A i \in 0 .. N :
              Counter(p)[i] = IF i = 0 \/ p[i] # 0 THEN 0
                              ELSE (Counter(p)[i - 1] + 1) % CharValues
<1> DEFINE Next0(f, i) == IF i = 0 \/ p[i] # 0 THEN 0 ELSE (f[i - 1] + 1) % CharValues
           Steps(f, n) == \A i \in 0 .. n : f[i] = Next0(f, i)
           Done(n) == {f \in [0 .. n -> 0 .. CharValues - 1] : Steps(f, n)}
           S == {n \in Nat : Done(n) # {}}
<1>1. 0 \in S
  <2> DEFINE f0 == [i \in 0 .. 0 |-> 0]
  <2>1. f0 \in Done(0)
    BY DEF CharValues
  <2> QED BY <2>1
<1>2. ASSUME NEW n \in Nat, n \in S PROVE n + 1 \in S
  <2>1. PICK f \in Done(n) : TRUE
    BY <1>2
  <2> DEFINE g == [i \in 0 .. n + 1 |-> IF i = n + 1 THEN Next0(f, i) ELSE f[i]]
  <2>2. f \in [0 .. n -> 0 .. CharValues - 1] /\ Steps(f, n)
    BY <2>1
  <2>3. g \in [0 .. n + 1 -> 0 .. CharValues - 1]
    <3>1. Next0(f, n + 1) \in 0 .. CharValues - 1
      <4> DEFINE c == f[(n + 1) - 1]
      <4>1. c \in 0 .. CharValues - 1
        BY <2>2
      <4>3. (c + 1) % CharValues \in 0 .. CharValues - 1
        <5> HIDE DEF c
        <5> QED BY <4>1, CounterWraps
      <4> QED BY <4>3, CounterWraps
    <3> HIDE DEF Next0
    <3> QED BY <2>2, <3>1
  <2>4. Steps(g, n + 1)
    <3> SUFFICES ASSUME NEW i \in 0 .. n + 1 PROVE g[i] = Next0(g, i)
      OBVIOUS
    <3>1. i # 0 => g[i - 1] = f[i - 1]
      OBVIOUS
    <3>2. g[i] = Next0(f, i)
      BY <2>2
    <3> QED BY <3>1, <3>2
  <2>5. g \in Done(n + 1)
    BY <2>3, <2>4
  <2> HIDE DEF g, Done
  <2> QED BY <2>5
<1>3. Nat \subseteq S
  <2> HIDE DEF S
  <2>1. \A n \in S \cap Nat : n + 1 \in S
    BY <1>2
  <2> QED BY ONLY <1>1, <2>1, SetInduction
<1>4. PICK f \in [0 .. N -> 0 .. CharValues - 1] : Steps(f, N)
  BY <1>3
<1> DEFINE Body(h) == [i \in 0 .. Len(p) |->
                         IF i = 0 \/ p[i] # 0 THEN 0 ELSE (h[i - 1] + 1) % CharValues]
<1>5. f = Body(f)
  BY <1>4
<1>6. Counter(p) = CHOOSE h : h = Body(h)
  BY DEF Counter
<1>7. Counter(p) = Body(Counter(p))
  <2> HIDE DEF Body
  <2> QED BY <1>5, <1>6
<1> DEFINE h == Counter(p)
           T == {n \in Nat : n <= N => h[n] \in 0 .. CharValues - 1}
<1>8. h = [i \in 0 .. N |-> Next0(h, i)]
  BY <1>7
<1> HIDE DEF h
<1>9. 0 \in T
  BY <1>8 DEF CharValues
<1>10. ASSUME NEW n \in Nat, n \in T PROVE n + 1 \in T
  <2> SUFFICES ASSUME n + 1 <= N PROVE h[n + 1] \in 0 .. CharValues - 1
    OBVIOUS
  <2>1. h[n] \in 0 .. CharValues - 1 /\ n + 1 \in 0 .. N /\ n + 1 # 0 /\ (n + 1) - 1 = n
    BY <1>10
  <2>2. h[n + 1] = Next0(h, n + 1)
    BY <1>8, <2>1
  <2>3. h[n + 1] = IF p[n + 1] # 0 THEN 0 ELSE (h[n] + 1) % CharValues
    BY <2>1, <2>2
  <2> DEFINE c == h[n]
  <2>4. c \in 0 .. CharValues - 1
    BY <2>1
  <2>5. (c + 1) % CharValues \in 0 .. CharValues - 1
    <3> HIDE DEF c
    <3> QED BY <2>4, CounterWraps
  <2> QED BY <2>3, <2>5, CounterWraps
<1>11. Nat \subseteq T
  <2> HIDE DEF T
  <2>1. \A n \in T \cap Nat : n + 1 \in T
    BY <1>10
  <2> QED BY ONLY <1>9, <2>1, SetInduction
<1>12. h \in [0 .. N -> 0 .. CharValues - 1]
  <2>1. \A n \in 0 .. N : h[n] \in 0 .. CharValues - 1
    BY <1>11
  <2>2. h = [n \in 0 .. N |-> h[n]]
    BY <1>8
  <2> QED BY <2>1, <2>2
<1>13. \A i \in 0 .. N : h[i] = Next0(h, i)
  BY <1>8
<1> QED BY <1>12, <1>13 DEF h
(* Where the loop may return. *)
Ends(p) == {i \in 1 .. Len(p) : p[i] = 1 /\ Counter(p)[i - 1] = 3}

LEMMA FindLeast ==
  ASSUME NEW p \in Seq(Nat)
  PROVE  \/ Ends(p) = {} /\ Find0001(p) = NotFound
         \/ Find0001(p) \in Ends(p) /\ \A j \in Ends(p) : Find0001(p) <= j
<1>1. CASE Ends(p) = {}
  BY <1>1 DEF Find0001, Ends
<1>2. CASE Ends(p) # {}
  <2>1. PICK i \in Ends(p) : \A j \in Ends(p) : i <= j
    <3>1. Ends(p) \subseteq Nat
      BY DEF Ends
    <3> QED BY <1>2, <3>1, LeastElement
  <2>2. Find0001(p) = CHOOSE n \in Ends(p) : \A j \in Ends(p) : n <= j
    BY <1>2 DEF Find0001, Ends
  <2> HIDE DEF Ends
  <2> QED BY <2>1, <2>2
<1> QED BY <1>1, <1>2

(* The counter stands at 3 only behind three zeros ... *)
LEMMA ThreeZeros ==
  ASSUME NEW p \in Seq(Nat), NEW i \in Ends(p)
  PROVE  i \in 4 .. Len(p) /\ p[i] = 1 /\ p[i - 1] = 0 /\ p[i - 2] = 0 /\ p[i - 3] = 0
<1> DEFINE c == Counter(p)
           N == Len(p)
<1>1. N \in Nat /\ i \in 1 .. N /\ p[i] = 1 /\ c[i - 1] = 3
  BY DEF Ends
<1>2. \A n \in 0 .. N : c[n] \in 0 .. CharValues - 1
  <2>1. c \in [0 .. N -> 0 .. CharValues - 1]
    BY <1>1, CounterLoop
  <2> HIDE DEF c, N
  <2> QED BY ONLY <2>1
<1>3. \A n \in 0 .. N : c[n] = IF n = 0 \/ p[n] # 0 THEN 0 ELSE (c[n - 1] + 1) % CharValues
  BY <1>1, CounterLoop
<1> HIDE DEF c, N
<1>4. ASSUME NEW n \in 0 .. N, NEW v \in 1 .. 3, c[n] = v
      PROVE  n - 1 \in 0 .. N /\ p[n] = 0 /\ c[n - 1] = v - 1
  <2>1. n # 0 /\ p[n] = 0 /\ c[n] = (c[n - 1] + 1) % CharValues
    BY <1>3, <1>4
  <2>2. n - 1 \in 0 .. N
    BY <2>1, <1>1
  <2> DEFINE d == c[n - 1]
  <2>3. d \in 0 .. CharValues - 1 /\ (d + 1) % CharValues = v
    BY <2>1, <2>2, <1>2, <1>4
  <2>4. d = v - 1
    <3> HIDE DEF d
    <3> QED BY <2>3 DEF CharValues
  <2> QED BY <2>1, <2>2, <2>4
<1>5. i - 1 \in 0 .. N
  BY <1>1
<1>6. i - 2 \in 0 .. N /\ p[i - 1] = 0 /\ c[i - 2] = 2
  <2>1. (i - 1) - 1 = i - 2
    BY <1>1
  <2> QED BY <1>1, <1>4, <1>5, <2>1
<1>7. i - 3 \in 0 .. N /\ p[i - 2] = 0 /\ c[i - 3] = 1
  <2>1. (i - 2) - 1 = i - 3
    BY <1>1
  <2> QED BY <1>4, <1>6, <2>1
<1>8. i - 4 \in 0 .. N /\ p[i - 3] = 0
  <2>1. (i - 3) - 1 = i - 4
    BY <1>1
  <2> QED BY <1>4, <1>7, <2>1
<1> QED BY <1>1, <1>6, <1>7, <1>8 DEF N

(* ... and always behind exactly three. *)
LEMMA ExactlyThree ==
  ASSUME NEW p \in Seq(Nat), NEW k \in Nat, k + 4 <= Len(p), k = 0 \/ p[k] # 0,
         p[k + 1] = 0, p[k + 2] = 0, p[k + 3] = 0, p[k + 4] = 1
  PROVE  k + 4 \in Ends(p)
<1> DEFINE c == Counter(p)
           N == Len(p)
<1>1. N \in Nat
  OBVIOUS
<1>2. \A n \in 0 .. N : c[n] = IF n = 0 \/ p[n] # 0 THEN 0 ELSE (c[n - 1] + 1) % CharValues
  BY <1>1, CounterLoop
<1>3. k \in 0 .. N /\ k + 1 \in 0 .. N /\ k + 2 \in 0 .. N /\ k + 3 \in 0 .. N /\ k + 4 \in 1 .. N
  BY <1>1
<1> HIDE DEF c, N
<1>4. c[k] = 0
  BY <1>2, <1>3
<1>5. c[k + 1] = 1
  <2>1. k + 1 # 0 /\ (k + 1) - 1 = k
    OBVIOUS
  <2>2. c[k + 1] = (c[k] + 1) % CharValues
    BY <1>2, <1>3, <2>1
  <2> QED BY <1>4, <2>2 DEF CharValues
<1>6. c[k + 2] = 2
  <2>1. k + 2 # 0 /\ (k + 2) - 1 = k + 1
    OBVIOUS
  <2>2. c[k + 2] = (c[k + 1] + 1) % CharValues
    BY <1>2, <1>3, <2>1
  <2> QED BY <1>5, <2>2 DEF CharValues
<1>7. c[k + 3] = 3
  <2>1. k + 3 # 0 /\ (k + 3) - 1 = k + 2
    OBVIOUS
  <2>2. c[k + 3] = (c[k + 2] + 1) % CharValues
    BY <1>2, <1>3, <2>1
  <2> QED BY <1>6, <2>2 DEF CharValues
<1>8. (k + 4) - 1 = k + 3
  OBVIOUS
<1> QED BY <1>3, <1>7, <1>8 DEF Ends, c, N
-----------------------------------------------------------------------------
(* NAL units one behind the other.                                           *)

LEMMA StartCodeType == StartCode \in Seq(Nat)
BY DEF StartCode

LEMMA StartCodeBytes ==
  Len(StartCode) = 4 /\ StartCode[1] = 0 /\ StartCode[2] = 0
    /\ StartCode[3] = 0 /\ StartCode[4] = 1
BY DEF StartCode

(* A NAL unit or several with short start codes between them: no three zeros in *)
(* a row, none at its end.                                                      *)
IsUnit(u) == u \in Seq(Nat) /\ (u # <<>> => Stretch(u))

LEMMA NoCodeInside ==
  ASSUME NEW u, IsUnit(u), NEW i \in 4 .. Len(u)
  PROVE  ~(u[i] = 1 /\ u[i - 1] = 0 /\ u[i - 2] = 0 /\ u[i - 3] = 0)
<1>1. u # <<>>
  <2> SUFFICES ASSUME u = <<>> PROVE FALSE
    OBVIOUS
  <2> QED OBVIOUS
<1>2. Len(u) \in Nat /\ i - 3 \in 1 .. Len(u) - 2
  BY DEF IsUnit
<1>3. ~(u[i - 3] = 0 /\ u[i - 3 + 1] = 0 /\ u[i - 3 + 2] = 0)
  BY <1>1, <1>2 DEF IsUnit, Stretch
<1>4. i - 3 + 1 = i - 2 /\ i - 3 + 2 = i - 1
  BY <1>2
<1> QED BY <1>3, <1>4

(* The elements of a concatenation, by position. *)
LEMMA Elements ==
  ASSUME NEW S, NEW s \in Seq(S), NEW t \in Seq(S)
  PROVE  /\ s \o t \in Seq(S) /\ Len(s) \in Nat /\ Len(t) \in Nat
         /\ Len(s \o t) = Len(s) + Len(t)
         /\ \A i \in 1 .. Len(s) : (s \o t)[i] = s[i]
         /\ \A i \in 1 .. Len(t) : (s \o t)[Len(s) + i] = t[i]
<1> DEFINE m == Len(s)
           n == Len(t)
           st == s \o t
<1>1. /\ st \in Seq(S) /\ m \in Nat /\ n \in Nat /\ Len(st) = m + n
      /\ \A i \in 1 .. m + n : st[i] = IF i <= m THEN s[i] ELSE t[i - m]
  BY ConcatProperties, LenProperties
<1> HIDE DEF m, n, st
<1>2. \A i \in 1 .. m : st[i] = s[i]
  BY <1>1
<1>3. \A i \in 1 .. n : st[m + i] = t[i]
  <2> SUFFICES ASSUME NEW i \in 1 .. n PROVE st[m + i] = t[i]
    OBVIOUS
  <2>1. m + i \in 1 .. m + n /\ ~(m + i <= m) /\ (m + i) - m = i
    BY <1>1
  <2> QED BY <1>1, <2>1
<1> QED BY <1>1, <1>2, <1>3 DEF m, n, st

LEMMA CodeBehind ==
  ASSUME NEW u \in Seq(Nat), NEW t \in Seq(Nat)
  PROVE  LET k == Len(u)
             p == u \o (StartCode \o t)
         IN /\ k \in Nat /\ p \in Seq(Nat) /\ Len(p) = k + 4 + Len(t) /\ Len(t) \in Nat
            /\ \A i \in 1 .. k : p[i] = u[i]
            /\ p[k + 1] = 0 /\ p[k + 2] = 0 /\ p[k + 3] = 0 /\ p[k + 4] = 1
<1> DEFINE r == StartCode \o t
           k == Len(u)
           p == u \o (StartCode \o t)
<1> SUFFICES /\ k \in Nat /\ p \in Seq(Nat) /\ Len(p) = k + 4 + Len(t) /\ Len(t) \in Nat
             /\ \A i \in 1 .. k : p[i] = u[i]
             /\ p[k + 1] = 0 /\ p[k + 2] = 0 /\ p[k + 3] = 0 /\ p[k + 4] = 1
  BY Zenon
<1>1. /\ r \in Seq(Nat) /\ Len(t) \in Nat /\ Len(r) = Len(StartCode) + Len(t)
      /\ \A i \in 1 .. Len(StartCode) : r[i] = StartCode[i]
  BY StartCodeType, Elements
<1> HIDE DEF r
<1>2. Len(r) = 4 + Len(t) /\ r[1] = 0 /\ r[2] = 0 /\ r[3] = 0 /\ r[4] = 1
  BY <1>1, StartCodeBytes
<1>3. /\ u \o r \in Seq(Nat) /\ Len(u) \in Nat /\ Len(u \o r) = Len(u) + Len(r)
      /\ \A i \in 1 .. Len(u) : (u \o r)[i] = u[i]
      /\ \A i \in 1 .. Len(r) : (u \o r)[Len(u) + i] = r[i]
  <2>1. r \in Seq(Nat)
    BY <1>1
  <2> QED BY ONLY <2>1, u \in Seq(Nat), Elements
<1>4. p = u \o r
  BY DEF r
<1> HIDE DEF p
<1> DEFINE m == Len(r)
<1>5. /\ p \in Seq(Nat) /\ k \in Nat /\ Len(p) = k + m
      /\ \A i \in 1 .. k : p[i] = u[i]
      /\ \A i \in 1 .. m : p[k + i] = r[i]
  BY <1>3, <1>4
<1>6. m = 4 + Len(t)
  BY <1>2
<1> HIDE DEF m
<1>7. p[k + 1] = r[1] /\ p[k + 2] = r[2] /\ p[k + 3] = r[3] /\ p[k + 4] = r[4]
  <2>1. 1 \in 1 .. m /\ 2 \in 1 .. m /\ 3 \in 1 .. m /\ 4 \in 1 .. m
    BY <1>1, <1>6
  <2> QED BY <1>5, <2>1
<1> QED BY <1>1, <1>2, <1>5, <1>6, <1>7

(* No start code is in u, nor one that u begins and the code behind it ends. *)
Codeless(u) ==
  /\ u \in Seq(Nat)
  /\ Len(u) = 0 \/ u[Len(u)] # 0
  /\ \A i \in 4 .. Len(u) : ~(u[i] = 1 /\ u[i - 1] = 0 /\ u[i - 2] = 0 /\ u[i - 3] = 0)

(* The search stops at the first start code, and not before. *)
LEMMA FindCode ==
  ASSUME NEW u, Codeless(u), NEW t \in Seq(Nat)
  PROVE  Find0001(u \o (StartCode \o t)) = Len(u) + 4
<1> DEFINE k == Len(u)
           p == u \o (StartCode \o t)
           i == Find0001(p)
<1>1. u \in Seq(Nat)
  BY DEF Codeless
<1>2. /\ k \in Nat /\ p \in Seq(Nat) /\ k + 4 <= Len(p)
      /\ \A j \in 1 .. k : p[j] = u[j]
      /\ p[k + 1] = 0 /\ p[k + 2] = 0 /\ p[k + 3] = 0 /\ p[k + 4] = 1
  <2>1. /\ k \in Nat /\ p \in Seq(Nat) /\ Len(p) = k + 4 + Len(t) /\ Len(t) \in Nat
        /\ \A j \in 1 .. k : p[j] = u[j]
        /\ p[k + 1] = 0 /\ p[k + 2] = 0 /\ p[k + 3] = 0 /\ p[k + 4] = 1
    BY <1>1, CodeBehind, Zenon
  <2> HIDE DEF k, p
  <2> QED BY <2>1
<1>3. k = 0 \/ u[k] # 0
  BY DEF Codeless
<1>4. \A j \in 4 .. k : ~(u[j] = 1 /\ u[j - 1] = 0 /\ u[j - 2] = 0 /\ u[j - 3] = 0)
  BY DEF Codeless
<1> HIDE DEF k, p
<1>5. k + 4 \in Ends(p)
  <2>1. k = 0 \/ p[k] # 0
    BY <1>2, <1>3
  <2> QED BY <1>2, <2>1, ExactlyThree
<1>6. i \in Ends(p) /\ i <= k + 4
  BY <1>2, <1>5, FindLeast
<1>7. i \in 4 .. Len(p) /\ p[i] = 1 /\ p[i - 1] = 0 /\ p[i - 2] = 0 /\ p[i - 3] = 0
  BY <1>2, <1>6, ThreeZeros
<1> HIDE DEF i
<1>8. i \in Nat /\ 4 <= i /\ i <= k + 4
  BY <1>2, <1>6, <1>7
<1>9. ~(i <= k)
  <2> SUFFICES ASSUME i <= k PROVE FALSE
    OBVIOUS
  <2>1. i \in 4 .. k /\ i \in 1 .. k /\ i - 1 \in 1 .. k /\ i - 2 \in 1 .. k /\ i - 3 \in 1 .. k
    BY <1>2, <1>8
  <2> QED BY <1>2, <1>4, <1>7, <2>1
<1>10. i # k + 1 /\ i # k + 2 /\ i # k + 3
  <2>1. p[k + 1] # 1 /\ p[k + 2] # 1 /\ p[k + 3] # 1 /\ p[i] = 1
    BY ONLY <1>2, <1>7
  <2> QED BY ONLY <2>1, Zenon
<1>11. i = k + 4
  <2>1. k \in Nat
    BY <1>2
  <2> QED BY ONLY <2>1, <1>8, <1>9, <1>10
<1> QED BY <1>11 DEF i, p, k

LEMMA UnitCodeless ==
  ASSUME NEW u, IsUnit(u)
  PROVE  Codeless(u)
<1>1. u \in Seq(Nat) /\ (Len(u) = 0 \/ u[Len(u)] # 0)
  BY EmptySeq DEF IsUnit, Stretch
<1>2. \A i \in 4 .. Len(u) : ~(u[i] = 1 /\ u[i - 1] = 0 /\ u[i - 2] = 0 /\ u[i - 3] = 0)
  BY NoCodeInside
<1> QED BY <1>1, <1>2 DEF Codeless

(* So it does behind a unit. *)
THEOREM FindBehind ==
  ASSUME NEW u, IsUnit(u), NEW t \in Seq(Nat)
  PROVE  Find0001(u \o (StartCode \o t)) = Len(u) + 4
BY UnitCodeless, FindCode

(* In the last unit it finds nothing. *)
THEOREM FindNone ==
  ASSUME NEW u, IsUnit(u)
  PROVE  Find0001(u) = NotFound
<1>1. u \in Seq(Nat)
  BY DEF IsUnit
<1>2. ASSUME NEW i \in Ends(u) PROVE FALSE
  BY <1>1, <1>2, ThreeZeros, NoCodeInside
<1> QED BY <1>1, <1>2, FindLeast
-----------------------------------------------------------------------------
(* Parts of a string, by position.                                           *)

LEMMA Part ==
  ASSUME NEW x \in Seq(Nat), NEW v \in Seq(Nat), NEW k \in Nat,
         k + Len(v) <= Len(x), \A i \in 1 .. Len(v) : x[k + i] = v[i]
  PROVE  SubSeq(x, k + 1, k + Len(v)) = v
<1> DEFINE m == Len(v)
           y == SubSeq(x, k + 1, k + m)
<1>1. m \in Nat /\ Len(x) \in Nat /\ \A i \in 1 .. Len(x) : x[i] \in Nat
  BY LenProperties, ElementOfSeq
<1>2. \A i \in k + 1 .. k + m : x[i] \in Nat
  <2> HIDE DEF m, y
  <2>1. k + m <= Len(x)
    BY DEF m
  <2>2. ASSUME NEW i \in k + 1 .. k + m PROVE x[i] \in Nat
    <3>1. i \in 1 .. Len(x)
      BY <1>1, <2>1
    <3> QED BY ONLY <1>1, <3>1
  <2> QED BY <2>2
<1>3. /\ y \in Seq(Nat) /\ Len(y) = IF k + 1 <= k + m THEN (k + m) - (k + 1) + 1 ELSE 0
      /\ \A i \in 1 .. (k + m) - (k + 1) + 1 : y[i] = x[(k + 1) + i - 1]
  <2> HIDE DEF m
  <2>1. k + 1 \in Int /\ k + m \in Int
    BY <1>1
  <2> QED BY ONLY <1>2, <2>1, SubSeqProperties, SMTT(30) DEF y
<1>4. \A i \in 1 .. m : x[k + i] = v[i]
  OBVIOUS
<1> HIDE DEF m, y
<1>5. Len(y) = m /\ \A i \in 1 .. m : y[i] = v[i]
  <2>1. (k + m) - (k + 1) + 1 = m /\ \A i \in 1 .. m : (k + 1) + i - 1 = k + i
    BY <1>1
  <2>2. Len(y) = m
    BY <1>1, <1>3
  <2>3. ASSUME NEW i \in 1 .. m PROVE y[i] = v[i]
    BY <1>3, <1>4, <2>1
  <2> QED BY <2>2, <2>3
<1>6. y = v
  BY ONLY <1>3, <1>5, v \in Seq(Nat), m = Len(v), SeqEqual DEF m
<1> QED BY <1>6 DEF y, m

LEMMA PartMiddle ==
  ASSUME NEW u \in Seq(Nat), NEW v \in Seq(Nat), NEW w \in Seq(Nat)
  PROVE  SubSeq(u \o (v \o w), Len(u) + 1, Len(u) + Len(v)) = v
<1> DEFINE r == v \o w
           k == Len(u)
           m == Len(v)
           x == u \o r
<1>1. /\ r \in Seq(Nat) /\ m \in Nat /\ Len(w) \in Nat /\ Len(r) = m + Len(w)
      /\ \A i \in 1 .. m : r[i] = v[i]
  BY Elements, Zenon
<1> HIDE DEF r
<1>2. r \in Seq(Nat)
  BY <1>1
<1>3. /\ x \in Seq(Nat) /\ k \in Nat /\ Len(x) = k + Len(r)
      /\ \A i \in 1 .. Len(r) : x[k + i] = r[i]
  <2>1. /\ u \o r \in Seq(Nat) /\ Len(u) \in Nat /\ Len(u \o r) = Len(u) + Len(r)
        /\ \A i \in 1 .. Len(r) : (u \o r)[Len(u) + i] = r[i]
    BY ONLY <1>2, u \in Seq(Nat), Elements
  <2> QED BY <2>1
<1> HIDE DEF x, k, m
<1>4. k + m <= Len(x) /\ \A i \in 1 .. m : x[k + i] = v[i]
  <2> DEFINE n == Len(r)
             l == Len(w)
  <2>1. /\ k \in Nat /\ m \in Nat /\ l \in Nat /\ n = m + l /\ Len(x) = k + n
        /\ \A i \in 1 .. n : x[k + i] = r[i]
    BY <1>1, <1>3
  <2> HIDE DEF n, l
  <2>2. ASSUME NEW i \in 1 .. m PROVE x[k + i] = r[i]
    <3>1. i \in 1 .. n
      BY <1>1, <2>1
    <3> QED BY ONLY <2>1, <3>1
  <2>3. \A i \in 1 .. m : r[i] = v[i]
    BY <1>1
  <2>4. \A i \in 1 .. m : x[k + i] = v[i]
    BY ONLY <2>2, <2>3, Zenon
  <2>5. k + m <= Len(x)
    BY ONLY <2>1 DEF n
  <2> QED BY ONLY <2>4, <2>5
<1>5. SubSeq(x, k + 1, k + m) = v
  BY <1>3, <1>4, Part DEF m
<1> QED BY <1>5 DEF x, k, m, r

Assoc(a, b, c) == (a \o b) \o c = a \o (b \o c)

LEMMA Associative ==
  ASSUME NEW a \in Seq(Nat), NEW b \in Seq(Nat), NEW c \in Seq(Nat)
  PROVE  Assoc(a, b, c)
<1>1. (a \o b) \o c = a \o (b \o c)
  BY ONLY a \in Seq(Nat), b \in Seq(Nat), c \in Seq(Nat), ConcatAssociative, SMTT(30)
<1> QED BY ONLY <1>1, Zenon DEF Assoc

LEMMA DropFront ==
  ASSUME NEW u \in Seq(Nat), NEW v \in Seq(Nat)
  PROVE  Drop(u \o v, Len(u)) = v
<1>1. Len(u \o v) = Len(u) + Len(v)
  BY Elements, Zenon
<1>2. <<>> \in Seq(Nat) /\ v \o <<>> = v
  BY EmptySeq, ConcatEmptySeq, Zenon
<1>3. SubSeq(u \o (v \o <<>>), Len(u) + 1, Len(u) + Len(v)) = v
  BY <1>2, PartMiddle, Zenon
<1> QED BY <1>1, <1>2, <1>3, Zenon DEF Drop
-----------------------------------------------------------------------------
(* prepareAVCCData.                                                          *)

(* Where it finds the two parameter sets, and whether it finds a third one.   *)
Extra(s, p, rest) == StartCode \o (s \o (StartCode \o (p \o rest)))

Placed(x, s, p, rest) ==
  /\ PosSps(x) = 4 /\ PosPps(x) = Len(s) + 8
  /\ Drop(x, PosPps(x)) = p \o rest
  /\ SubSeq(x, 5, Len(s) + 4) = s
  /\ SubSeq(x, Len(s) + 9, Len(s) + 8 + Len(p)) = p
  /\ Len(x) = Len(s) + 8 + Len(p) + Len(rest)
  /\ Len(s) >= 4 => SubSeq(x, 6, 8) = SubSeq(s, 2, 4)

LEMMA Positions ==
  ASSUME NEW s, IsUnit(s), NEW p, IsUnit(p), NEW rest \in Seq(Nat)
  PROVE  Placed(Extra(s, p, rest), s, p, rest)
<1> SUFFICES ASSUME NEW x, x = StartCode \o (s \o (StartCode \o (p \o rest)))
             PROVE  Placed(x, s, p, rest)
  BY Zenon DEF Extra
<1> DEFINE t2 == p \o rest
           t1 == StartCode \o t2
           t0 == s \o t1
           u == StartCode \o (s \o StartCode)
<1>1. s \in Seq(Nat) /\ p \in Seq(Nat) /\ StartCode \in Seq(Nat) /\ <<>> \in Seq(Nat)
  BY StartCodeType, EmptySeq DEF IsUnit
<1>2. /\ Len(s) \in Nat /\ Len(p) \in Nat /\ Len(rest) \in Nat
      /\ t2 \in Seq(Nat) /\ Len(t2) = Len(p) + Len(rest)
  BY ONLY <1>1, rest \in Seq(Nat), Elements
<1> HIDE DEF t2
<1>3. t2 \in Seq(Nat)
  BY <1>2
<1>4. t1 \in Seq(Nat)
  BY ONLY <1>1, <1>3, Elements
<1> HIDE DEF t1
<1>5. t0 \in Seq(Nat) /\ Len(t0) = Len(s) + Len(t1) /\ Len(t1) \in Nat
  BY ONLY <1>1, <1>4, Elements
<1>6. x = StartCode \o t0
  BY DEF t1, t2
<1> HIDE DEF t0
<1>7. PosSps(x) = 4
  <2>1. IsUnit(<<>>) /\ t0 \in Seq(Nat)
    BY <1>1, <1>5 DEF IsUnit
  <2>2. Find0001(<<>> \o (StartCode \o t0)) = Len(<<>>) + 4
    BY ONLY <2>1, FindBehind, Zenon
  <2>3. StartCode \o t0 \in Seq(Nat)
    BY ONLY <1>1, <2>1, Elements
  <2>4. <<>> \o (StartCode \o t0) = StartCode \o t0
    BY ONLY <2>3, ConcatEmptySeq
  <2>5. Find0001(x) = Len(<<>>) + 4
    BY ONLY <1>6, <2>2, <2>4
  <2> QED BY <2>5, EmptySeq DEF PosSps
<1>8. Drop(x, 4) = t0
  <2>1. Drop(StartCode \o t0, Len(StartCode)) = t0
    BY ONLY <1>1, <1>5, DropFront
  <2> QED BY <1>6, <2>1, StartCodeBytes
<1>9. PosPps(x) = Len(s) + 8
  <2>1. Find0001(t0) = Len(s) + 4
    BY <1>3, FindBehind, Zenon DEF t0, t1
  <2> QED BY <1>2, <1>7, <1>8, <2>1 DEF PosPps
<1>10. x = u \o t2 /\ u \in Seq(Nat) /\ Len(u) = Len(s) + 8
  <2>1. /\ s \o StartCode \in Seq(Nat) /\ Len(s \o StartCode) = Len(s) + Len(StartCode)
    BY ONLY <1>1, Elements
  <2>2. u \in Seq(Nat) /\ Len(u) = Len(StartCode) + Len(s \o StartCode)
    BY ONLY <1>1, <2>1, Elements
  <2>a. s \in Seq(Nat) /\ StartCode \in Seq(Nat) /\ t2 \in Seq(Nat)
    BY <1>1, <1>3
  <2> DEFINE v == s \o StartCode
  <2>b. v \in Seq(Nat) /\ u = StartCode \o v
    BY <2>1
  <2>3. v \o t2 = s \o (StartCode \o t2)
    <3>1. Assoc(s, StartCode, t2)
      BY ONLY <2>a, Associative, Zenon
    <3> QED BY ONLY <3>1, Zenon DEF Assoc
  <2> HIDE DEF u, v
  <2>4. u \o t2 = StartCode \o (v \o t2)
    <3>1. Assoc(StartCode, v, t2)
      BY ONLY <2>a, <2>b, Associative, Zenon
    <3> QED BY ONLY <2>b, <3>1, Zenon DEF Assoc
  <2>5. Len(u) = Len(s) + 8
    BY <1>2, <2>1, <2>2, StartCodeBytes
  <2> QED BY <1>6, <2>2, <2>3, <2>4, <2>5 DEF t0, t1
<1> HIDE DEF u
<1>11. Drop(x, PosPps(x)) = t2
  <2>1. Drop(u \o t2, Len(u)) = t2
    BY ONLY <1>3, <1>10, DropFront
  <2> QED BY <1>9, <1>10, <2>1
<1>12. SubSeq(x, 5, Len(s) + 4) = s
  <2>1. SubSeq(StartCode \o (s \o t1), Len(StartCode) + 1, Len(StartCode) + Len(s)) = s
    BY ONLY <1>1, <1>4, PartMiddle
  <2>2. x = StartCode \o (s \o t1)
    BY <1>6 DEF t0
  <2>3. SubSeq(x, Len(StartCode) + 1, Len(StartCode) + Len(s)) = s
    BY ONLY <2>1, <2>2
  <2>4. Len(StartCode) + 1 = 5 /\ Len(StartCode) + Len(s) = Len(s) + 4
    BY <1>2, StartCodeBytes
  <2> QED BY ONLY <2>3, <2>4
<1>13. SubSeq(x, Len(s) + 9, Len(s) + 8 + Len(p)) = p
  <2>1. SubSeq(u \o (p \o rest), Len(u) + 1, Len(u) + Len(p)) = p
    BY ONLY <1>1, <1>10, rest \in Seq(Nat), PartMiddle
  <2>2. x = u \o (p \o rest)
    BY <1>10 DEF t2
  <2>3. SubSeq(x, Len(u) + 1, Len(u) + Len(p)) = p
    BY ONLY <2>1, <2>2
  <2>4. Len(u) + 1 = Len(s) + 9 /\ Len(u) + Len(p) = Len(s) + 8 + Len(p)
    BY <1>2, <1>10
  <2> QED BY ONLY <2>3, <2>4
<1>14. Len(x) = Len(s) + 8 + Len(p) + Len(rest)
  <2>1. Len(u \o t2) = Len(u) + Len(t2)
    BY ONLY <1>3, <1>10, Elements
  <2> QED BY <1>2, <1>10, <2>1
<1>15. ASSUME Len(s) >= 4 PROVE SubSeq(x, 6, 8) = SubSeq(s, 2, 4)
  <2> DEFINE v == SubSeq(s, 2, 4)
  <2>0. StartCode \in Seq(Nat) /\ t0 \in Seq(Nat)
    BY <1>1, <1>5
  <2>1. /\ Len(StartCode \o t0) = Len(StartCode) + Len(t0)
        /\ \A i \in 1 .. Len(t0) : (StartCode \o t0)[Len(StartCode) + i] = t0[i]
    BY ONLY <2>0, Elements
  <2>2. Len(StartCode) = 4
    BY StartCodeBytes
  <2>3. Len(x) = 4 + Len(t0) /\ \A i \in 1 .. Len(t0) : x[4 + i] = t0[i]
    BY ONLY <1>6, <2>1, <2>2, Zenon
  <2>4. \A i \in 1 .. Len(s) : (s \o t1)[i] = s[i]
    BY ONLY <1>1, <1>4, Elements
  <2>5. \A i \in 1 .. Len(s) : t0[i] = s[i]
    BY ONLY <2>4, Zenon DEF t0
  <2>6. /\ v \in Seq(Nat) /\ Len(v) = IF 2 <= 4 THEN 4 - 2 + 1 ELSE 0
        /\ \A i \in 1 .. 4 - 2 + 1 : v[i] = s[2 + i - 1]
    <3>1. \A i \in 1 .. Len(s) : s[i] \in Nat
      BY <1>1, ElementOfSeq
    <3>2. \A i \in 2 .. 4 : s[i] \in Nat
      BY ONLY <1>2, <1>15, <3>1
    <3> QED BY ONLY <3>2, SubSeqProperties, SMTT(30)
  <2> HIDE DEF v
  <2>7. v \in Seq(Nat) /\ Len(v) = 3 /\ \A i \in 1 .. 3 : v[i] = s[i + 1]
    BY ONLY <2>6
  <2>8. ASSUME NEW i \in 1 .. 3 PROVE x[5 + i] = v[i]
    <3>1. i + 1 \in 1 .. Len(s) /\ i + 1 \in 1 .. Len(t0) /\ 4 + (i + 1) = 5 + i
      BY ONLY <1>2, <1>5, <1>15, i \in 1 .. 3
    <3>2. x[4 + (i + 1)] = t0[i + 1]
      BY ONLY <2>3, <3>1, Zenon
    <3>3. t0[i + 1] = s[i + 1] /\ v[i] = s[i + 1]
      BY ONLY <2>5, <2>7, <3>1, i \in 1 .. 3, Zenon
    <3> QED BY ONLY <3>1, <3>2, <3>3, Zenon
  <2>9. x \in Seq(Nat) /\ 5 + Len(v) <= Len(x)
    <3>1. StartCode \o t0 \in Seq(Nat)
      BY ONLY <2>0, Elements
    <3>2. x \in Seq(Nat)
      BY ONLY <1>6, <3>1, Zenon
    <3>3. 5 + Len(v) <= Len(x)
      BY ONLY <1>2, <1>5, <1>15, <2>3, <2>7
    <3> QED BY <3>2, <3>3
  <2>10. SubSeq(x, 5 + 1, 5 + Len(v)) = v
    BY ONLY <2>7, <2>8, <2>9, 5 \in Nat, Part
  <2>11. 5 + 1 = 6 /\ 5 + Len(v) = 8
    BY ONLY <2>7
  <2> QED BY ONLY <2>10, <2>11, Zenon DEF v
<1> QED BY <1>7, <1>9, <1>11, <1>12, <1>13, <1>14, <1>15 DEF t2, Placed
LEMMA SizeField ==
  ASSUME NEW n \in 0 .. 255
  PROVE  UInt16BE(n) \in Seq(Nat) /\ Len(UInt16BE(n)) = 2
           /\ UInt16BE(n)[1] = 0 /\ UInt16BE(n)[2] = n
<1>1. n \div 256 = 0 /\ n % 256 = n /\ n \in Nat
  OBVIOUS
<1>2. UInt16BE(n) = <<0, n>>
  BY <1>1 DEF UInt16BE
<1> QED BY <1>1, <1>2

(* What can be read off b, the four strings one behind the other. *)
Consists(b, A, s, M, p) ==
  /\ Len(A) \in Nat /\ Len(s) \in Nat /\ Len(M) \in Nat /\ Len(p) \in Nat
  /\ b \in Seq(Nat) /\ Len(b) = Len(A) + Len(s) + Len(M) + Len(p)
  /\ \A i \in 1 .. Len(A) : b[i] = A[i]
  /\ \A i \in 1 .. Len(M) : b[Len(A) + Len(s) + i] = M[i]
  /\ SubSeq(b, Len(A) + 1, Len(A) + Len(s)) = s
  /\ SubSeq(b, Len(A) + Len(s) + Len(M) + 1, Len(A) + Len(s) + Len(M) + Len(p)) = p
  /\ Drop(b, Len(A) + Len(s) + Len(M) + Len(p)) = <<>>

LEMMA RecordParts ==
  ASSUME NEW A \in Seq(Nat), NEW s \in Seq(Nat), NEW M \in Seq(Nat), NEW p \in Seq(Nat)
  PROVE  Consists(A \o (s \o (M \o p)), A, s, M, p)
<1> DEFINE a == Len(A)
           m == Len(s)
           k == Len(M)
           n == Len(p)
           b == A \o (s \o (M \o p))
           c == A \o s
           d == M \o p
           e == s \o d
           f == c \o M
<1>1. a \in Nat /\ m \in Nat /\ k \in Nat /\ n \in Nat
  BY LenProperties
<1>2. d \in Seq(Nat) /\ Len(d) = Len(M) + Len(p) /\ \A i \in 1 .. Len(M) : d[i] = M[i]
  BY ONLY M \in Seq(Nat), p \in Seq(Nat), Elements
<1>3. c \in Seq(Nat) /\ Len(c) = Len(A) + Len(s) /\ \A i \in 1 .. Len(A) : c[i] = A[i]
  BY ONLY A \in Seq(Nat), s \in Seq(Nat), Elements
<1>4. b = A \o (s \o d)
  OBVIOUS
<1> HIDE DEF b, d
<1>5. d \in Seq(Nat)
  BY <1>2
<1>6. b = c \o d
  <2>1. Assoc(A, s, d)
    BY ONLY <1>5, A \in Seq(Nat), s \in Seq(Nat), Associative, Zenon
  <2> QED BY ONLY <1>4, <2>1, Zenon DEF Assoc
<1> HIDE DEF c
<1>7. c \in Seq(Nat)
  BY <1>3
<1>8. /\ b \in Seq(Nat) /\ Len(b) = Len(c) + Len(d)
      /\ \A i \in 1 .. Len(c) : b[i] = c[i]
      /\ \A i \in 1 .. Len(d) : b[Len(c) + i] = d[i]
  BY ONLY <1>5, <1>6, <1>7, Elements
<1> DEFINE lc == Len(c)
           ld == Len(d)
<1>9. lc = a + m /\ ld = k + n
  BY <1>2, <1>3
<1>10. /\ Len(b) = lc + ld
       /\ \A i \in 1 .. lc : b[i] = c[i]
       /\ \A i \in 1 .. ld : b[lc + i] = d[i]
       /\ \A i \in 1 .. a : c[i] = A[i]
       /\ \A i \in 1 .. k : d[i] = M[i]
  BY <1>2, <1>3, <1>8
<1> HIDE DEF lc, ld
<1>11. Len(b) = a + m + k + n
  BY <1>1, <1>9, <1>10
<1>12. \A i \in 1 .. a : b[i] = A[i]
  <2> SUFFICES ASSUME NEW i \in 1 .. a PROVE b[i] = A[i]
    OBVIOUS
  <2>1. i \in 1 .. lc
    BY <1>1, <1>9
  <2> QED BY <1>10, <2>1
<1>13. \A i \in 1 .. k : b[a + m + i] = M[i]
  <2> SUFFICES ASSUME NEW i \in 1 .. k PROVE b[a + m + i] = M[i]
    OBVIOUS
  <2>1. i \in 1 .. ld
    BY <1>1, <1>9
  <2> QED BY <1>9, <1>10, <2>1
<1>14. SubSeq(b, a + 1, a + m) = s
  <2>1. SubSeq(A \o (s \o d), Len(A) + 1, Len(A) + Len(s)) = s
    BY ONLY <1>5, A \in Seq(Nat), s \in Seq(Nat), PartMiddle
  <2> QED BY <1>4, <2>1
<1>15. <<>> \in Seq(Nat) /\ p \o <<>> = p
  BY EmptySeq, ConcatEmptySeq, Zenon
<1>16. f \in Seq(Nat) /\ Len(f) = Len(c) + Len(M)
  BY ONLY <1>7, M \in Seq(Nat), Elements
<1>17. b = f \o p
  <2>1. Assoc(c, M, p)
    BY ONLY <1>7, M \in Seq(Nat), p \in Seq(Nat), Associative, Zenon
  <2> QED BY ONLY <1>6, <2>1, Zenon DEF Assoc, d, f
<1> HIDE DEF f
<1>18. Len(f) = a + m + k
  BY <1>9, <1>16 DEF lc
<1>19. SubSeq(b, a + m + k + 1, a + m + k + n) = p
  <2>1. SubSeq(f \o (p \o <<>>), Len(f) + 1, Len(f) + Len(p)) = p
    BY ONLY <1>15, <1>16, p \in Seq(Nat), PartMiddle
  <2> QED BY <1>15, <1>17, <1>18, <2>1
<1>20. Drop(b, a + m + k + n) = <<>>
  <2>1. a + m + k + n \in Int /\ a + m + k + n < a + m + k + n + 1
    BY <1>1
  <2> QED BY <1>11, <2>1, SubSeqEmpty DEF Drop
<1> QED BY <1>1, <1>8, <1>11, <1>12, <1>13, <1>14, <1>19, <1>20, Zenon DEF b, Consists
Record(g, s, p) == (((g \o UInt16BE(Len(s))) \o s) \o <<1>>) \o UInt16BE(Len(p)) \o p

Reads(b, g, s, p) ==
  /\ DeviceView(b) = [header |-> g, sps |-> s, count |-> 1, pps |-> p, rest |-> <<>>]
  /\ Len(b) = 11 + Len(s) + Len(p)

LEMMA DeviceReads ==
  ASSUME NEW g \in Seq(Nat), NEW s \in Seq(Nat), NEW p \in Seq(Nat),
         Len(g) = 6, Len(s) \in 0 .. 255, Len(p) \in 0 .. 255
  PROVE  Reads(Record(g, s, p), g, s, p)
<1> SUFFICES ASSUME NEW b, b = Record(g, s, p) PROVE Reads(b, g, s, p)
  OBVIOUS
<1> DEFINE l == Len(g)
           m == Len(s)
           n == Len(p)
           F == UInt16BE(m)
           E == UInt16BE(n)
           I == <<1>>
           A == g \o F
           M == I \o E
<1> SUFFICES /\ DeviceView(b) = [header |-> g, sps |-> s, count |-> 1, pps |-> p, rest |-> <<>>]
             /\ Len(b) = 11 + m + n
  BY Zenon DEF Reads
<1>0. l = 6 /\ m \in 0 .. 255 /\ n \in 0 .. 255
  OBVIOUS
<1>1. b = (((A \o s) \o I) \o E) \o p /\ m = Len(s) /\ n = Len(p) /\ l = Len(g)
  BY Zenon DEF Record
<1> HIDE DEF l, m, n
<1>2. l = 6 /\ Len(g) = 6 /\ m \in 0 .. 255 /\ n \in 0 .. 255
  BY <1>0 DEF l
<1>3. F \in Seq(Nat) /\ Len(F) = 2 /\ F[1] = 0 /\ F[2] = m
  BY ONLY <1>2, SizeField
<1>4. E \in Seq(Nat) /\ Len(E) = 2 /\ E[1] = 0 /\ E[2] = n
  BY ONLY <1>2, SizeField
<1>5. I \in Seq(Nat) /\ Len(I) = 1 /\ I[1] = 1
  BY ONLY TRUE
<1> HIDE DEF F, E, I
<1>6. F \in Seq(Nat) /\ E \in Seq(Nat) /\ I \in Seq(Nat)
        /\ g \in Seq(Nat) /\ s \in Seq(Nat) /\ p \in Seq(Nat)
  BY <1>3, <1>4, <1>5
<1>7. /\ A \in Seq(Nat) /\ Len(A) = Len(g) + Len(F)
      /\ \A i \in 1 .. Len(g) : A[i] = g[i]
      /\ \A i \in 1 .. Len(F) : A[Len(g) + i] = F[i]
  BY ONLY <1>6, Elements
<1>8. /\ M \in Seq(Nat) /\ Len(M) = Len(I) + Len(E)
      /\ \A i \in 1 .. Len(I) : M[i] = I[i]
      /\ \A i \in 1 .. Len(E) : M[Len(I) + i] = E[i]
  BY ONLY <1>6, Elements
<1>9. b = A \o (s \o (M \o p))
  <2> HIDE DEF A
  <2>1. A \in Seq(Nat)
    BY <1>7
  <2>2. A \o s \in Seq(Nat)
    BY ONLY <1>6, <2>1, Elements
  <2>3. ((A \o s) \o I) \o E = (A \o s) \o M
    <3> DEFINE c == A \o s
    <3>1. c \in Seq(Nat)
      BY <2>2
    <3> HIDE DEF c
    <3>2. Assoc(c, I, E)
      BY ONLY <1>6, <3>1, Associative, Zenon
    <3> QED BY ONLY <3>2, Zenon DEF Assoc, c, M
  <2>4. M \in Seq(Nat)
    BY <1>8
  <2> HIDE DEF M
  <2>5. M \o p \in Seq(Nat)
    BY ONLY <1>6, <2>4, Elements
  <2> DEFINE c == A \o s
  <2>6. (c \o M) \o p = c \o (M \o p)
    <3>1. c \in Seq(Nat)
      BY <2>2
    <3> HIDE DEF c
    <3>2. Assoc(c, M, p)
      BY ONLY <1>6, <2>4, <3>1, Associative, Zenon
    <3> QED BY ONLY <3>2, Zenon DEF Assoc
  <2>7. (A \o s) \o (M \o p) = A \o (s \o (M \o p))
    <3> DEFINE d == M \o p
    <3>1. d \in Seq(Nat)
      BY <2>5
    <3> HIDE DEF d
    <3>2. Assoc(A, s, d)
      BY ONLY <1>6, <2>1, <3>1, Associative, Zenon
    <3> QED BY ONLY <3>2, Zenon DEF Assoc, d
  <2> QED BY ONLY <1>1, <2>3, <2>6, <2>7
<1> HIDE DEF A, M
<1>10. A \in Seq(Nat) /\ Len(A) = 8 /\ A[7] = 0 /\ A[8] = m /\ \A i \in 1 .. 6 : A[i] = g[i]
  <2>1. 1 \in 1 .. Len(F) /\ 2 \in 1 .. Len(F)
    BY ONLY <1>3
  <2>2. A[Len(g) + 1] = 0 /\ A[Len(g) + 2] = m
    BY ONLY <1>3, <1>7, <2>1
  <2>3. Len(g) = 6 /\ Len(F) = 2
    BY ONLY <1>1, <1>2, <1>3
  <2>4. /\ A[6 + 1] = 0 /\ A[6 + 2] = m /\ Len(A) = 6 + 2 /\ A \in Seq(Nat)
        /\ \A i \in 1 .. 6 : A[i] = g[i]
    BY ONLY <1>7, <2>2, <2>3, Zenon
  <2> QED BY ONLY <2>4
<1>11. M \in Seq(Nat) /\ Len(M) = 3 /\ M[1] = 1 /\ M[2] = 0 /\ M[3] = n
  <2>1. 1 \in 1 .. Len(E) /\ 2 \in 1 .. Len(E) /\ 1 \in 1 .. Len(I)
    BY ONLY <1>4, <1>5
  <2>2. M[1] = 1 /\ M[Len(I) + 1] = 0 /\ M[Len(I) + 2] = n
    BY ONLY <1>4, <1>5, <1>8, <2>1
  <2> QED BY ONLY <1>4, <1>5, <1>8, <2>2
<1>12. A \in Seq(Nat) /\ M \in Seq(Nat)
  BY <1>10, <1>11
<1>13. /\ Len(A) \in Nat /\ Len(s) \in Nat /\ Len(M) \in Nat /\ Len(p) \in Nat
       /\ b \in Seq(Nat) /\ Len(b) = Len(A) + Len(s) + Len(M) + Len(p)
       /\ \A i \in 1 .. Len(A) : b[i] = A[i]
       /\ \A i \in 1 .. Len(M) : b[Len(A) + Len(s) + i] = M[i]
       /\ SubSeq(b, Len(A) + 1, Len(A) + Len(s)) = s
       /\ SubSeq(b, Len(A) + Len(s) + Len(M) + 1, Len(A) + Len(s) + Len(M) + Len(p)) = p
       /\ Drop(b, Len(A) + Len(s) + Len(M) + Len(p)) = <<>>
  <2>1. A \in Seq(Nat) /\ s \in Seq(Nat) /\ M \in Seq(Nat) /\ p \in Seq(Nat)
    BY <1>6, <1>12
  <2>2. Consists(A \o (s \o (M \o p)), A, s, M, p)
    BY ONLY <2>1, RecordParts, Zenon
  <2>3. Consists(b, A, s, M, p)
    BY ONLY <1>9, <2>2, Zenon
  <2> QED BY ONLY <2>3, Zenon DEF Consists
<1>14. /\ b \in Seq(Nat) /\ Len(b) = 8 + m + 3 + n
       /\ \A i \in 1 .. 8 : b[i] = A[i]
       /\ \A i \in 1 .. 3 : b[8 + m + i] = M[i]
       /\ SubSeq(b, 8 + 1, 8 + m) = s
       /\ SubSeq(b, 8 + m + 3 + 1, 8 + m + 3 + n) = p
       /\ Drop(b, 8 + m + 3 + n) = <<>>
  BY ONLY <1>1, <1>10, <1>11, <1>13, Zenon
<1>15. /\ 8 + 1 = 9 /\ 8 + m = m + 8 /\ 8 + m + 3 + 1 = m + 12
       /\ 8 + m + 3 + n = m + n + 11 /\ m + n + 11 = 11 + m + n
       /\ 8 + m + 1 = m + 9 /\ 8 + m + 2 = m + 10 /\ 8 + m + 3 = m + 11
  BY ONLY <1>2
<1>16. b[7] = A[7] /\ b[8] = A[8] /\ \A i \in 1 .. 6 : b[i] = A[i]
  BY ONLY <1>14
<1>17. b[8 + m + 1] = M[1] /\ b[8 + m + 2] = M[2] /\ b[8 + m + 3] = M[3]
  BY ONLY <1>14
<1>18. b[7] = 0 /\ b[8] = m /\ b[m + 9] = 1 /\ b[m + 10] = 0 /\ b[m + 11] = n
  BY ONLY <1>10, <1>11, <1>15, <1>16, <1>17, Zenon
<1>19. SubSeq(b, 1, 6) = g
  <2>1. Len(b) = m + n + 11 /\ b \in Seq(Nat)
    BY ONLY <1>14, <1>15, Zenon
  <2>2. 0 + Len(g) <= Len(b) /\ 0 + 1 = 1 /\ 0 + Len(g) = 6
    <3>1. Len(g) = 6 /\ Len(b) \in Nat /\ Len(b) >= 11
      BY ONLY <1>2, <2>1
    <3> QED BY ONLY <3>1
  <2>3. \A i \in 1 .. Len(g) : b[0 + i] = g[i]
    <3>1. ASSUME NEW i \in 1 .. 6 PROVE b[0 + i] = g[i]
      <4>1. 0 + i = i
        BY ONLY i \in 1 .. 6
      <4> QED BY ONLY <1>10, <1>16, <4>1, i \in 1 .. 6, Zenon
    <3> QED BY ONLY <1>2, <3>1, Zenon
  <2>4. SubSeq(b, 0 + 1, 0 + Len(g)) = g
    BY ONLY <1>6, <2>1, <2>2, <2>3, 0 \in Nat, Part
  <2> QED BY ONLY <2>2, <2>4
<1>20. /\ SubSeq(b, 9, m + 8) = s /\ SubSeq(b, m + 12, m + n + 11) = p
       /\ Drop(b, m + n + 11) = <<>> /\ Len(b) = 11 + m + n
  BY ONLY <1>14, <1>15, Zenon
<1> DEFINE mm == 256 * b[7] + b[8]
           nn == 256 * b[mm + 10] + b[mm + 11]
<1>21. DeviceView(b) =
         [header |-> SubSeq(b, 1, 6), sps |-> SubSeq(b, 9, mm + 8), count |-> b[mm + 9],
          pps |-> SubSeq(b, mm + 12, mm + nn + 11), rest |-> Drop(b, mm + nn + 11)]
  BY Zenon DEF DeviceView
<1>22. mm = m
  BY ONLY <1>2, <1>18
<1> HIDE DEF mm
<1>23. nn = n
  BY ONLY <1>2, <1>18, <1>22
<1> HIDE DEF nn
<1> QED BY ONLY <1>18, <1>19, <1>20, <1>21, <1>22, <1>23, Zenon
LEMMA RangePart ==
  ASSUME NEW x \in Seq(Nat), NEW i \in Nat, NEW m \in Nat, i + m <= Len(x)
  PROVE  SubSeq(x, i + 1, i + m) \in Seq(Nat) /\ Len(SubSeq(x, i + 1, i + m)) = m
<1>1. i + 1 \in Int /\ i + m \in Int /\ (i + m) - (i + 1) + 1 = m
  OBVIOUS
<1>2. \A j \in i + 1 .. i + m : x[j] \in Nat
  <2>1. \A j \in 1 .. Len(x) : x[j] \in Nat
    BY ElementOfSeq
  <2>2. Len(x) \in Nat
    BY LenProperties
  <2> QED BY <2>1, <2>2
<1> DEFINE y == SubSeq(x, i + 1, i + m)
<1>3. y \in Seq(Nat) /\ Len(y) = IF i + 1 <= i + m THEN (i + m) - (i + 1) + 1 ELSE 0
  BY ONLY <1>1, <1>2, SubSeqProperties
<1> HIDE DEF y
<1>4. Len(y) = m
  BY <1>1, <1>3
<1> QED BY <1>3, <1>4 DEF y

(* The sizes of the record fit their variables, and a size that fits is right. *)
LEMMA CutSize ==
  ASSUME AvccAssumption, NEW n \in Nat
  PROVE  /\ SizeOf(n) \in 0 .. UInt8 - 1 /\ SizeOf(n) <= n
         /\ n < UInt8 => SizeOf(n) = n
<1>1. UInt8 \in Nat \ {0}
  BY DEF AvccAssumption
<1>2. PICK k \in Int : k = n \div UInt8
  BY <1>1
<1>3. n % UInt8 \in 0 .. UInt8 - 1
  BY <1>1
<1>4. n < UInt8 => n % UInt8 = n
  BY <1>1
<1> HIDE DEF SizeOf
<1>5. n % UInt8 <= n
  <2>1. CASE n < UInt8
    BY <1>4, <2>1
  <2>2. CASE n >= UInt8
    BY <1>1, <1>3, <2>2
  <2> QED BY <1>1, <2>1, <2>2
<1> QED BY <1>3, <1>4, <1>5 DEF SizeOf

(* What a device makes of the record, also of one with sizes that were cut. *)
Viewed(x, s, p, rest) ==
  /\ DeviceView(AvccBuff(x)) =
       [header |-> <<1>> \o SubSeq(s, 2, 4) \o <<255, 225>>,
        sps |-> SubSeq(x, 5, 4 + SizeOf(Len(s))), count |-> 1,
        pps |-> SubSeq(x, Len(s) + 9, Len(s) + 8 + SizeOf(Len(p) + Len(rest))),
        rest |-> <<>>]
  /\ Len(AvccBuff(x)) \in 0 .. 11 + 2 * (UInt8 - 1)

LEMMA RecordView ==
  ASSUME AvccAssumption, NEW s, IsUnit(s), NEW p, IsUnit(p), NEW rest \in Seq(Nat),
         Len(s) >= 4
  PROVE  Viewed(Extra(s, p, rest), s, p, rest)
<1> SUFFICES ASSUME NEW x, x = Extra(s, p, rest) PROVE Viewed(x, s, p, rest)
  BY Zenon
<1> DEFINE l == Len(s)
           q == Len(p) + Len(rest)
           m == SizeOf(l)
           n == SizeOf(q)
           h == SubSeq(x, 6, 8)
           g == <<1>> \o h \o <<255, 225>>
           y == SubSeq(x, 5, 4 + m)
           z == SubSeq(x, l + 9, l + 8 + n)
           b == AvccBuff(x)
<1> SUFFICES /\ DeviceView(b) = [header |-> <<1>> \o SubSeq(s, 2, 4) \o <<255, 225>>,
                                  sps |-> y, count |-> 1, pps |-> z, rest |-> <<>>]
             /\ Len(b) \in 0 .. 11 + 2 * (UInt8 - 1)
  BY Zenon DEF Viewed
<1>1. l \in Nat /\ l >= 4 /\ Len(p) \in Nat /\ Len(rest) \in Nat /\ q \in Nat
  BY LenProperties DEF IsUnit
<1>2. /\ PosSps(x) = 4 /\ PosPps(x) = l + 8 /\ Len(x) = l + 8 + Len(p) + Len(rest)
      /\ l >= 4 => SubSeq(x, 6, 8) = SubSeq(s, 2, 4)
  <2>1. Placed(x, s, p, rest)
    BY Positions, Zenon
  <2> QED BY ONLY <2>1, Zenon DEF Placed
<1>3. x \in Seq(Nat)
  <2>1. s \in Seq(Nat) /\ p \in Seq(Nat) /\ rest \in Seq(Nat) /\ StartCode \in Seq(Nat)
    BY StartCodeType DEF IsUnit
  <2> DEFINE t2 == p \o rest
             t1 == StartCode \o t2
             t0 == s \o t1
  <2>2. t2 \in Seq(Nat)
    BY ONLY <2>1, Elements
  <2> HIDE DEF t2
  <2>3. t1 \in Seq(Nat)
    BY ONLY <2>1, <2>2, Elements
  <2> HIDE DEF t1
  <2>4. t0 \in Seq(Nat)
    BY ONLY <2>1, <2>3, Elements
  <2> HIDE DEF t0
  <2>5. StartCode \o t0 \in Seq(Nat)
    BY ONLY <2>1, <2>4, Elements
  <2> QED BY <2>5, Zenon DEF t0, t1, t2, Extra
<1> HIDE DEF l, q
<1>4. Len(x) = l + 8 + q
  BY ONLY <1>1, <1>2 DEF q
<1>5. SpsSize(x) = m /\ PpsSize(x) = n
  <2>1. (l + 8) - 4 - 4 = l /\ (l + 8 + q) - (l + 8) = q
    BY <1>1
  <2> QED BY ONLY <1>2, <1>4, <2>1, Zenon DEF SpsSize, PpsSize
<1>6. /\ m \in 0 .. UInt8 - 1 /\ m <= l /\ n \in 0 .. UInt8 - 1 /\ n <= q
      /\ UInt8 \in 1 .. 256
  BY <1>1, CutSize DEF AvccAssumption
<1> HIDE DEF m, n
<1>7. h \in Seq(Nat) /\ Len(h) = 3
  <2>1. 5 + 3 <= Len(x) /\ 5 + 1 = 6 /\ 5 + 3 = 8 /\ 5 \in Nat /\ 3 \in Nat
    BY ONLY <1>1, <1>4
  <2>2. SubSeq(x, 5 + 1, 5 + 3) \in Seq(Nat) /\ Len(SubSeq(x, 5 + 1, 5 + 3)) = 3
    BY ONLY <1>3, <2>1, RangePart
  <2> QED BY ONLY <2>1, <2>2
<1>8. y \in Seq(Nat) /\ Len(y) = m
  <2>1. 4 + m <= Len(x) /\ 4 + 1 = 5 /\ 4 \in Nat /\ m \in Nat
    BY ONLY <1>1, <1>4, <1>6
  <2>2. SubSeq(x, 4 + 1, 4 + m) \in Seq(Nat) /\ Len(SubSeq(x, 4 + 1, 4 + m)) = m
    BY ONLY <1>3, <2>1, RangePart
  <2> QED BY ONLY <2>1, <2>2
<1>9. z \in Seq(Nat) /\ Len(z) = n
  <2>1. (l + 8) + n <= Len(x) /\ (l + 8) + 1 = l + 9 /\ l + 8 \in Nat /\ n \in Nat
    BY ONLY <1>1, <1>4, <1>6
  <2>2. SubSeq(x, (l + 8) + 1, (l + 8) + n) \in Seq(Nat)
          /\ Len(SubSeq(x, (l + 8) + 1, (l + 8) + n)) = n
    BY ONLY <1>3, <2>1, RangePart
  <2> QED BY ONLY <2>1, <2>2
<1>10. b = (((g \o UInt16BE(m)) \o y) \o <<1>>) \o UInt16BE(n) \o z
  <2>1. 4 + 2 = 6 /\ 4 + 4 = 8 /\ 4 + 1 = 5 /\ (l + 8) + 1 = l + 9
    BY <1>1
  <2>2. SubSeq(x, PosSps(x) + 2, PosSps(x) + 4) = h
    BY ONLY <1>2, <2>1, Zenon
  <2>3. SubSeq(x, PosSps(x) + 1, PosSps(x) + SpsSize(x)) = y
    BY ONLY <1>2, <1>5, <2>1, Zenon
  <2>4. SubSeq(x, PosPps(x) + 1, PosPps(x) + PpsSize(x)) = z
    BY ONLY <1>2, <1>5, <2>1, Zenon
  <2> HIDE DEF h, y, z
  <2> QED BY ONLY <1>5, <2>2, <2>3, <2>4, ZenonT(30) DEF AvccBuff
<1> HIDE DEF b, h, y, z
<1>11. g \in Seq(Nat) /\ Len(g) = 6
  <2> DEFINE v == <<1>>
             w == <<255, 225>>
             vh == v \o h
  <2>1. v \in Seq(Nat) /\ Len(v) = 1 /\ w \in Seq(Nat) /\ Len(w) = 2
    BY ONLY TRUE
  <2> HIDE DEF v, w
  <2>2. v \in Seq(Nat) /\ w \in Seq(Nat) /\ h \in Seq(Nat)
    BY <1>7, <2>1
  <2>3. vh \in Seq(Nat) /\ Len(vh) = Len(v) + Len(h)
    BY ONLY <2>2, Elements
  <2> HIDE DEF vh
  <2>4. vh \in Seq(Nat) /\ Len(vh) = 4
    BY <1>7, <2>1, <2>3
  <2>5. vh \in Seq(Nat)
    BY <2>4
  <2>6. vh \o w \in Seq(Nat) /\ Len(vh \o w) = Len(vh) + Len(w)
    BY ONLY <2>2, <2>5, Elements
  <2>7. Len(vh \o w) = 6
    BY ONLY <2>1, <2>4, <2>6
  <2> QED BY ONLY <2>6, <2>7 DEF v, w, vh
<1> DEFINE gg == g
<1>12. gg = <<1>> \o SubSeq(s, 2, 4) \o <<255, 225>>
  BY ONLY <1>1, <1>2, Zenon DEF h
<1> HIDE DEF gg
<1>13. /\ DeviceView(b) = [header |-> gg, sps |-> y, count |-> 1, pps |-> z, rest |-> <<>>]
       /\ Len(b) = 11 + m + n
  <2>1. gg \in Seq(Nat) /\ Len(gg) = 6 /\ y \in Seq(Nat) /\ z \in Seq(Nat)
          /\ Len(y) = m /\ Len(z) = n
    BY <1>8, <1>9, <1>11, Zenon DEF gg
  <2>2. m \in 0 .. 255 /\ n \in 0 .. 255
    BY ONLY <1>6
  <2>3. b = Record(gg, y, z)
    BY ONLY <1>10, <2>1, Zenon DEF gg, Record
  <2>4. /\ gg \in Seq(Nat) /\ y \in Seq(Nat) /\ z \in Seq(Nat)
        /\ Len(gg) = 6 /\ Len(y) \in 0 .. 255 /\ Len(z) \in 0 .. 255
    BY ONLY <2>1, <2>2, Zenon
  <2>5. Reads(Record(gg, y, z), gg, y, z)
    BY ONLY <2>4, DeviceReads, Zenon
  <2> QED BY ONLY <2>1, <2>3, <2>5, Zenon DEF Reads
<1>14. Len(b) \in 0 .. 11 + 2 * (UInt8 - 1)
  BY ONLY <1>6, <1>13
<1> QED BY <1>12, <1>13, <1>14, Zenon

-----------------------------------------------------------------------------
(* The announcement.                                                         *)

(* The extradata of the encoder is what Positions is about. *)
Flat(s, p, r) == (((StartCode \o s) \o StartCode) \o p) \o r

LEMMA Regroup ==
  ASSUME NEW s \in Seq(Nat), NEW p \in Seq(Nat), NEW r \in Seq(Nat)
  PROVE  Flat(s, p, r) = Extra(s, p, r)
<1> DEFINE a == StartCode
           bs == a \o s
           pr == p \o r
           bsa == bs \o a
           apr == a \o pr
<1>1. a \in Seq(Nat) /\ s \in Seq(Nat) /\ p \in Seq(Nat) /\ r \in Seq(Nat)
  BY StartCodeType
<1> HIDE DEF a
<1>2. bs \in Seq(Nat) /\ pr \in Seq(Nat)
  BY ONLY <1>1, Elements
<1> HIDE DEF bs, pr
<1>3. bsa \in Seq(Nat) /\ apr \in Seq(Nat)
  BY ONLY <1>1, <1>2, Elements
<1> HIDE DEF bsa, apr
<1>4. /\ a \in Seq(Nat) /\ s \in Seq(Nat) /\ p \in Seq(Nat) /\ r \in Seq(Nat)
      /\ bs \in Seq(Nat) /\ pr \in Seq(Nat) /\ bsa \in Seq(Nat) /\ apr \in Seq(Nat)
  BY <1>1, <1>2, <1>3
<1>5. Assoc(bsa, p, r) /\ Assoc(bs, a, pr) /\ Assoc(a, s, apr)
  BY ONLY <1>4, Associative, Zenon
<1> QED BY ONLY <1>5, Zenon DEF Assoc, Flat, Extra, a, bs, pr, bsa, apr

LEMMA SetIsUnit ==
  ASSUME NaluAssumption, NEW u \in Stretches \union SpsSet \union PpsSet
  PROVE  IsUnit(u)
<1>1. u \in Seq(Byte) /\ Stretch(u)
  BY DEF NaluAssumption, Stretch
<1>2. u \in Seq(Nat)
  <2>1. Byte \subseteq Nat
    BY DEF Byte
  <2> QED BY ONLY <1>1, <2>1, SeqMonotonic
<1> QED BY <1>1, <1>2 DEF IsUnit

(* One SPS and one PPS, and a third unit only behind a start code. *)
LEMMA ExtradataLayout ==
  ASSUME NaluAssumption, sets \in ParameterSets
  PROVE  /\ IsUnit(sets[1]) /\ IsUnit(sets[2]) /\ Len(sets[1]) >= 4
         /\ \/ Len(sets) = 2 /\ Extradata = Extra(sets[1], sets[2], <<>>)
            \/ \E r \in Seq(Nat) : Extradata = Extra(sets[1], sets[2], StartCode \o r)
<1>1. /\ sets[1] \in SpsSet /\ sets[2] \in PpsSet
      /\ Len(sets) = 2 \/ (Len(sets) = 3 /\ sets[3] \in PpsSet)
  BY DEF ParameterSets
<1>2. IsUnit(sets[1]) /\ IsUnit(sets[2]) /\ (Len(sets) = 3 => IsUnit(sets[3]))
  BY <1>1, SetIsUnit
<1>3. Len(sets[1]) >= 4
  BY <1>1 DEF NaluAssumption
<1>4. StartCode \in Seq(Nat) /\ <<>> \in Seq(Nat)
  BY StartCodeType, EmptySeq
<1> DEFINE s == sets[1]
           p == sets[2]
           t == sets[3]
<1>5. s \in Seq(Nat) /\ p \in Seq(Nat)
  BY <1>2 DEF IsUnit
<1>6. CASE Len(sets) = 2
  <2>1. Extradata = Flat(s, p, <<>>)
    <3>1. Len(sets) # 3
      BY <1>6
    <3> QED BY <3>1, Zenon DEF Extradata, Flat
  <2> HIDE DEF s, p
  <2>2. Flat(s, p, <<>>) = Extra(s, p, <<>>)
    BY ONLY <1>4, <1>5, Regroup, Zenon
  <2>3. Extradata = Extra(s, p, <<>>)
    BY ONLY <2>1, <2>2, Zenon
  <2> QED BY <1>2, <1>3, <1>6, <2>3, Zenon DEF s, p
<1>7. CASE Len(sets) = 3
  <2>1. Extradata = Flat(s, p, StartCode \o t)
    BY <1>7, Zenon DEF Extradata, Flat
  <2>2. t \in Seq(Nat)
    BY <1>2, <1>7 DEF IsUnit
  <2> HIDE DEF s, p, t
  <2>3. StartCode \o t \in Seq(Nat)
    BY ONLY <1>4, <2>2, Elements
  <2>4. Flat(s, p, StartCode \o t) = Extra(s, p, StartCode \o t)
    BY ONLY <1>4, <1>5, <2>3, Regroup, Zenon
  <2>5. Extradata = Extra(s, p, StartCode \o t)
    BY ONLY <2>1, <2>4, Zenon
  <2> QED BY <1>2, <1>3, <2>2, <2>5, Zenon DEF s, p, t
<1> QED BY <1>1, <1>6, <1>7

(* Extradata with a third unit is found out: it is never announced. *)
LEMMA NoThird ==
  ASSUME NaluAssumption, sets \in ParameterSets, ~HasThird(Extradata)
  PROVE  Len(sets) = 2 /\ Extradata = Extra(sets[1], sets[2], <<>>)
<1> SUFFICES ASSUME NEW r \in Seq(Nat), Extradata = Extra(sets[1], sets[2], StartCode \o r)
             PROVE  FALSE
  BY ExtradataLayout, Zenon
<1> DEFINE s == sets[1]
           p == sets[2]
           rest == StartCode \o r
           x == Extra(s, p, rest)
<1>1. IsUnit(s) /\ IsUnit(p)
  BY ExtradataLayout
<1>2. rest \in Seq(Nat)
  BY ONLY r \in Seq(Nat), StartCodeType, Elements
<1>3. Drop(x, PosPps(x)) = p \o rest
  <2> HIDE DEF s, p, rest
  <2>1. Placed(x, s, p, rest)
    BY ONLY <1>1, <1>2, Positions, Zenon
  <2> QED BY ONLY <2>1, Zenon DEF Placed
<1>4. Find0001(p \o (StartCode \o r)) = Len(p) + 4
  <2> HIDE DEF p
  <2> QED BY ONLY <1>1, r \in Seq(Nat), FindBehind, Zenon
<1>5. HasThird(x)
  <2>1. Len(p) \in Nat
    BY <1>1 DEF IsUnit
  <2> HIDE DEF p, x
  <2>2. Find0001(Drop(x, PosPps(x))) = Len(p) + 4
    BY <1>3, <1>4, Zenon
  <2> QED BY <2>1, <2>2 DEF HasThird, NotFound
<1> QED BY <1>5, Zenon

(* What the record is, once it is announced. *)
LEMMA Announced ==
  ASSUME NaluAssumption, AvccAssumption, AnnounceInv, avcc # <<>>
  PROVE  CodecDataExact /\ RecordFits
<1> DEFINE s == sets[1]
           p == sets[2]
           x == Extra(s, p, <<>>)
<1>1. IsUnit(s) /\ IsUnit(p) /\ Len(s) >= 4 /\ Len(sets) = 2 /\ avcc = AvccBuff(x)
  BY ExtradataLayout, NoThird, Zenon DEF AnnounceInv
<1>2. s \in Seq(Nat) /\ p \in Seq(Nat) /\ <<>> \in Seq(Nat)
  BY <1>1, EmptySeq DEF IsUnit
<1>3. Len(s) \in Nat /\ Len(p) \in Nat /\ Len(p) + Len(<<>>) = Len(p)
  BY <1>2, EmptySeq
<1> HIDE DEF s, p, x
<1>4. /\ DeviceView(avcc) =
           [header |-> <<1>> \o SubSeq(s, 2, 4) \o <<255, 225>>,
            sps |-> SubSeq(x, 5, 4 + SizeOf(Len(s))), count |-> 1,
            pps |-> SubSeq(x, Len(s) + 9, Len(s) + 8 + SizeOf(Len(p))), rest |-> <<>>]
      /\ Len(avcc) \in 0 .. 11 + 2 * (UInt8 - 1)
  <2>1. IsUnit(s) /\ IsUnit(p) /\ <<>> \in Seq(Nat) /\ Len(s) >= 4
    BY <1>1, <1>2
  <2>2. Viewed(x, s, p, <<>>)
    BY ONLY AvccAssumption, <2>1, RecordView, Zenon DEF x
  <2> QED BY ONLY <1>1, <1>3, <2>2, Zenon DEF Viewed
<1>5. SubSeq(x, 5, Len(s) + 4) = s /\ SubSeq(x, Len(s) + 9, Len(s) + 8 + Len(p)) = p
  <2>1. Placed(x, s, p, <<>>)
    BY ONLY <1>1, <1>2, Positions, Zenon DEF x
  <2> QED BY ONLY <2>1, Zenon DEF Placed
<1>6. ASSUME Len(s) < UInt8, Len(p) < UInt8
      PROVE  DeviceView(avcc) = [header |-> <<1>> \o SubSeq(s, 2, 4) \o <<255, 225>>,
                                 sps |-> s, count |-> 1, pps |-> p, rest |-> <<>>]
  <2>1. SizeOf(Len(s)) = Len(s) /\ SizeOf(Len(p)) = Len(p)
    BY ONLY AvccAssumption, <1>3, <1>6, CutSize
  <2>2. 4 + Len(s) = Len(s) + 4
    BY <1>3
  <2> QED BY ONLY <1>4, <1>5, <2>1, <2>2, Zenon
<1>7. CodecDataExact
  BY ONLY <1>1, <1>6, Zenon DEF CodecDataExact, s, p
<1>8. RecordFits
  BY ONLY AvccAssumption, <1>4 DEF RecordFits, AvccAssumption
<1> QED BY <1>7, <1>8

LEMMA AnnounceInductive ==
  /\ Init => AnnounceInv
  /\ AnnounceInv /\ [Next]_vars => AnnounceInv'
<1>1. Init => AnnounceInv
  BY Zenon DEF Init, AnnounceInv
<1>2. ASSUME AnnounceInv, [Next]_vars PROVE AnnounceInv'
  <2>1. CASE Announce
    <3>1. sets \in ParameterSets
      BY <1>2, <2>1 DEF AnnounceInv, Announce
    <3> QED BY <2>1, <3>1 DEF AnnounceInv, Announce, Extradata
  <2>2. CASE UNCHANGED announceVars
    BY <1>2, <2>2 DEF AnnounceInv, Extradata, announceVars
  <2> QED BY <1>2, <2>1, <2>2
       DEF Next, Refuse, FindFirst, Rewrite, Finish, vars, announceVars, loopVars
<1> QED BY <1>1, <1>2

(* A device reads the two parameter sets of the encoder out of the record of   *)
(* prepareAVCCData, whatever their bytes, as long as their sizes fit uint8_t.  *)
THEOREM RecordIsExact == Spec => []CodecDataExact
<1>1. AnnounceInv => CodecDataExact
  BY NaluAssumption, AvccAssumption, Announced DEF CodecDataExact
<1> QED BY AnnounceInductive, <1>1, PTL DEF Spec

(* The record of prepareAVCCData never overruns avcc_buff. *)
THEOREM BufferNotOverrun == Spec => []RecordFits
<1>1. AnnounceInv => RecordFits
  <2>1. CASE avcc = <<>>
    <3>1. 0 <= BuffSize
      BY AvccAssumption DEF AvccAssumption
    <3> QED BY <2>1, <3>1, EmptySeq DEF RecordFits
  <2> QED BY <2>1, NaluAssumption, AvccAssumption, Announced
<1> QED BY AnnounceInductive, <1>1, PTL DEF Spec
=============================================================================
