--------------------------- MODULE NaluLoopProofs ---------------------------
(***************************************************************************)
(* The loop that overwrites the start codes of a packet, for packets of    *)
(* any number of stretches of any length, with or without a comment.       *)
(***************************************************************************)
EXTENDS NaluProofs

-----------------------------------------------------------------------------
(* The packet, stretch by stretch: u and us stand for what is behind a start  *)
(* code, a unit or several that are joined by the short code.                *)

(* The first k stretches of us, each behind a start code. *)
LEMMA PrefixLoop ==
  ASSUME NEW n \in Nat, NEW us \in [1 .. n -> Seq(Nat)]
  PROVE  /\ Len(us) = n /\ Prefixes(us) \in [0 .. n -> Seq(Nat)]
         /\ Prefixes(us)[0] = <<>>
         /\ \A k \in 1 .. n :
              Prefixes(us)[k] = Prefixes(us)[k - 1] \o StartCode \o us[k]
<1> DEFINE Next0(f, k) == IF k = 0 THEN <<>> ELSE f[k - 1] \o StartCode \o us[k]
           Steps(f, m) == \A k \in 0 .. m : f[k] = Next0(f, k)
           Done(m) == {f \in [0 .. m -> Seq(Nat)] : Steps(f, m)}
           S == {m \in Nat : m <= n => Done(m) # {}}
<1>l. Len(us) = n
  BY LenProperties
<1>a. \A a \in Seq(Nat), k \in 1 .. n : a \o StartCode \o us[k] \in Seq(Nat)
  <2> SUFFICES ASSUME NEW a \in Seq(Nat), NEW k \in 1 .. n
               PROVE  a \o StartCode \o us[k] \in Seq(Nat)
    OBVIOUS
  <2>1. us[k] \in Seq(Nat) /\ StartCode \in Seq(Nat)
    BY StartCodeType
  <2> QED BY <2>1, Elements
<1>1. 0 \in S
  <2> DEFINE f0 == [k \in 0 .. 0 |-> <<>>]
  <2>1. f0 \in Done(0)
    BY EmptySeq
  <2> QED BY <2>1
<1>2. ASSUME NEW m \in Nat, m \in S PROVE m + 1 \in S
  <2> SUFFICES ASSUME m + 1 <= n PROVE Done(m + 1) # {}
    <3> HIDE DEF Done
    <3> QED OBVIOUS
  <2>1. PICK f \in Done(m) : TRUE
    BY <1>2
  <2> DEFINE g == [k \in 0 .. m + 1 |-> IF k = m + 1 THEN Next0(f, k) ELSE f[k]]
  <2>2. f \in [0 .. m -> Seq(Nat)] /\ Steps(f, m)
    BY <2>1
  <2>3. g \in [0 .. m + 1 -> Seq(Nat)]
    <3>1. Next0(f, m + 1) \in Seq(Nat)
      <4>1. f[(m + 1) - 1] \in Seq(Nat) /\ m + 1 \in 1 .. n /\ m + 1 # 0
        BY <2>2
      <4> QED BY <4>1, <1>a
    <3> HIDE DEF Next0
    <3> QED BY <2>2, <3>1
  <2>4. Steps(g, m + 1)
    <3> SUFFICES ASSUME NEW k \in 0 .. m + 1 PROVE g[k] = Next0(g, k)
      OBVIOUS
    <3>1. k # 0 => g[k - 1] = f[k - 1]
      OBVIOUS
    <3>2. g[k] = Next0(f, k)
      <4>1. k # m + 1 => k \in 0 .. m
        OBVIOUS
      <4> HIDE DEF Next0
      <4>2. k # m + 1 => f[k] = Next0(f, k)
        BY ONLY <4>1, <2>2, Zenon DEF Steps
      <4> QED BY <4>2
    <3> QED BY <3>1, <3>2
  <2>5. g \in Done(m + 1)
    BY <2>3, <2>4
  <2> HIDE DEF g, Done
  <2> QED BY <2>5
<1>3. Nat \subseteq S
  <2> HIDE DEF S
  <2>1. \A m \in S \cap Nat : m + 1 \in S
    BY <1>2
  <2> QED BY ONLY <1>1, <2>1, SetInduction
<1>4. PICK f \in [0 .. n -> Seq(Nat)] : Steps(f, n)
  <2>1. Done(n) # {}
    <3> HIDE DEF Done
    <3> QED BY <1>3
  <2> HIDE DEF Steps
  <2> QED BY <2>1
<1> DEFINE Body(h) == [k \in 0 .. Len(us) |->
                         IF k = 0 THEN <<>> ELSE h[k - 1] \o StartCode \o us[k]]
<1>5. f = Body(f)
  BY <1>4, <1>l
<1>6. Prefixes(us) = CHOOSE h : h = Body(h)
  BY DEF Prefixes
<1> DEFINE h == Prefixes(us)
           T == {m \in Nat : m <= n => h[m] \in Seq(Nat)}
<1>7. h = Body(h)
  <2> HIDE DEF Body
  <2> QED BY <1>5, <1>6
<1>8. h = [k \in 0 .. n |-> Next0(h, k)]
  BY <1>7, <1>l
<1> HIDE DEF h
<1>9. 0 \in T
  BY <1>8, EmptySeq
<1>10. ASSUME NEW m \in Nat, m \in T PROVE m + 1 \in T
  <2> SUFFICES ASSUME m + 1 <= n PROVE h[m + 1] \in Seq(Nat)
    OBVIOUS
  <2>1. h[m] \in Seq(Nat) /\ m + 1 \in 1 .. n /\ m + 1 # 0 /\ (m + 1) - 1 = m
    BY <1>10
  <2>2. h[m + 1] = h[m] \o StartCode \o us[m + 1]
    <3>1. h[m + 1] = Next0(h, m + 1)
      <4>1. m + 1 \in 0 .. n
        BY <2>1
      <4> HIDE DEF Next0
      <4> QED BY ONLY <4>1, <1>8, Zenon
    <3> QED BY ONLY <2>1, <3>1, Zenon
  <2> QED BY <1>a, <2>1, <2>2
<1>11. Nat \subseteq T
  <2> HIDE DEF T
  <2>1. \A m \in T \cap Nat : m + 1 \in T
    BY <1>10
  <2> QED BY ONLY <1>9, <2>1, SetInduction
<1>12. h \in [0 .. n -> Seq(Nat)]
  <2>1. \A m \in 0 .. n : h[m] \in Seq(Nat)
    BY <1>11
  <2>2. h = [m \in 0 .. n |-> h[m]]
    BY <1>8
  <2> QED BY <2>1, <2>2
<1>13. h[0] = <<>> /\ \A k \in 1 .. n : h[k] = h[k - 1] \o StartCode \o us[k]
  <2>1. \A k \in 0 .. n : h[k] = Next0(h, k)
    <3> HIDE DEF Next0
    <3> QED BY <1>8
  <2>2. h[0] = <<>>
    <3>1. 0 \in 0 .. n
      OBVIOUS
    <3> QED BY ONLY <2>1, <3>1, Zenon
  <2>3. ASSUME NEW k \in 1 .. n PROVE h[k] = h[k - 1] \o StartCode \o us[k]
    <3>1. k \in 0 .. n /\ k # 0
      OBVIOUS
    <3> QED BY ONLY <2>1, <3>1, Zenon
  <2> QED BY <2>2, <2>3
<1> QED BY <1>l, <1>12, <1>13 DEF h

(* Each unit makes the packet longer by its own length and a start code. *)
LEMMA PrefixLength ==
  ASSUME NEW n \in Nat, NEW us \in [1 .. n -> Seq(Nat)], NEW k \in 1 .. n
  PROVE  /\ Len(Prefixes(us)[k - 1]) \in Nat /\ Len(us[k]) \in Nat
         /\ Len(Prefixes(us)[k]) = Len(Prefixes(us)[k - 1]) + 4 + Len(us[k])
<1> DEFINE a == Prefixes(us)[k - 1]
           u == us[k]
           b == a \o StartCode
<1>1. a \in Seq(Nat) /\ u \in Seq(Nat) /\ Prefixes(us)[k] = b \o u
  <2>1. k - 1 \in 0 .. n
    OBVIOUS
  <2> QED BY <2>1, PrefixLoop
<1> HIDE DEF a, u
<1>2. b \in Seq(Nat) /\ Len(b) = Len(a) + 4 /\ Len(a) \in Nat
  <2>1. a \in Seq(Nat) /\ StartCode \in Seq(Nat)
    BY <1>1, StartCodeType
  <2>2. b \in Seq(Nat) /\ Len(b) = Len(a) + Len(StartCode) /\ Len(a) \in Nat
    BY ONLY <2>1, Elements
  <2> HIDE DEF b
  <2> QED BY ONLY <2>2, StartCodeBytes
<1> HIDE DEF b
<1>3. Len(b \o u) = Len(b) + Len(u) /\ Len(u) \in Nat
  <2>1. b \in Seq(Nat) /\ u \in Seq(Nat)
    BY <1>1, <1>2
  <2> QED BY ONLY <2>1, Elements
<1>4. Len(b \o u) = Len(a) + 4 + Len(u)
  BY ONLY <1>2, <1>3
<1> QED BY <1>1, <1>2, <1>3, <1>4 DEF a, u

(* The units from the k-th one on, put together by themselves, are as long as *)
(* they are in the packet.                                                    *)
LEMMA RestLength ==
  ASSUME NEW n \in Nat, NEW us \in [1 .. n -> Seq(Nat)], NEW k \in 1 .. n
  PROVE  /\ Len(Prefixes(us)[n]) \in Nat /\ Len(Prefixes(us)[k - 1]) \in Nat
         /\ Len(AnnexBPacket(SubSeq(us, k, n)))
              = Len(Prefixes(us)[n]) - Len(Prefixes(us)[k - 1])
<1> DEFINE m == n - k + 1
           v == SubSeq(us, k, n)
           P == Prefixes(us)
           Q == Prefixes(v)
           Sums(j) == j <= m => Len(Q[j]) + Len(P[k - 1]) = Len(P[k - 1 + j])
           S == {j \in Nat : Sums(j)}
<1>1. m \in Nat /\ v \in [1 .. m -> Seq(Nat)] /\ \A i \in 1 .. m : v[i] = us[k - 1 + i]
  <2>1. k \in Int /\ n \in Int /\ k <= n /\ m \in Nat
    OBVIOUS
  <2>2. \A i \in k .. n : us[i] \in Seq(Nat)
    OBVIOUS
  <2>3. /\ v \in Seq(Seq(Nat)) /\ Len(v) = n - k + 1
        /\ \A i \in 1 .. n - k + 1 : v[i] = us[k + i - 1]
    BY ONLY <2>1, <2>2, SubSeqProperties
  <2> HIDE DEF v
  <2>4. v \in [1 .. Len(v) -> Seq(Nat)]
    BY ONLY <2>3, LenProperties
  <2>5. v \in [1 .. m -> Seq(Nat)]
    BY ONLY <2>3, <2>4
  <2>6. \A i \in 1 .. m : v[i] = us[k - 1 + i]
    <3>1. \A i \in 1 .. m : k + i - 1 = k - 1 + i
      OBVIOUS
    <3> QED BY ONLY <2>3, <3>1
  <2> QED BY <2>1, <2>5, <2>6
<1> HIDE DEF m, v
<1>2. /\ Len(v) = m /\ Q \in [0 .. m -> Seq(Nat)] /\ Q[0] = <<>>
      /\ P \in [0 .. n -> Seq(Nat)]
  BY <1>1, PrefixLoop
<1>n. \A i \in 0 .. n : Len(P[i]) \in Nat
  BY <1>2
<1>m. \A i \in 0 .. m : Len(Q[i]) \in Nat
  BY <1>2
<1>p. \A i \in 1 .. n : Len(P[i]) = Len(P[i - 1]) + 4 + Len(us[i])
  BY PrefixLength
<1>q. \A i \in 1 .. m : Len(Q[i]) = Len(Q[i - 1]) + 4 + Len(v[i])
  BY <1>1, PrefixLength
<1> HIDE DEF P, Q
<1>3. Sums(0)
  <2>1. k - 1 \in 0 .. n /\ k - 1 + 0 = k - 1
    OBVIOUS
  <2>2. Len(P[k - 1]) \in Nat /\ Len(Q[0]) = 0
    BY <2>1, <1>n, <1>2, EmptySeq
  <2> QED BY <2>1, <2>2
<1>4. ASSUME NEW j \in Nat, Sums(j) PROVE Sums(j + 1)
  <2> SUFFICES ASSUME j + 1 <= m
               PROVE  Len(Q[j + 1]) + Len(P[k - 1]) = Len(P[k - 1 + (j + 1)])
    OBVIOUS
  <2> DEFINE i == k - 1 + (j + 1)
             c == Len(us[i])
             x == Len(Q[j])
             y == Len(P[k - 1])
             z == Len(P[i - 1])
  <2>1. /\ j + 1 \in 1 .. m /\ (j + 1) - 1 = j /\ j \in 0 .. m
        /\ i \in 1 .. n /\ i - 1 = k - 1 + j /\ i - 1 \in 0 .. n /\ k - 1 \in 0 .. n
    BY <1>1 DEF m
  <2>2. x + y = z
    <3>1. j <= m
      BY <2>1
    <3>2. Len(Q[j]) + Len(P[k - 1]) = Len(P[k - 1 + j])
      BY ONLY <1>4, <3>1, Zenon
    <3> QED BY ONLY <3>2, <2>1, Zenon
  <2>3. v[j + 1] = us[i]
    BY <1>1, <2>1
  <2>4. Len(Q[j + 1]) = x + 4 + c
    <3>1. Len(Q[j + 1]) = Len(Q[(j + 1) - 1]) + 4 + Len(v[j + 1])
      BY <2>1, <1>q
    <3> QED BY <3>1, <2>1, <2>3
  <2>5. Len(P[i]) = z + 4 + c
    BY <2>1, <1>p
  <2>6. x \in Nat /\ y \in Nat /\ z \in Nat /\ c \in Nat
    <3>1. c \in Nat
      BY <2>1, LenProperties
    <3> QED BY <3>1, <2>1, <1>n, <1>m
  <2>7. Len(Q[j + 1]) + y = Len(P[i])
    <3> HIDE DEF x, y, z, c, i
    <3> QED BY <2>2, <2>4, <2>5, <2>6
  <2> QED BY <2>7
<1>5. Sums(m)
  <2> HIDE DEF Sums
  <2>1. 0 \in S /\ \A j \in S \cap Nat : j + 1 \in S
    BY <1>3, <1>4
  <2> HIDE DEF S
  <2>2. Nat \subseteq S
    BY ONLY <2>1, SetInduction
  <2> QED BY <1>1, <2>2 DEF S
<1>6. Len(Q[m]) + Len(P[k - 1]) = Len(P[n])
  <2>1. k - 1 + m = n /\ m <= m
    BY DEF m
  <2> QED BY <1>1, <1>5, <2>1
<1>7. Len(Q[m]) \in Nat /\ Len(P[k - 1]) \in Nat /\ Len(P[n]) \in Nat
  <2>1. k - 1 \in 0 .. n /\ n \in 0 .. n /\ m \in 0 .. m
    BY <1>1
  <2> QED BY <2>1, <1>n, <1>m
<1>8. AnnexBPacket(v) = Q[m]
  BY <1>2, Zenon DEF AnnexBPacket, Q
<1> DEFINE x == Len(Q[m])
           y == Len(P[k - 1])
           z == Len(P[n])
<1>9. x = z - y
  <2> HIDE DEF x, y, z
  <2>1. x + y = z /\ x \in Nat /\ y \in Nat /\ z \in Nat
    BY ONLY <1>6, <1>7 DEF x, y, z
  <2> QED BY ONLY <2>1
<1> QED BY ONLY <1>7, <1>8, <1>9, Zenon DEF P, v

(* Behind the first j units are the others. *)
LEMMA PrefixOfPacket ==
  ASSUME NEW n \in Nat, NEW us \in [1 .. n -> Seq(Nat)], NEW j \in 0 .. n
  PROVE  \E r \in Seq(Nat) : Prefixes(us)[n] = Prefixes(us)[j] \o r
<1> DEFINE P == Prefixes(us)
           Splits(m) == j + m <= n => \E r \in Seq(Nat) : P[j + m] = P[j] \o r
           S == {m \in Nat : Splits(m)}
<1>1. P \in [0 .. n -> Seq(Nat)] /\ \A k \in 1 .. n : P[k] = P[k - 1] \o StartCode \o us[k]
  BY PrefixLoop
<1> HIDE DEF P
<1>2. Splits(0)
  <2>1. P[j] \in Seq(Nat) /\ j + 0 = j
    BY <1>1
  <2>2. P[j] = P[j] \o <<>> /\ <<>> \in Seq(Nat)
    BY <2>1, ConcatEmptySeq, EmptySeq
  <2> QED BY <2>1, <2>2
<1>3. ASSUME NEW m \in Nat, Splits(m) PROVE Splits(m + 1)
  <2> SUFFICES ASSUME NEW i \in 1 .. n, i = j + (m + 1)
               PROVE  \E r \in Seq(Nat) : P[i] = P[j] \o r
    <3>1. j + (m + 1) <= n => j + (m + 1) \in 1 .. n
      OBVIOUS
    <3> QED BY <3>1, Zenon
  <2>1. i - 1 = j + m /\ j + m <= n /\ j \in 0 .. n
    OBVIOUS
  <2>2. PICK r \in Seq(Nat) : P[j + m] = P[j] \o r
    BY <1>3, <2>1, Zenon
  <2> DEFINE a == P[j]
             u == us[i]
             ar == a \o r
             cu == StartCode \o u
             rest == r \o cu
  <2>3. a \in Seq(Nat) /\ u \in Seq(Nat) /\ StartCode \in Seq(Nat) /\ r \in Seq(Nat)
    BY <2>1, <1>1, StartCodeType
  <2>4. P[i] = (ar \o StartCode) \o u
    <3>1. P[i] = P[i - 1] \o StartCode \o us[i]
      BY <1>1
    <3>2. P[i - 1] = ar
      BY <2>1, <2>2, Zenon
    <3> QED BY ONLY <3>1, <3>2, Zenon
  <2> HIDE DEF a, u
  <2>5. ar \in Seq(Nat) /\ cu \in Seq(Nat)
    BY ONLY <2>3, Elements
  <2> HIDE DEF cu, ar
  <2>6. rest \in Seq(Nat)
    BY ONLY <2>3, <2>5, Elements
  <2>7. Assoc(ar, StartCode, u) /\ Assoc(a, r, cu)
    BY <2>3, <2>5, Associative
  <2>8. P[i] = a \o rest
    BY ONLY <2>4, <2>7, Zenon DEF Assoc, ar, cu
  <2> HIDE DEF rest
  <2> QED BY ONLY <2>6, <2>8, Zenon DEF a
<1>4. Splits(n - j)
  <2> HIDE DEF Splits
  <2>1. 0 \in S /\ \A m \in S \cap Nat : m + 1 \in S
    BY <1>2, <1>3
  <2> HIDE DEF S
  <2>2. Nat \subseteq S
    BY ONLY <2>1, SetInduction
  <2> QED BY <2>2 DEF S
<1>5. j + (n - j) = n /\ n <= n
  OBVIOUS
<1> QED BY <1>4, <1>5, Zenon DEF P

(* Behind unit j there is nothing, or the start code of the next one. *)
Rest(n, j, r) == IF j = n THEN r = <<>> ELSE \E t \in Seq(Nat) : r = StartCode \o t

LEMMA BehindUnits ==
  ASSUME NEW n \in Nat, NEW us \in [1 .. n -> Seq(Nat)], NEW j \in 1 .. n
  PROVE  \E r \in Seq(Nat) : Prefixes(us)[n] = Prefixes(us)[j] \o r /\ Rest(n, j, r)
<1> DEFINE P == Prefixes(us)
<1>1. P \in [0 .. n -> Seq(Nat)] /\ \A k \in 1 .. n : P[k] = P[k - 1] \o StartCode \o us[k]
  BY PrefixLoop
<1> HIDE DEF P
<1>2. CASE j = n
  <2>1. P[j] \in Seq(Nat) /\ <<>> \in Seq(Nat)
    BY <1>1, EmptySeq
  <2>2. P[n] = P[j] \o <<>>
    BY <1>2, <2>1, ConcatEmptySeq
  <2> QED BY <1>2, <2>1, <2>2 DEF P, Rest
<1>3. CASE j # n
  <2>1. PICK i \in 1 .. n : i = j + 1 /\ i - 1 = j /\ i \in 0 .. n
    BY <1>3
  <2>2. PICK r \in Seq(Nat) : P[n] = P[i] \o r
    BY <2>1, PrefixOfPacket DEF P
  <2> DEFINE a == P[j]
             b == a \o StartCode
             u == us[i]
             t == u \o r
             st == StartCode \o t
  <2>3. a \in Seq(Nat) /\ u \in Seq(Nat) /\ StartCode \in Seq(Nat) /\ r \in Seq(Nat)
    BY <1>1, StartCodeType
  <2>4. P[n] = (b \o u) \o r
    <3>1. P[i] = P[i - 1] \o StartCode \o us[i]
      BY <1>1
    <3> QED BY ONLY <2>1, <2>2, <3>1, Zenon
  <2> HIDE DEF a, u
  <2>5. t \in Seq(Nat) /\ b \in Seq(Nat)
    BY ONLY <2>3, Elements
  <2> HIDE DEF t, b
  <2>6. st \in Seq(Nat)
    BY ONLY <2>3, <2>5, Elements
  <2>7. Assoc(b, u, r) /\ Assoc(a, StartCode, t)
    BY <2>3, <2>5, Associative
  <2>8. P[n] = a \o st
    BY ONLY <2>4, <2>7, Zenon DEF Assoc, t, b
  <2> QED BY ONLY <1>3, <2>5, <2>6, <2>8, Zenon DEF a, P, st, Rest
<1> QED BY <1>2, <1>3

(* What stands in front of unit j of a packet that begins with c. *)
Front(c, us, j) == (c \o Prefixes(us)[j - 1]) \o StartCode

LEMMA SplitPacket ==
  ASSUME NEW c \in Seq(Nat), NEW n \in Nat, NEW us \in [1 .. n -> Seq(Nat)],
         NEW j \in 1 .. n
  PROVE  /\ Front(c, us, j) \in Seq(Nat)
         /\ Len(Front(c, us, j)) = Len(c) + Len(Prefixes(us)[j - 1]) + 4
         /\ \E r \in Seq(Nat) :
              c \o Prefixes(us)[n] = Front(c, us, j) \o (us[j] \o r) /\ Rest(n, j, r)
<1> DEFINE P == Prefixes(us)
           a == P[j - 1]
           s == StartCode
           u == us[j]
           ca == c \o a
           f == ca \o s
           as1 == a \o s
           asu == as1 \o u
<1>1. a \in Seq(Nat) /\ u \in Seq(Nat) /\ s \in Seq(Nat) /\ c \in Seq(Nat) /\ P[j] = asu
  <2>1. /\ P \in [0 .. n -> Seq(Nat)]
        /\ \A k \in 1 .. n : P[k] = P[k - 1] \o StartCode \o us[k]
    BY PrefixLoop, Zenon
  <2>2. j - 1 \in 0 .. n
    OBVIOUS
  <2>3. P[j] = asu
    BY <2>1, Zenon
  <2> HIDE DEF P
  <2> QED BY <2>1, <2>2, <2>3, StartCodeType
<1>2. PICK r \in Seq(Nat) : P[n] = P[j] \o r /\ Rest(n, j, r)
  BY BehindUnits, Zenon
<1>3. Len(s) = 4
  BY StartCodeBytes
<1> HIDE DEF P, a, s, u
<1>4. ca \in Seq(Nat) /\ Len(ca) = Len(c) + Len(a) /\ as1 \in Seq(Nat)
      /\ Len(c) \in Nat /\ Len(a) \in Nat
  BY ONLY <1>1, Elements
<1> HIDE DEF ca, as1
<1>5. f \in Seq(Nat) /\ Len(f) = Len(ca) + Len(s)
  BY ONLY <1>1, <1>4, Elements
<1>6. asu \in Seq(Nat) /\ u \o r \in Seq(Nat)
  BY ONLY <1>1, <1>4, r \in Seq(Nat), Elements
<1> DEFINE ur == u \o r
           sur == s \o ur
<1>7. ur \in Seq(Nat)
  BY <1>6
<1> HIDE DEF f, asu, ur
<1>8. sur \in Seq(Nat)
  BY ONLY <1>1, <1>7, Elements
<1>9. Assoc(as1, u, r) /\ Assoc(a, s, ur)
  BY ONLY <1>1, <1>4, <1>7, r \in Seq(Nat), Associative, Zenon
<1>10. P[n] = a \o sur
  BY ONLY <1>1, <1>2, <1>9, Zenon DEF Assoc, as1, asu, ur
<1> HIDE DEF sur
<1>11. Assoc(c, a, sur) /\ Assoc(ca, s, ur)
  BY ONLY <1>1, <1>4, <1>7, <1>8, Associative, Zenon
<1>12. c \o P[n] = f \o ur
  BY ONLY <1>10, <1>11, Zenon DEF Assoc, ca, f, sur
<1>13. Len(f) = Len(c) + Len(a) + 4
  BY ONLY <1>3, <1>4, <1>5
<1>14. f = Front(c, us, j)
  BY Zenon DEF Front, f, ca, a, P, s
<1> QED BY <1>2, <1>5, <1>12, <1>13, <1>14, Zenon DEF ur, u, a, P

-----------------------------------------------------------------------------
(* What the encoder puts into a packet.                                      *)

LEMMA StretchIsUnit ==
  ASSUME NaluAssumption, NEW u \in Stretches
  PROVE  IsUnit(u) /\ Len(u) \in 1 .. SizeValues - 1
<1>1. IsUnit(u)
  BY SetIsUnit
<1>2. u \in Seq(Nat) /\ u # <<>> /\ Len(u) < SizeValues /\ SizeValues \in Nat
  BY <1>1 DEF IsUnit, NaluAssumption, Stretch
<1>3. Len(u) \in Nat /\ Len(u) # 0
  BY <1>2, LenProperties, EmptySeq
<1> QED BY <1>1, <1>2, <1>3

(* A comment begins with the short start code, which find0001 does not take for *)
(* one, and has no long one.                                                    *)
LEMMA CommentCodeless ==
  ASSUME NaluAssumption, NEW c \in Comments \union {<<>>}
  PROVE  Codeless(c)
<1>1. CASE c = <<>>
  BY <1>1, EmptySeq DEF Codeless
<1>2. CASE c \in Comments
  <2> DEFINE h == <<0, 0, 1>>
  <2>1. PICK v \in Stretches : c = h \o v
    BY <1>2 DEF Comments, FirstStretches, ShortCode
  <2> DEFINE m == Len(v)
  <2>2. IsUnit(v) /\ m \in Nat /\ m >= 1
    BY <2>1, StretchIsUnit DEF NaluAssumption
  <2>3. v \in Seq(Nat) /\ v[m] # 0
    BY <2>2, EmptySeq DEF IsUnit, Stretch
  <2>4. h \in Seq(Nat) /\ Len(h) = 3 /\ h[3] = 1
    OBVIOUS
  <2>5. \A i \in 4 .. m : ~(v[i] = 1 /\ v[i - 1] = 0 /\ v[i - 2] = 0 /\ v[i - 3] = 0)
    BY <2>2, NoCodeInside
  <2> HIDE DEF h
  <2>6. /\ c \in Seq(Nat) /\ Len(c) = Len(h) + m
        /\ \A i \in 1 .. Len(h) : c[i] = h[i]
        /\ \A i \in 1 .. m : c[Len(h) + i] = v[i]
    <3>1. h \in Seq(Nat) /\ v \in Seq(Nat)
      BY <2>3, <2>4
    <3>2. /\ h \o v \in Seq(Nat) /\ Len(h \o v) = Len(h) + Len(v)
          /\ \A i \in 1 .. Len(h) : (h \o v)[i] = h[i]
          /\ \A i \in 1 .. Len(v) : (h \o v)[Len(h) + i] = v[i]
      BY ONLY <3>1, Elements
    <3> QED BY ONLY <2>1, <3>2, Zenon
  <2> HIDE DEF m
  <2>7. Len(c) = 3 + m /\ c[3] = 1 /\ \A i \in 1 .. m : c[3 + i] = v[i]
    BY ONLY <2>4, <2>6
  <2>8. Len(c) = 0 \/ c[Len(c)] # 0
    <3>1. m \in 1 .. m
      BY <2>2
    <3>2. c[3 + m] = v[m]
      BY ONLY <2>7, <3>1
    <3> QED BY ONLY <2>3, <2>7, <3>2, Zenon
  <2>9. ASSUME NEW i \in 4 .. Len(c), c[i] = 1, c[i - 1] = 0, c[i - 2] = 0, c[i - 3] = 0
        PROVE  FALSE
    <3>1. i \in 4 .. 3 + m
      BY <2>7
    <3>2. i - 1 # 3 /\ i - 2 # 3 /\ i - 3 # 3
      BY ONLY <2>7, <2>9
    <3> DEFINE k == i - 3
    <3>3. k \in 4 .. m /\ i = 3 + k /\ i - 1 = 3 + (k - 1) /\ i - 2 = 3 + (k - 2)
            /\ i - 3 = 3 + (k - 3)
      BY ONLY <2>2, <3>1, <3>2
    <3> HIDE DEF k
    <3>4. k \in 1 .. m /\ k - 1 \in 1 .. m /\ k - 2 \in 1 .. m /\ k - 3 \in 1 .. m
      BY ONLY <2>2, <3>3
    <3>5. v[k] = 1 /\ v[k - 1] = 0 /\ v[k - 2] = 0 /\ v[k - 3] = 0
      BY ONLY <2>7, <2>9, <3>3, <3>4
    <3> QED BY ONLY <2>5, <3>3, <3>5
  <2> QED BY <2>6, <2>8, <2>9 DEF Codeless
<1> QED BY <1>1, <1>2

-----------------------------------------------------------------------------
(* A packet, as the loop sees it.                                            *)

(* What is behind unit k, from its offset on. *)
Found(k) == Find0001(Drop(packet, Offset(k)))

Laid(n) ==
  /\ n \in Nat \ {0} /\ Len(units) = n
  /\ \A k \in 1 .. n : Offset(k) \in Nat
  /\ Offset(1) >= 4 /\ Find0001(packet) = Offset(1)
  /\ \A k \in 1 .. n - 1 : Offset(k + 1) >= Offset(k) + 4
                             /\ Found(k) = Offset(k + 1) - Offset(k)
  /\ Found(n) = NotFound
  /\ Len(packet) - Offset(n) = Len(units[n]) /\ Len(units[n]) \in 0 .. SizeValues - 1

(* An offset, and the bytes from there on. *)
LEMMA PacketAt ==
  ASSUME NEW c \in Seq(Nat), NEW n \in Nat, units \in [1 .. n -> Seq(Nat)],
         packet = c \o Prefixes(units)[n], NEW k \in 1 .. n
  PROVE  /\ Offset(k) = Len(c) + Len(Prefixes(units)[k - 1]) + 4 /\ Offset(k) \in Nat
         /\ Len(packet) = Len(c) + Len(Prefixes(units)[n])
         /\ Len(c) \in Nat /\ Len(Prefixes(units)[k - 1]) \in Nat
         /\ Len(Prefixes(units)[n]) \in Nat
         /\ \E r \in Seq(Nat) : Drop(packet, Offset(k)) = units[k] \o r /\ Rest(n, k, r)
<1> DEFINE P == Prefixes(units)
           f == Front(c, units, k)
           u == units[k]
           x == Len(c)
           y == Len(P[k - 1])
           z == Len(P[n])
           w == Len(AnnexBPacket(SubSeq(units, k, n)))
           o == Offset(k)
<1>1. f \in Seq(Nat) /\ Len(f) = x + y + 4
  BY SplitPacket
<1>2. PICK r \in Seq(Nat) : c \o P[n] = f \o (u \o r) /\ Rest(n, k, r)
  BY SplitPacket
<1>3. z \in Nat /\ y \in Nat /\ w = z - y
  BY RestLength
<1>4. P[n] \in Seq(Nat) /\ u \in Seq(Nat) /\ Len(units) = n
  <2>1. n \in 0 .. n
    OBVIOUS
  <2> QED BY <2>1, PrefixLoop
<1>5. x \in Nat /\ Len(packet) = x + z
  <2> HIDE DEF P
  <2>1. Len(c \o P[n]) = Len(c) + Len(P[n]) /\ Len(c) \in Nat
    BY ONLY c \in Seq(Nat), <1>4, Elements
  <2> QED BY <2>1 DEF P
<1>6. o = Len(packet) - w + 4
  BY <1>4, Zenon DEF Offset
<1> HIDE DEF P, f, u, x, y, z, w, o
<1>7. o = x + y + 4 /\ o \in Nat
  BY ONLY <1>3, <1>5, <1>6
<1>8. Drop(packet, o) = u \o r
  <2>1. u \o r \in Seq(Nat)
    BY ONLY <1>4, r \in Seq(Nat), Elements
  <2> DEFINE ur == u \o r
  <2> HIDE DEF ur
  <2>2. Drop(f \o ur, Len(f)) = ur
    BY ONLY <1>1, <2>1, DropFront, Zenon DEF ur
  <2>3. packet = f \o ur
    BY <1>2, Zenon DEF ur, P
  <2>4. o = Len(f)
    BY ONLY <1>1, <1>7, Zenon
  <2> QED BY ONLY <2>2, <2>3, <2>4, Zenon DEF ur
<1> QED BY <1>2, <1>3, <1>5, <1>7, <1>8, Zenon DEF P, u, x, y, z, o

(* The search finds each unit where it is, and nothing behind the last one. *)
LEMMA PacketLaid ==
  ASSUME NaluAssumption, PacketInv
  PROVE  Laid(Len(units))
<1>1. PICK n \in 1 .. Len(units) : units \in [1 .. n -> Stretches]
  BY DEF PacketInv
<1>2. PICK c \in Comments \union {<<>>} : packet = c \o AnnexBPacket(units)
  BY DEF PacketInv
<1> DEFINE P == Prefixes(units)
           L(k) == Len(P[k])
           U(k) == Len(units[k])
           x == Len(c)
<1>3. c \in Seq(Nat) /\ Codeless(c) /\ x \in Nat
  <2>1. Codeless(c)
    BY CommentCodeless
  <2> QED BY <2>1 DEF Codeless
<1>4. \A k \in 1 .. n : IsUnit(units[k]) /\ U(k) \in 1 .. SizeValues - 1
  BY <1>1, StretchIsUnit
<1>5. units \in [1 .. n -> Seq(Nat)]
  BY <1>1, <1>4 DEF IsUnit
<1>6. n \in Nat \ {0} /\ Len(units) = n
  <2>1. units \in Seq(Stretches) /\ Len(units) \in Nat
    <3> HIDE DEF P, L, U, x
    <3>1. CASE n \in Nat
      <4>1. units \in Seq(Stretches)
        BY ONLY <1>1, <3>1, SeqDef
      <4> QED BY ONLY <4>1, LenProperties
    <3> QED BY <1>1, <3>1
  <2>2. n \in Nat
    BY <2>1
  <2> QED BY <1>1, <2>1, <2>2, LenProperties
<1>7. packet = c \o P[n]
  BY <1>2, <1>6, Zenon DEF AnnexBPacket
<1>8. \A k \in 1 .. n : L(k) = L(k - 1) + 4 + U(k) /\ U(k) \in Nat
  <2>1. n \in Nat
    BY <1>6
  <2> QED BY ONLY <2>1, <1>5, PrefixLength, Zenon
<1>9. L(0) = 0 /\ P[0] = <<>>
  BY <1>5, <1>6, PrefixLoop, EmptySeq
<1>10. ASSUME NEW k \in 1 .. n
       PROVE  /\ Offset(k) = x + L(k - 1) + 4 /\ Offset(k) \in Nat
              /\ Len(packet) = x + L(n) /\ L(k - 1) \in Nat /\ L(n) \in Nat
              /\ \E r \in Seq(Nat) : Drop(packet, Offset(k)) = units[k] \o r /\ Rest(n, k, r)
  <2>1. n \in Nat /\ c \in Seq(Nat)
    BY <1>3, <1>6
  <2>2. k \in 1 .. n
    OBVIOUS
  <2> QED BY ONLY <2>1, <2>2, <1>5, <1>7, PacketAt, Zenon
<1> HIDE DEF P, L, U, x
<1>11. Offset(1) >= 4 /\ Find0001(packet) = Offset(1)
  <2>1. 1 \in 1 .. n /\ 1 - 1 = 0
    BY <1>6
  <2>2. Offset(1) = x + 4
    BY ONLY <1>3, <1>9, <1>10, <2>1
  <2>3. PICK r \in Seq(Nat) :
               c \o P[n] = Front(c, units, 1) \o (units[1] \o r) /\ Rest(n, 1, r)
    <3>1. c \in Seq(Nat) /\ n \in Nat
      BY <1>3, <1>6
    <3> QED BY ONLY <3>1, <1>5, <2>1, SplitPacket, Zenon DEF P
  <2> DEFINE t == units[1] \o r
  <2>4. t \in Seq(Nat)
    <3>1. units[1] \in Seq(Nat)
      BY <1>5, <2>1
    <3> QED BY ONLY <3>1, r \in Seq(Nat), Elements
  <2>5. c \o <<>> = c
    BY <1>3, ConcatEmptySeq
  <2> HIDE DEF t
  <2>6. Front(c, units, 1) = c \o StartCode
    BY ONLY <1>9, <2>1, <2>5, Zenon DEF Front, P
  <2>7. Assoc(c, StartCode, t)
    BY <1>3, <2>4, StartCodeType, Associative
  <2>8. packet = c \o (StartCode \o t)
    BY ONLY <1>7, <2>3, <2>6, <2>7, Zenon DEF Assoc, t
  <2>9. Find0001(packet) = x + 4
    BY ONLY <1>3, <2>4, <2>8, FindCode, Zenon DEF x
  <2> QED BY ONLY <1>3, <2>2, <2>9
<1>12. ASSUME NEW k \in 1 .. n - 1
       PROVE  Offset(k + 1) >= Offset(k) + 4 /\ Found(k) = Offset(k + 1) - Offset(k)
  <2>1. PICK i \in 1 .. n : i = k + 1 /\ i - 1 = k
    BY <1>6
  <2>2. k \in 1 .. n /\ k # n
    BY <1>6
  <2> DEFINE a == L(k - 1)
             b == L(k)
             m == U(k)
             u == units[k]
  <2>3. Offset(i) = x + b + 4 /\ Offset(k) = x + a + 4 /\ b = a + 4 + m /\ m \in Nat /\ a \in Nat
    BY <1>8, <1>10, <2>1, <2>2, Zenon
  <2>4. PICK r \in Seq(Nat) : Drop(packet, Offset(k)) = u \o r /\ Rest(n, k, r)
    BY <1>10, <2>2, Zenon
  <2>5. PICK t \in Seq(Nat) : r = StartCode \o t
    BY <2>2, <2>4, Zenon DEF Rest
  <2>6. IsUnit(u)
    BY <1>4, <2>2
  <2> HIDE DEF a, b, u
  <2>7. Find0001(u \o (StartCode \o t)) = Len(u) + 4
    BY ONLY <2>6, t \in Seq(Nat), FindBehind, Zenon
  <2>8. Found(k) = m + 4
    BY ONLY <2>4, <2>5, <2>7, Zenon DEF Found, U, u
  <2> HIDE DEF m
  <2>9. Offset(i) >= Offset(k) + 4 /\ Found(k) = Offset(i) - Offset(k)
    BY ONLY <1>3, <2>3, <2>8
  <2> QED BY ONLY <2>1, <2>9, Zenon
<1>13. /\ Found(n) = NotFound /\ Len(packet) - Offset(n) = Len(units[n])
       /\ Len(units[n]) \in 0 .. SizeValues - 1
  <2>1. n \in 1 .. n
    BY <1>6
  <2> DEFINE a == L(n - 1)
             b == L(n)
             m == U(n)
             u == units[n]
             l == Len(packet)
             o == Offset(n)
  <2>2. l = x + b /\ o = x + a + 4 /\ b = a + 4 + m /\ m \in Nat /\ a \in Nat
    BY <1>8, <1>10, <2>1, Zenon
  <2>3. PICK r \in Seq(Nat) : Drop(packet, o) = u \o r /\ Rest(n, n, r)
    BY <1>10, <2>1, Zenon
  <2>4. IsUnit(u) /\ m \in 1 .. SizeValues - 1
    BY <1>4, <2>1
  <2>5. u \o r = u
    BY <2>3, <2>4, ConcatEmptySeq DEF Rest, IsUnit
  <2>6. Found(n) = NotFound
    BY ONLY <2>3, <2>4, <2>5, FindNone, Zenon DEF Found, o
  <2> HIDE DEF a, b, m, l, o
  <2>7. l - o = m
    BY ONLY <1>3, <2>2
  <2>8. m \in 0 .. SizeValues - 1
    BY <2>4 DEF NaluAssumption
  <2> QED BY ONLY <2>6, <2>7, <2>8, Zenon DEF l, o, m, U
<1>14. \A k \in 1 .. n : Offset(k) \in Nat
  BY <1>10
<1> QED BY ONLY <1>6, <1>11, <1>12, <1>13, <1>14, Zenon DEF Laid

-----------------------------------------------------------------------------
(* The loop.                                                                 *)

LEMMA LoopInit == Init => LoopInv
<1> SUFFICES ASSUME Init PROVE LoopInv
  OBVIOUS
<1>1. PICK n \in Nat \ {0} : units \in [1 .. n -> Stretches]
  <2>1. CASE units \in [1 .. 1 -> FirstStretches]
    <3>1. units \in [1 .. 1 -> Stretches]
      BY <2>1 DEF FirstStretches
    <3> QED BY <3>1
  <2>2. CASE units \in UnitLists
    BY <2>2, NaluAssumption DEF UnitLists, NaluAssumption
  <2> QED BY <2>1, <2>2 DEF Init
<1>2. n \in 1 .. Len(units)
  <2>1. units \in Seq(Stretches)
    BY ONLY <1>1, SeqDef
  <2> QED BY <1>1, <2>1, LenProperties
<1>3. \E c \in Comments \union {<<>>} : packet = c \o AnnexBPacket(units)
  <2>1. CASE packet = AnnexBPacket(units)
    <3>1. n \in Nat /\ units \in [1 .. n -> Seq(Nat)]
      BY <1>1, NaluAssumption, StretchIsUnit DEF IsUnit
    <3>2. Len(units) = n /\ Prefixes(units) \in [0 .. n -> Seq(Nat)]
      BY ONLY <3>1, PrefixLoop, Zenon
    <3>3. AnnexBPacket(units) \in Seq(Nat)
      <4>1. n \in 0 .. n
        BY <3>1
      <4> QED BY ONLY <3>2, <4>1 DEF AnnexBPacket
    <3>4. <<>> \o AnnexBPacket(units) = AnnexBPacket(units)
      BY <3>3, ConcatEmptySeq
    <3> QED BY <2>1, <3>4
  <2> QED BY <2>1, Zenon DEF Init
<1> QED BY <1>1, <1>2, <1>3 DEF Init, LoopInv, PacketInv

(* The four bytes in front of a unit are written as the loop comes to the unit. *)
LEMMA RewriteStep ==
  ASSUME NaluAssumption, LoopInv, Rewrite
  PROVE  \E j \in 0 .. Len(units) : At(j)'
<1> DEFINE n == Len(units)
           O(k) == Offset(k)
<1>1. Laid(n)
  BY PacketLaid DEF LoopInv
<1>2. PICK j \in 0 .. n : At(j)
  BY DEF LoopInv, Rewrite
<1>3. /\ pd = IF j = 0 THEN 0 ELSE O(j)
      /\ pos_data = IF j = n THEN NotFound ELSE O(j + 1) - pd
      /\ DOMAIN sizes = {O(k) : k \in 1 .. j}
  BY <1>2 DEF At
<1>4. /\ n \in Nat \ {0} /\ \A k \in 1 .. n : O(k) \in Nat
      /\ \A k \in 1 .. n - 1 : Found(k) = O(k + 1) - O(k)
      /\ Found(n) = NotFound
      /\ Len(packet) - O(n) = Len(units[n]) /\ Len(units[n]) \in 0 .. SizeValues - 1
  BY <1>1 DEF Laid
<1>5. units' = units /\ packet' = packet
  BY DEF Rewrite
<1>6. \A k : Offset(k)' = Offset(k)
  BY <1>5 DEF Offset
<1>7. j # n
  BY <1>3 DEF Rewrite
<1>8. PICK i \in 1 .. n : i = j + 1
  BY <1>4, <1>7
<1>9. pd + pos_data = O(i)
  <2>1. j # 0 => j \in 1 .. n
    OBVIOUS
  <2> HIDE DEF O, n
  <2>2. O(i) \in Nat /\ (j # 0 => O(j) \in Nat)
    BY <1>4, <2>1
  <2>3. pos_data = O(i) - pd /\ pd \in Nat
    BY <1>3, <1>7, <1>8, <2>2
  <2> QED BY ONLY <2>2, <2>3
<1>10. /\ pd' = O(i) /\ pos_data' = Found(i)
       /\ sizes' = [m \in DOMAIN sizes \union {O(i)} |->
                     IF m = O(i)
                     THEN (IF Found(i) = NotFound THEN Len(packet) - O(i)
                           ELSE InnerSize(Found(i))) % SizeValues
                     ELSE sizes[m]]
  BY <1>9, Zenon DEF Rewrite, Found, LastSize
<1> HIDE DEF O
<1>11. pos_data' = IF i = n THEN NotFound ELSE O(i + 1) - O(i)
  BY <1>4, <1>10
<1>12. DOMAIN sizes' = {O(k) : k \in 1 .. i}
  <2>1. DOMAIN sizes' = {O(k) : k \in 1 .. j} \union {O(i)}
    BY ONLY <1>3, <1>10
  <2>2. 1 .. i = (1 .. j) \union {i}
    BY ONLY <1>4, <1>8, j \in 0 .. n
  <2> QED BY ONLY <2>1, <2>2
<1>13. i = n => sizes'[O(i)] = Len(units[n])
  <2> SUFFICES ASSUME i = n PROVE sizes'[O(i)] = Len(units[n])
    OBVIOUS
  <2> DEFINE l == Len(units[n])
             d == Len(packet) - O(n)
  <2>1. sizes'[O(i)] = d % SizeValues
    BY <1>4, <1>10
  <2>2. d = l /\ l \in 0 .. SizeValues - 1 /\ SizeValues \in Nat \ {0}
    BY <1>4 DEF NaluAssumption
  <2> HIDE DEF l, d
  <2>3. d % SizeValues = l
    BY ONLY <2>2
  <2> QED BY <2>1, <2>3 DEF l
<1>14. At(i)'
  <2>1. /\ pd' = IF i = 0 THEN 0 ELSE Offset(i)'
        /\ pos_data' = IF i = n THEN NotFound ELSE Offset(i + 1)' - pd'
        /\ DOMAIN sizes' = {Offset(k)' : k \in 1 .. i}
        /\ i = n => sizes'[Offset(i)'] = Len(units[n])
    BY <1>6, <1>8, <1>10, <1>11, <1>12, <1>13 DEF O
  <2> QED BY <1>5, <2>1, Zenon DEF At
<1> QED BY <1>5, <1>14

LEMMA LoopStep ==
  ASSUME NaluAssumption, LoopInv, [Next]_vars
  PROVE  LoopInv'
<1> DEFINE n == Len(units)
<1>1. units' = units /\ packet' = packet
  BY DEF Next, Announce, Refuse, FindFirst, Rewrite, Finish, vars, announceVars, loopVars
<1>2. \A k : Offset(k)' = Offset(k)
  BY <1>1 DEF Offset
<1>3. Laid(n)
  BY PacketLaid DEF LoopInv
<1>4. PacketInv'
  <2>1. PacketInv
    BY DEF LoopInv
  <2> QED BY ONLY <1>1, <2>1 DEF PacketInv, AnnexBPacket, Prefixes, Comments, FirstStretches
<1>5. (\E j \in 0 .. n : At(j)) /\ pd' = pd /\ pos_data' = pos_data /\ sizes' = sizes
        => \E j \in 0 .. Len(units') : At(j)'
  <2> SUFFICES ASSUME NEW j \in 0 .. n, At(j),
                      pd' = pd, pos_data' = pos_data, sizes' = sizes
               PROVE  At(j)'
    BY <1>1, Zenon
  <2> QED BY <1>1, <1>2 DEF At
<1>6. CASE UNCHANGED loopVars /\ (pc' = pc \/ (pc = "start" /\ pc' = "exit"))
  <2>1. /\ pc' \in {"start", "exit", "loop", "done"}
        /\ pc' \in {"start", "exit"} => pd' = 0 /\ sizes' = <<>>
        /\ pc' = "done" => pos_data' = NotFound
    BY <1>6 DEF LoopInv, loopVars
  <2>2. pc' \in {"loop", "done"} =>
          first_nalu' = Offset(1)' - 4 /\ \E j \in 0 .. Len(units') : At(j)'
    BY <1>2, <1>5, <1>6 DEF LoopInv, loopVars
  <2> QED BY <1>4, <2>1, <2>2, Zenon DEF LoopInv
<1>7. CASE FindFirst
  <2>1. pc' = "loop" /\ pd' = 0 /\ sizes' = <<>>
    BY <1>7 DEF FindFirst, LoopInv
  <2>2. pos_data' = Offset(1) /\ first_nalu' = Offset(1) - 4 /\ Offset(1) \in Nat
    BY <1>3, <1>7 DEF FindFirst, FirstNalu, Laid
  <2>3. At(0)'
    <3>1. n # 0
      BY <1>3 DEF Laid
    <3>2. DOMAIN sizes' = {Offset(k)' : k \in 1 .. 0}
      BY <2>1
    <3>3. pos_data' = Offset(0 + 1)' - pd'
      BY <1>2, <2>1, <2>2
    <3> QED BY <1>1, <2>1, <3>1, <3>2, <3>3, Zenon DEF At
  <2>4. 0 \in 0 .. Len(units')
    BY <1>1, <1>3 DEF Laid
  <2>5. first_nalu' = Offset(1)' - 4
    BY <1>2, <2>2
  <2> QED BY <1>4, <2>1, <2>3, <2>4, <2>5, Zenon DEF LoopInv
<1>8. CASE Rewrite
  <2>1. \E j \in 0 .. Len(units') : At(j)'
    BY <1>1, <1>8, RewriteStep
  <2>2. pc' = "loop" /\ first_nalu' = Offset(1)' - 4
    BY <1>2, <1>8 DEF Rewrite, LoopInv
  <2> QED BY <1>4, <2>1, <2>2, Zenon DEF LoopInv
<1>9. CASE Finish
  <2>1. pc' = "done" /\ pos_data' = NotFound /\ first_nalu' = Offset(1)' - 4
    BY <1>2, <1>9 DEF Finish, LoopInv, loopVars
  <2>2. \E j \in 0 .. Len(units') : At(j)'
    BY <1>5, <1>9 DEF Finish, LoopInv, loopVars
  <2> QED BY <1>4, <2>1, <2>2, Zenon DEF LoopInv
<1>10. CASE Announce
  BY <1>6, <1>10 DEF Announce
<1>11. CASE Refuse
  BY <1>6, <1>11 DEF Refuse
<1>12. CASE UNCHANGED vars
  BY <1>6, <1>12 DEF vars
<1> QED BY <1>7, <1>8, <1>9, <1>10, <1>11, <1>12 DEF Next

(* Nothing is left to find only behind the last unit. *)
LEMMA LoopEnd ==
  ASSUME NaluAssumption, LoopInv, pc = "done", NEW j \in 0 .. Len(units), At(j)
  PROVE  j = Len(units)
<1> SUFFICES ASSUME j # Len(units) PROVE FALSE
  OBVIOUS
<1> DEFINE n == Len(units)
           O(k) == Offset(k)
<1>1. /\ n \in Nat \ {0} /\ \A k \in 1 .. n : O(k) \in Nat
      /\ O(1) >= 4 /\ \A k \in 1 .. n - 1 : O(k + 1) >= O(k) + 4
  BY PacketLaid DEF LoopInv, Laid
<1>2. /\ pd = IF j = 0 THEN 0 ELSE O(j)
      /\ O(j + 1) - pd = -1
  BY DEF At, LoopInv, NotFound
<1> HIDE DEF O, n
<1>3. CASE j = 0
  <2>1. 0 + 1 = 1 /\ 1 \in 1 .. n
    BY <1>1
  <2>2. O(1) - 0 = -1 /\ O(1) \in Nat
    BY ONLY <1>1, <1>2, <1>3, <2>1
  <2> QED BY <1>1, <2>2
<1>4. CASE j # 0
  <2>1. j \in 1 .. n - 1 /\ j \in 1 .. n /\ j + 1 \in 1 .. n
    BY <1>1, <1>4 DEF n
  <2>2. O(j + 1) - O(j) = -1 /\ O(j + 1) \in Nat /\ O(j) \in Nat /\ O(j + 1) >= O(j) + 4
    BY ONLY <1>1, <1>2, <1>4, <2>1
  <2> QED BY ONLY <2>2
<1> QED BY <1>3, <1>4

(* Where the loop is: it has passed some of the units, one by one, and stands  *)
(* on the last of them when it ends.                                           *)
THEOREM LoopInvariant == Spec => []LoopInv
BY NaluAssumption, LoopInit, LoopStep, PTL DEF Spec

(* The loop that rewrites a packet finds every long start code and nothing     *)
(* else: no byte of a unit and no short code is overwritten, for packets of    *)
(* any number of stretches of any length.                                     *)
THEOREM EveryUnitFound == Spec => []UnitsFound
<1>1. LoopInv => UnitsFound
  <2> SUFFICES ASSUME LoopInv PROVE UnitsFound
    OBVIOUS
  <2>1. CASE pc \in {"loop", "done"}
    <3>1. PICK j \in 0 .. Len(units) : At(j)
      BY <2>1 DEF LoopInv
    <3>2. Laid(Len(units))
      BY NaluAssumption, PacketLaid DEF LoopInv
    <3>3. pc = "done" => j = Len(units)
      BY LoopEnd, NaluAssumption, <3>1
    <3>4. DOMAIN sizes = {Offset(k) : k \in 1 .. j}
      BY <3>1 DEF At
    <3>5. Len(units) \in Nat
      BY <3>2 DEF Laid
    <3> QED BY <3>3, <3>4, <3>5 DEF UnitsFound, UnitOffsets
  <2>2. CASE pc \in {"start", "exit"}
    BY <2>2 DEF LoopInv, UnitsFound
  <2> QED BY <2>1, <2>2 DEF LoopInv
<1> QED BY LoopInvariant, <1>1, PTL

(* The last long start code, the only one of most packets, becomes the size of *)
(* all that stands behind it, be it one unit or several.                      *)
THEOREM LastIsMarked == Spec => []LastUnitMarked
<1>1. LoopInv => LastUnitMarked
  <2> SUFFICES ASSUME LoopInv, pc = "done"
               PROVE  sizes[Offset(Len(units))] = Len(units[Len(units)])
    BY DEF LastUnitMarked
  <2>1. PICK j \in 0 .. Len(units) : At(j)
    BY DEF LoopInv
  <2>2. j = Len(units)
    BY LoopEnd, NaluAssumption, <2>1
  <2> QED BY <2>1, <2>2 DEF At
<1> QED BY LoopInvariant, <1>1, PTL

(* What is sent of a packet begins with the size field of its first unit: the  *)
(* comment of the encoder is cut off, whatever its bytes, and nothing else.    *)
THEOREM CommentCutOff == Spec => []SentFromFirstUnit
<1>1. LoopInv => SentFromFirstUnit
  BY DEF LoopInv, SentFromFirstUnit
<1> QED BY LoopInvariant, <1>1, PTL
=============================================================================
