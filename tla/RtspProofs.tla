----------------------------- MODULE RtspProofs -----------------------------
(***************************************************************************)
(* The reader of the RTSP client, for bodies of every length, recv calls   *)
(* of every size and any number of requests.                               *)
(***************************************************************************)
EXTENDS Rtsp, TLAPS, SequenceTheorems, WellFoundedInduction

-----------------------------------------------------------------------------
(* Natural numbers: a least element, and induction over a set.               *)

LEMMA LeastElement ==
  ASSUME NEW S \in SUBSET Nat, S # {}
  PROVE  \E i \in S : \A j \in S : i <= j
<1> DEFINE R == {ss \in Nat \X Nat : ss[1] < ss[2]}
<1>1. IsWellFoundedOn(R, Nat)
  BY NatLessThanWellFounded DEF OpToRel
<1>2. PICK i \in S : \A j \in S : ~(<<j, i>> \in R)
  <2> HIDE DEF R
  <2> QED BY <1>1, WFMin
<1>3. ASSUME NEW j \in S PROVE i <= j
  <2>1. <<j, i>> \in Nat \X Nat /\ <<j, i>>[1] = j /\ <<j, i>>[2] = i
    OBVIOUS
  <2>2. ~(j < i)
    BY <1>2, <2>1
  <2> QED BY <2>2
<1> QED BY <1>3

LEMMA SetInduction ==
  ASSUME NEW S, 0 \in S, \A n \in S \cap Nat : n + 1 \in S
  PROVE  Nat \subseteq S
<1> SUFFICES ASSUME Nat \ S # {} PROVE FALSE
  OBVIOUS
<1>1. PICK m \in Nat \ S : \A j \in Nat \ S : m <= j
  BY LeastElement
<1>2. m - 1 \in Nat /\ m = (m - 1) + 1
  BY <1>1
<1>3. m - 1 \in S
  BY <1>1, <1>2
<1> QED BY <1>1, <1>2, <1>3

LEMMA MinIs ==
  ASSUME NEW S \in SUBSET Nat, S # {}
  PROVE  Min(S) \in S /\ \A j \in S : Min(S) <= j
<1>1. \E i \in S : \A j \in S : i <= j
  BY LeastElement
<1>2. Min(S) = CHOOSE i \in S : \A j \in S : i <= j
  BY DEF Min
<1> QED BY <1>1, <1>2

-----------------------------------------------------------------------------
(* The lines of a chunk.                                                     *)

(* Where a line ends. *)
Stops(s) == {i \in 1 .. Len(s) : s[i] = "LF" \/ i = Len(s)}

(* e lists the members of S in their order. *)
Lists(e, S) ==
  /\ e \in Seq(Nat)
  /\ \A k \in 1 .. Len(e) : e[k] \in S
  /\ \A k \in 1 .. Len(e), l \in 1 .. Len(e) : k < l => e[k] < e[l]
  /\ \A x \in S : \E k \in 1 .. Len(e) : e[k] = x

LEMMA ListsNone == Lists(<<>>, {})
BY DEF Lists

LEMMA ListsMore ==
  ASSUME NEW S \in SUBSET Nat, NEW e, Lists(e, S), NEW x \in Nat, \A y \in S : y < x
  PROVE  Lists(Append(e, x), S \cup {x})
<1> DEFINE n == Len(e)
           f == Append(e, x)
<1>1. /\ n \in Nat /\ f \in Seq(Nat) /\ Len(f) = n + 1
      /\ \A k \in 1 .. n : f[k] = e[k]
      /\ f[n + 1] = x
  BY AppendProperties DEF Lists
<1>2. /\ \A k \in 1 .. n : e[k] \in S
      /\ \A k \in 1 .. n, l \in 1 .. n : k < l => e[k] < e[l]
      /\ \A y \in S : \E k \in 1 .. n : e[k] = y
  BY DEF Lists
<1> HIDE DEF n, f
<1>3. ASSUME NEW k \in 1 .. n + 1 PROVE f[k] \in S \cup {x}
  BY <1>1, <1>2
<1>4. ASSUME NEW k \in 1 .. n + 1, NEW l \in 1 .. n + 1, k < l PROVE f[k] < f[l]
  <2>1. k \in 1 .. n /\ f[k] = e[k]
    BY <1>1, <1>4
  <2>2. CASE l \in 1 .. n
    BY <1>1, <1>2, <1>4, <2>1, <2>2
  <2>3. CASE l = n + 1
    BY <1>1, <1>2, <2>1, <2>3
  <2> QED BY <1>1, <2>2, <2>3
<1>5. ASSUME NEW y \in S \cup {x} PROVE \E k \in 1 .. n + 1 : f[k] = y
  <2>1. CASE y = x
    BY <1>1, <2>1
  <2>2. CASE y \in S
    <3>1. PICK k \in 1 .. n : e[k] = y
      BY <1>2, <2>2
    <3>2. k \in 1 .. n + 1 /\ f[k] = y
      BY <1>1, <3>1
    <3> QED BY <3>2
  <2> QED BY <2>1, <2>2
<1>6. f \in Seq(Nat) /\ Len(f) = n + 1
  BY <1>1
<1>7. Lists(f, S \cup {x})
  BY <1>3, <1>4, <1>5, <1>6 DEF Lists
<1> QED BY <1>7 DEF f

(* What Ends makes of the first i words. *)
EndsStep(s, f, i) ==
  IF i = 0 THEN <<>>
  ELSE IF s[i] = "LF" \/ i = Len(s) THEN Append(f[i - 1], i) ELSE f[i - 1]

LEMMA EndsLoop ==
  ASSUME NEW s, NEW N \in Nat, Len(s) = N
  PROVE  \E f : /\ \A i \in 0 .. N : f[i] = EndsStep(s, f, i)
                /\ Ends(s) = f[N]
<1> DEFINE Steps(f, n) == \A i \in 0 .. n : f[i] = EndsStep(s, f, i)
           Done(n) == {f \in [0 .. n -> Seq(Nat)] : Steps(f, n)}
           S == {n \in Nat : Done(n) # {}}
<1>1. 0 \in S
  <2> DEFINE f0 == [i \in 0 .. 0 |-> <<>>]
  <2>1. f0 \in Done(0)
    BY DEF EndsStep
  <2> QED BY <2>1
<1>2. ASSUME NEW n \in Nat, n \in S PROVE n + 1 \in S
  <2>1. PICK f \in Done(n) : TRUE
    BY <1>2
  <2> DEFINE g == [i \in 0 .. n + 1 |-> IF i = n + 1 THEN EndsStep(s, f, i) ELSE f[i]]
  <2>2. f \in [0 .. n -> Seq(Nat)] /\ Steps(f, n)
    BY <2>1
  <2>3. EndsStep(s, f, n + 1) \in Seq(Nat)
    <3>1. f[(n + 1) - 1] \in Seq(Nat) /\ n + 1 \in Nat
      BY <2>2
    <3>2. Append(f[(n + 1) - 1], n + 1) \in Seq(Nat)
      BY <3>1, AppendProperties
    <3> QED BY <3>1, <3>2 DEF EndsStep
  <2>4. g \in [0 .. n + 1 -> Seq(Nat)]
    BY <2>2, <2>3
  <2>5. Steps(g, n + 1)
    <3> SUFFICES ASSUME NEW i \in 0 .. n + 1 PROVE g[i] = EndsStep(s, g, i)
      OBVIOUS
    <3>1. i # 0 => g[i - 1] = f[i - 1]
      OBVIOUS
    <3>2. EndsStep(s, g, i) = EndsStep(s, f, i)
      BY <3>1 DEF EndsStep
    <3>3. g[i] = EndsStep(s, f, i)
      <4> HIDE DEF EndsStep
      <4> QED BY <2>2
    <3> QED BY <3>2, <3>3
  <2>6. g \in Done(n + 1)
    BY <2>4, <2>5
  <2> HIDE DEF g, Done
  <2> QED BY <2>6
<1>3. Nat \subseteq S
  <2> HIDE DEF S
  <2>1. \A n \in S \cap Nat : n + 1 \in S
    BY <1>2
  <2> QED BY ONLY <1>1, <2>1, SetInduction
<1>4. PICK f \in [0 .. N -> Seq(Nat)] : Steps(f, N)
  BY <1>3
<1> DEFINE Loop(h) == [i \in 0 .. Len(s) |->
                         IF i = 0 THEN <<>>
                         ELSE IF s[i] = "LF" \/ i = Len(s) THEN Append(h[i - 1], i)
                         ELSE h[i - 1]]
<1>5. f = Loop(f)
  BY <1>4 DEF EndsStep
<1> DEFINE h == CHOOSE x : x = Loop(x)
<1>6. Ends(s) = h[Len(s)]
  BY DEF Ends
<1>7. h = Loop(h)
  <2> HIDE DEF Loop
  <2> QED BY <1>5
<1> HIDE DEF h
<1>8. \A i \in 0 .. N : h[i] = EndsStep(s, h, i)
  <2> SUFFICES ASSUME NEW i \in 0 .. N PROVE h[i] = EndsStep(s, h, i)
    OBVIOUS
  <2>1. Loop(h)[i] = EndsStep(s, h, i)
    BY DEF EndsStep
  <2> QED BY <1>7, <2>1
<1> QED BY <1>6, <1>8

LEMMA EndsStops ==
  ASSUME NEW s, NEW N \in Nat, Len(s) = N
  PROVE  Lists(Ends(s), Stops(s))
<1>1. PICK f : (\A i \in 0 .. N : f[i] = EndsStep(s, f, i)) /\ Ends(s) = f[N]
  BY EndsLoop
<1> DEFINE Upto(n) == {i \in Stops(s) : i <= n}
           T == {n \in Nat : n <= N => Lists(f[n], Upto(n))}
<1>2. 0 \in T
  <2>1. f[0] = <<>>
    BY <1>1 DEF EndsStep
  <2>2. Upto(0) = {}
    BY DEF Stops
  <2>3. Lists(f[0], Upto(0))
    <3> HIDE DEF Upto
    <3> QED BY <2>1, <2>2, ListsNone
  <2> QED BY <2>3
<1>3. ASSUME NEW n \in Nat, n \in T PROVE n + 1 \in T
  <2> SUFFICES ASSUME n + 1 <= N PROVE Lists(f[n + 1], Upto(n + 1))
    OBVIOUS
  <2>1. Lists(f[n], Upto(n))
    BY <1>3
  <2>2. n + 1 \in 0 .. N /\ n + 1 # 0 /\ (n + 1) - 1 = n
    OBVIOUS
  <2>3. f[n + 1] = IF n + 1 \in Stops(s) THEN Append(f[n], n + 1) ELSE f[n]
    BY <1>1, <2>2 DEF EndsStep, Stops
  <2>4. Upto(n) \subseteq Nat /\ \A y \in Upto(n) : y < n + 1
    BY DEF Stops
  <2>5. Upto(n + 1) = IF n + 1 \in Stops(s) THEN Upto(n) \cup {n + 1} ELSE Upto(n)
    BY DEF Stops
  <2> HIDE DEF Upto
  <2>6. CASE n + 1 \in Stops(s)
    <3>1. Lists(Append(f[n], n + 1), Upto(n) \cup {n + 1})
      BY <2>1, <2>4, ListsMore
    <3> QED BY <2>3, <2>5, <2>6, <3>1
  <2>7. CASE n + 1 \notin Stops(s)
    BY <2>1, <2>3, <2>5, <2>7
  <2> QED BY <2>6, <2>7
<1>4. Nat \subseteq T
  <2> HIDE DEF T
  <2>1. \A n \in T \cap Nat : n + 1 \in T
    BY <1>3
  <2> QED BY ONLY <1>2, <2>1, SetInduction
<1>5. Lists(f[N], Upto(N))
  BY <1>4
<1>6. Upto(N) = Stops(s)
  BY DEF Stops
<1> QED BY <1>1, <1>5, <1>6

LEMMA Slice ==
  ASSUME NEW S, NEW s \in Seq(S), NEW a \in Nat \ {0}, NEW b \in Nat, a <= b + 1, b <= Len(s)
  PROVE  /\ SubSeq(s, a, b) \in Seq(S) /\ Len(SubSeq(s, a, b)) = b + 1 - a
         /\ \A i \in 1 .. b + 1 - a : SubSeq(s, a, b)[i] = s[a + i - 1]
<1>1. Len(s) \in Nat /\ \A i \in 1 .. Len(s) : s[i] \in S
  BY LenProperties, ElementOfSeq
<1>2. \A i \in a .. b : s[i] \in S
  BY <1>1
<1>3. a \in Int /\ b \in Int
  OBVIOUS
<1>4. /\ SubSeq(s, a, b) \in Seq(S)
      /\ Len(SubSeq(s, a, b)) = IF a <= b THEN b - a + 1 ELSE 0
      /\ \A i \in 1 .. b - a + 1 : SubSeq(s, a, b)[i] = s[a + i - 1]
  BY ONLY <1>2, <1>3, SubSeqProperties
<1>5. b - a + 1 = b + 1 - a /\ (IF a <= b THEN b - a + 1 ELSE 0) = b + 1 - a
  OBVIOUS
<1> QED BY <1>4, <1>5

(* Where the k-th line begins. *)
Start(e, k) == IF k = 1 THEN 1 ELSE e[k - 1] + 1

(* A line ends at a stop and has no other; what blank means for its words. *)
LEMMA LineOf ==
  ASSUME NEW S, NEW s \in Seq(S), NEW e, e = Ends(s), NEW k \in 1 .. Len(e), NEW b, b = Start(e, k)
  PROVE  /\ e[k] \in Stops(s) /\ b \in 1 .. e[k]
         /\ \A i \in b .. e[k] - 1 : i \notin Stops(s)
         /\ Lines(s)[k] = SubSeq(s, b, e[k])
         /\ Blank(Lines(s)[k]) <=> \A i \in b .. e[k] : s[i] \in White
<1> DEFINE n == Len(e)
           N == Len(s)
<1>1. N \in Nat
  BY LenProperties
<1>2. Lists(e, Stops(s))
  BY <1>1, EndsStops
<1>3. n \in Nat /\ k \in 1 .. n /\ \A l \in 1 .. n : e[l] \in Stops(s)
  BY <1>2, LenProperties DEF Lists
<1>4. \A l \in 1 .. n : e[l] \in 1 .. N
  BY <1>3 DEF Stops
<1>5. \A l \in 1 .. n, m \in 1 .. n : l < m => e[l] < e[m]
  BY <1>2 DEF Lists
<1>6. \A x \in Stops(s) : \E l \in 1 .. n : e[l] = x
  BY <1>2 DEF Lists
<1>7. DOMAIN e = 1 .. n
  BY <1>2, LenProperties DEF Lists
<1> HIDE DEF n, N
<1>8. b \in 1 .. e[k]
  <2>1. CASE k = 1
    BY <2>1, <1>3, <1>4 DEF Start
  <2>2. CASE k # 1
    <3>1. k - 1 \in 1 .. n /\ k - 1 < k
      BY <1>3, <2>2
    <3>2. e[k - 1] < e[k] /\ e[k - 1] \in 1 .. N /\ e[k] \in 1 .. N
      BY <1>3, <1>4, <1>5, <3>1
    <3> QED BY <3>2, <2>2, <1>1 DEF Start
  <2> QED BY <2>1, <2>2
<1>9. ASSUME NEW i \in b .. e[k] - 1 PROVE i \notin Stops(s)
  <2> SUFFICES ASSUME i \in Stops(s) PROVE FALSE
    OBVIOUS
  <2>1. PICK l \in 1 .. n : e[l] = i
    BY <1>6
  <2>2. e[k] \in Nat /\ i \in Nat /\ b <= i /\ i < e[k]
    BY <1>3, <1>4, <1>8
  <2>3. ~(k <= l)
    BY <1>3, <1>5, <2>1, <2>2
  <2>4. k # 1 /\ k - 1 \in 1 .. n /\ l <= k - 1
    BY <2>3, <1>3
  <2>5. i <= e[k - 1] /\ e[k - 1] \in Nat
    BY <1>4, <1>5, <2>1, <2>2, <2>4
  <2> QED BY <2>2, <2>4, <2>5 DEF Start
<1>10. Lines(s)[k] = SubSeq(s, b, e[k])
  BY <1>3, <1>7 DEF Lines, Start
<1>11. Blank(Lines(s)[k]) <=> \A i \in b .. e[k] : s[i] \in White
  <2> DEFINE c == e[k]
             y == SubSeq(s, b, c)
  <2>1. c \in Nat /\ b \in Nat \ {0} /\ b <= c + 1 /\ c <= Len(s)
    BY <1>1, <1>3, <1>4, <1>8 DEF N
  <2>2. y \in Seq(S) /\ Len(y) = c + 1 - b /\ \A i \in 1 .. c + 1 - b : y[i] = s[b + i - 1]
    <3> HIDE DEF c
    <3> QED BY ONLY <2>1, s \in Seq(S), Slice
  <2>3. DOMAIN y = 1 .. c + 1 - b
    BY <2>2, LenProperties
  <2>4. Blank(y) <=> \A i \in 1 .. c + 1 - b : s[b + i - 1] \in White
    <3> HIDE DEF y, c
    <3> QED BY <2>2, <2>3 DEF Blank
  <2> HIDE DEF y, c
  <2>5. ASSUME \A i \in 1 .. c + 1 - b : s[b + i - 1] \in White, NEW i \in b .. c
        PROVE  s[i] \in White
    <3>1. i - b + 1 \in 1 .. c + 1 - b /\ b + (i - b + 1) - 1 = i
      BY <2>1
    <3> QED BY <2>5, <3>1
  <2>6. ASSUME \A i \in b .. c : s[i] \in White, NEW i \in 1 .. c + 1 - b
        PROVE  s[b + i - 1] \in White
    <3>1. b + i - 1 \in b .. c
      BY <2>1
    <3> QED BY <2>6, <3>1
  <2> QED BY <1>10, <2>4, <2>5, <2>6 DEF y, c
<1>12. e[k] \in Stops(s)
  BY <1>3
<1> QED BY <1>8, <1>9, <1>10, <1>11, <1>12

(* A line with a word in it is not blank. *)
LEMMA FilledLine ==
  ASSUME NEW S, NEW s \in Seq(S), NEW k \in 1 .. Len(Ends(s)), Filled(s, Ends(s)[k])
  PROVE  ~Blank(Lines(s)[k])
<1> DEFINE e == Ends(s)
           b == Start(e, k)
           c == e[k]
<1>1. /\ c \in Stops(s) /\ b \in 1 .. c /\ \A i \in b .. c - 1 : i \notin Stops(s)
      /\ Blank(Lines(s)[k]) <=> \A i \in b .. c : s[i] \in White
  BY LineOf
<1>2. PICK j \in 1 .. c - 1 : s[j] \notin White /\ \A l \in j .. c - 1 : s[l] # "LF"
  BY DEF Filled
<1>3. Len(s) \in Nat /\ c \in 1 .. Len(s) /\ k \in Nat /\ Len(e) \in Nat
  <2>1. Lists(e, Stops(s))
    BY EndsStops, LenProperties
  <2> QED BY <1>1, <2>1, LenProperties DEF Stops, Lists
<1>4. j \in b .. c
  <2>1. CASE k = 1
    BY <2>1, <1>2, <1>3 DEF Start
  <2>2. CASE k # 1
    <3> DEFINE a == e[k - 1]
    <3>1. a \in Stops(s) /\ b = a + 1
      <4>1. k - 1 \in 1 .. Len(e)
        BY <1>3, <2>2
      <4>2. Lists(e, Stops(s))
        BY EndsStops, <1>3
      <4> QED BY <4>1, <4>2, <2>2 DEF Lists, Start
    <3> HIDE DEF a, b, c, e
    <3>2. a \in 1 .. Len(s) /\ a < c /\ a # Len(s)
      BY <1>1, <1>3, <3>1 DEF Stops
    <3>3. s[a] = "LF"
      BY <3>1, <3>2 DEF Stops
    <3>4. a < j
      BY <1>2, <1>3, <3>2, <3>3
    <3> QED BY <1>2, <1>3, <3>1, <3>2, <3>4
  <2> QED BY <2>1, <2>2
<1> QED BY <1>1, <1>2, <1>4

-----------------------------------------------------------------------------
(* What the reader makes of a chunk.                                         *)

BlankLines(s) == {k \in DOMAIN Lines(s) : Blank(Lines(s)[k])}
LastRead(s) == IF BlankLines(s) = {} THEN Len(s) ELSE Ends(s)[Min(BlankLines(s))]

LEMMA TakeIs ==
  ASSUME NEW s
  PROVE  /\ Take(s).done <=> BlankLines(s) # {}
         /\ Take(s).rest = SubSeq(s, LastRead(s) + 1, Len(s))
         /\ Take(s).cut <=> s[LastRead(s)] # "LF"
BY DEF Take, BlankLines, LastRead

LEMMA LineNumbers ==
  ASSUME NEW S, NEW s \in Seq(S)
  PROVE  /\ Lists(Ends(s), Stops(s)) /\ Ends(s) \in Seq(Nat) /\ Len(Ends(s)) \in Nat
         /\ DOMAIN Lines(s) = 1 .. Len(Ends(s))
         /\ BlankLines(s) \subseteq Nat
<1>1. Lists(Ends(s), Stops(s))
  BY EndsStops, LenProperties
<1>2. Ends(s) \in Seq(Nat) /\ Len(Ends(s)) \in Nat /\ DOMAIN Ends(s) = 1 .. Len(Ends(s))
  BY <1>1, LenProperties DEF Lists
<1>3. DOMAIN Lines(s) = DOMAIN Ends(s)
  BY DEF Lines
<1>4. BlankLines(s) \subseteq Nat
  BY <1>2, <1>3 DEF BlankLines
<1> QED BY <1>1, <1>2, <1>3, <1>4

(* A blank line that ends the headers within the chunk is found. *)
LEMMA HeadFound ==
  ASSUME NEW S, NEW s \in Seq(S), NEW z, HeadEnds(s, z)
  PROVE  Take(s).done /\ ~Take(s).cut /\ Take(s).rest = SubSeq(s, z + 1, Len(s))
<1> DEFINE e == Ends(s)
           n == Len(e)
<1>1. /\ Lists(e, Stops(s)) /\ n \in Nat /\ DOMAIN Lines(s) = 1 .. n
      /\ BlankLines(s) \subseteq Nat
  BY LineNumbers
<1>2. /\ \A k \in 1 .. n : e[k] \in Stops(s)
      /\ \A k \in 1 .. n, l \in 1 .. n : k < l => e[k] < e[l]
      /\ \A x \in Stops(s) : \E k \in 1 .. n : e[k] = x
  BY <1>1 DEF Lists
<1>3. /\ Len(s) \in Nat /\ z \in 2 .. Len(s) /\ s[z - 1] = "CR" /\ s[z] = "LF"
      /\ z = 2 \/ s[z - 2] = "LF"
      /\ \A i \in 1 .. z - 1 : s[i] = "LF" => Filled(s, i)
  BY LenProperties DEF HeadEnds
<1>4. PICK q \in 1 .. n : e[q] = z
  <2>1. z \in Stops(s)
    BY <1>3 DEF Stops
  <2> QED BY <1>2, <2>1
<1> DEFINE b == Start(e, q)
<1>5. b \in 1 .. z /\ (Blank(Lines(s)[q]) <=> \A i \in b .. z : s[i] \in White)
  BY <1>4, LineOf
<1>6. \A k \in 1 .. n : e[k] \in 1 .. Len(s)
  BY <1>2 DEF Stops
<1> HIDE DEF n, e
<1>7. z - 1 <= b
  <2>1. CASE z = 2
    BY <1>5, <2>1
  <2>2. CASE z # 2
    <3>1. z - 2 \in Stops(s)
      BY <1>3, <2>2 DEF Stops
    <3>2. PICK m \in 1 .. n : e[m] = z - 2
      BY <1>2, <3>1
    <3>3. ~(q <= m)
      BY <1>1, <1>2, <1>3, <1>4, <3>2
    <3>4. q # 1 /\ q - 1 \in 1 .. n /\ m <= q - 1
      BY <1>1, <3>3
    <3>5. z - 2 <= e[q - 1] /\ e[q - 1] \in Nat
      BY <1>2, <1>3, <1>6, <3>2, <3>4
    <3>6. b = e[q - 1] + 1
      BY <3>4 DEF Start
    <3> QED BY <1>3, <3>5, <3>6
  <2> QED BY <2>1, <2>2
<1>8. Blank(Lines(s)[q])
  <2> SUFFICES ASSUME NEW i \in b .. z PROVE s[i] \in White
    BY <1>5
  <2>1. i = z - 1 \/ i = z
    BY <1>3, <1>5, <1>7
  <2> QED BY <1>3, <2>1 DEF White
<1>9. q \in BlankLines(s)
  BY <1>1, <1>8 DEF BlankLines
<1>10. Min(BlankLines(s)) \in BlankLines(s) /\ Min(BlankLines(s)) <= q
  BY <1>1, <1>9, MinIs
<1> DEFINE m == Min(BlankLines(s))
<1>11. m = q
  <2> SUFFICES ASSUME m # q PROVE FALSE
    OBVIOUS
  <2>1. m \in 1 .. n /\ Blank(Lines(s)[m]) /\ m < q
    BY <1>1, <1>10 DEF BlankLines
  <2>2. e[m] < z /\ e[m] \in Stops(s) /\ e[m] \in 1 .. Len(s)
    BY <1>2, <1>4, <1>6, <2>1
  <2>3. s[e[m]] = "LF"
    BY <1>3, <2>2 DEF Stops
  <2>4. e[m] \in 1 .. z - 1
    BY <1>3, <2>2
  <2>5. Filled(s, e[m])
    BY <1>3, <2>3, <2>4
  <2> HIDE DEF m
  <2>6. ~Blank(Lines(s)[m])
    BY <2>1, <2>5, FilledLine DEF n, e
  <2> QED BY <2>1, <2>6
<1>12. LastRead(s) = z
  BY <1>4, <1>9, <1>11 DEF LastRead, e
<1> QED BY <1>3, <1>9, <1>12, TakeIs

(* Without one, all of a chunk that does not end with a blank half of a line is *)
(* headers.                                                                    *)
LEMMA HeadGoesOn ==
  ASSUME NEW S, NEW s \in Seq(S), s # <<>>, ~(Take(s).cut /\ Take(s).done),
         \A i \in 1 .. Len(s) : s[i] = "LF" => Filled(s, i)
  PROVE  ~Take(s).done /\ Take(s).rest = <<>> /\ (Take(s).cut <=> s[Len(s)] # "LF")
<1>2. BlankLines(s) = {}
  <2> SUFFICES ASSUME BlankLines(s) # {} PROVE FALSE
    OBVIOUS
  <2> DEFINE m == Min(BlankLines(s))
  <2>1. m \in BlankLines(s)
    BY LineNumbers, MinIs
  <2>2. m \in 1 .. Len(Ends(s)) /\ Blank(Lines(s)[m])
    BY <2>1, LineNumbers DEF BlankLines
  <2>3. LastRead(s) = Ends(s)[m]
    BY DEF LastRead
  <2>4. Ends(s)[m] \in 1 .. Len(s)
    BY <2>2, LineNumbers DEF Lists, Stops
  <2>5. s[LastRead(s)] = "LF"
    BY TakeIs
  <2>6. Filled(s, Ends(s)[m])
    BY <2>3, <2>4, <2>5
  <2> HIDE DEF m
  <2> QED BY <2>2, <2>6, FilledLine
<1>3. LastRead(s) = Len(s) /\ Len(s) \in Nat
  BY <1>2, LenProperties DEF LastRead
<1>4. SubSeq(s, Len(s) + 1, Len(s)) = <<>>
  <2>1. Len(s) + 1 \in Int /\ Len(s) \in Int /\ Len(s) < Len(s) + 1
    BY <1>3
  <2> QED BY ONLY <2>1, SubSeqEmpty
<1> QED BY <1>2, <1>3, <1>4, TakeIs

-----------------------------------------------------------------------------
(* The stream, as it is received piece by piece.                             *)

(* The same words up to a place have the same lines up to it. *)
LEMMA FilledFront ==
  ASSUME NEW s, NEW t, NEW n \in Nat, \A i \in 1 .. n : t[i] = s[i], NEW i \in 1 .. n + 1,
         Filled(s, i)
  PROVE  Filled(t, i)
<1>1. PICK j \in 1 .. i - 1 : s[j] \notin White /\ \A l \in j .. i - 1 : s[l] # "LF"
  BY DEF Filled
<1>2. \A l \in 1 .. i - 1 : t[l] = s[l]
  OBVIOUS
<1>3. t[j] \notin White
  BY <1>1, <1>2
<1>4. ASSUME NEW l \in j .. i - 1 PROVE t[l] # "LF"
  BY <1>1, <1>2
<1> QED BY <1>3, <1>4 DEF Filled

LEMMA HeadFront ==
  ASSUME NEW S, NEW s \in Seq(S), NEW n \in 1 .. Len(s), NEW c \in Seq(S), Len(c) = n,
         \A i \in 1 .. n : c[i] = s[i], NEW z, HeadEnds(s, z), z <= n
  PROVE  HeadEnds(c, z)
<1>1. Len(s) \in Nat
  BY LenProperties
<1>2. /\ z \in 2 .. Len(s) /\ s[z - 1] = "CR" /\ s[z] = "LF" /\ (z = 2 \/ s[z - 2] = "LF")
      /\ \A i \in 1 .. z - 1 : s[i] = "LF" => Filled(s, i)
  BY DEF HeadEnds
<1>3. \A i \in 1 .. z : c[i] = s[i] /\ i \in 1 .. n
  BY <1>1, <1>2
<1>4. z \in 2 .. Len(c) /\ c[z - 1] = "CR" /\ c[z] = "LF" /\ (z = 2 \/ c[z - 2] = "LF")
  <2>1. z \in 2 .. n /\ z - 1 \in 1 .. z /\ z \in 1 .. z /\ (z # 2 => z - 2 \in 1 .. z)
    BY <1>1, <1>2
  <2> QED BY <1>2, <1>3, <2>1
<1>5. ASSUME NEW i \in 1 .. z - 1, c[i] = "LF" PROVE Filled(c, i)
  <2>1. s[i] = "LF" /\ Filled(s, i)
    BY <1>1, <1>2, <1>3, <1>5
  <2>2. n \in Nat /\ i \in 1 .. n + 1
    BY <1>1, <1>2
  <2> QED BY <2>1, <2>2, FilledFront
<1> QED BY <1>4, <1>5 DEF HeadEnds

(* Nor do lines in front of it matter, nor the first half of its own line if   *)
(* the second holds a word.                                                    *)
LEMMA FilledBehind ==
  ASSUME NEW s, NEW t, NEW n \in Nat, NEW i \in Nat \ {0}, \A l \in 1 .. i : t[l] = s[n + l],
         n = 0 \/ s[n] = "LF" \/ ~BeginsBlank(t), i \in DOMAIN t, t[i] = "LF", Filled(s, n + i)
  PROVE  Filled(t, i)
<1>1. PICK j \in 1 .. n + i - 1 : s[j] \notin White /\ \A l \in j .. n + i - 1 : s[l] # "LF"
  BY DEF Filled
<1>2. CASE j <= n
  <2>1. n # 0 /\ n \in j .. n + i - 1
    BY <1>1, <1>2
  <2>2. \E k \in 1 .. i : t[k] \notin White
    BY <1>1, <2>1 DEF BeginsBlank
  <2>3. PICK k \in 1 .. i : t[k] \notin White
    BY <2>2
  <2>4. k \in 1 .. i - 1
    <3>1. k # i
      BY <2>3 DEF White
    <3> QED BY <3>1
  <2>5. ASSUME NEW l \in k .. i - 1 PROVE t[l] # "LF"
    <3>1. n + l \in j .. n + i - 1 /\ l \in 1 .. i
      BY <1>2
    <3> QED BY <1>1, <3>1
  <2> QED BY <2>3, <2>4, <2>5 DEF Filled
<1>3. CASE n < j
  <2>1. PICK k \in 1 .. i - 1 : j = n + k
    <3>1. j - n \in 1 .. i - 1 /\ j = n + (j - n)
      BY <1>1, <1>3
    <3> QED BY <3>1
  <2>2. t[k] \notin White
    BY <1>1, <2>1
  <2>3. ASSUME NEW l \in k .. i - 1 PROVE t[l] # "LF"
    <3>1. n + l \in j .. n + i - 1 /\ l \in 1 .. i
      BY <2>1
    <3> QED BY <1>1, <3>1
  <2> QED BY <2>2, <2>3 DEF Filled
<1> QED BY <1>1, <1>2, <1>3

(* What a recv of headers leaves of it: all of the headers, and the body begins; *)
(* or lines that are not blank, and the answer goes on with more of them.     *)
GoesOn(got, left, body) ==
  IF got.done THEN got.rest \o left = body ELSE Holds(left, body)

LEMMA RecvPiece ==
  ASSUME NEW S, NEW s \in Seq(S), NEW body, Holds(s, body), NEW n \in 1 .. Len(s),
         NEW got, got = Take(SubSeq(s, 1, n)), ~Spoils(got, SubSeq(s, n + 1, Len(s)))
  PROVE  GoesOn(got, SubSeq(s, n + 1, Len(s)), body)
<1> DEFINE N == Len(s)
           c == SubSeq(s, 1, n)
           t == SubSeq(s, n + 1, N)
<1>1. N \in Nat /\ DOMAIN s = 1 .. N
  BY LenProperties
<1>2. PICK z \in 1 .. N : HeadEnds(s, z) /\ SubSeq(s, z + 1, N) = body
  BY <1>1 DEF Holds
<1>3. /\ z \in 2 .. N /\ s[z - 1] = "CR" /\ s[z] = "LF" /\ (z = 2 \/ s[z - 2] = "LF")
      /\ \A i \in 1 .. z - 1 : s[i] = "LF" => Filled(s, i)
  BY <1>2 DEF HeadEnds
<1>4. c \in Seq(S) /\ Len(c) = n /\ \A i \in 1 .. n : c[i] = s[i]
  <2>1. /\ c \in Seq(S) /\ Len(c) = n + 1 - 1
        /\ \A i \in 1 .. n + 1 - 1 : c[i] = s[1 + i - 1]
    <3>1. 1 \in Nat \ {0} /\ n \in Nat /\ 1 <= n + 1 /\ n <= Len(s)
      BY <1>1
    <3> QED BY ONLY <3>1, s \in Seq(S), Slice
  <2>2. n + 1 - 1 = n /\ \A i \in 1 .. n : 1 + i - 1 = i
    OBVIOUS
  <2> HIDE DEF c
  <2> QED BY <2>1, <2>2
<1>5. /\ t \in Seq(S) /\ Len(t) = N - n
      /\ \A i \in 1 .. N - n : t[i] = s[n + i]
  <2>1. /\ t \in Seq(S) /\ Len(t) = N + 1 - (n + 1)
        /\ \A i \in 1 .. N + 1 - (n + 1) : t[i] = s[(n + 1) + i - 1]
    <3>1. n + 1 \in Nat \ {0} /\ N \in Nat /\ n + 1 <= N + 1 /\ N <= Len(s)
      BY <1>1
    <3> QED BY ONLY <3>1, s \in Seq(S), Slice
  <2>2. N + 1 - (n + 1) = N - n /\ \A i \in 1 .. N - n : (n + 1) + i - 1 = n + i
    <3> HIDE DEF N
    <3> QED BY <1>1
  <2> HIDE DEF t
  <2> QED BY <2>1, <2>2
<1> HIDE DEF N
<1>6. ASSUME z <= n PROVE GoesOn(got, t, body)
  <2>1. HeadEnds(c, z)
    <3> HIDE DEF c
    <3> QED BY ONLY <1>1, <1>2, <1>4, <1>6, HeadFront DEF N
  <2>2. Take(c).done /\ Take(c).rest = SubSeq(c, z + 1, n)
    <3> HIDE DEF c
    <3> QED BY <1>4, <2>1, HeadFound
  <2>3. SubSeq(c, z + 1, n) = SubSeq(s, z + 1, n)
    <3>1. CASE z = n
      <4>1. z + 1 \in Int /\ n \in Int /\ n < z + 1
        BY <1>1, <3>1
      <4> QED BY ONLY <4>1, SubSeqEmpty
    <3>2. CASE z # n
      <4>1. /\ 1 \in 1 .. Len(s) /\ n \in 1 .. Len(s)
            /\ z + 1 \in 1 .. n - 1 + 1 /\ n \in 1 .. n - 1 + 1
        BY <1>1, <1>3, <1>6, <3>2 DEF N
      <4>2. SubSeq(SubSeq(s, 1, n), z + 1, n) = SubSeq(s, 1 + (z + 1) - 1, 1 + n - 1)
        BY ONLY <4>1, s \in Seq(S), SubSeqOfSubSeq
      <4>3. 1 + (z + 1) - 1 = z + 1 /\ 1 + n - 1 = n
        BY <1>1
      <4> QED BY <4>2, <4>3
    <3> QED BY <3>1, <3>2
  <2>4. SubSeq(s, z + 1, n) \o SubSeq(s, n + 1, N) = SubSeq(s, z + 1, N)
    <3>1. z + 1 \in 1 .. Len(s) + 1 /\ n \in z + 1 - 1 .. Len(s) /\ N \in n .. Len(s)
      BY <1>1, <1>3, <1>6 DEF N
    <3> QED BY ONLY <3>1, s \in Seq(S), ConcatAdjacentSubSeq
  <2>5. got.done /\ got.rest \o t = body
    BY <1>2, <2>2, <2>3, <2>4
  <2> HIDE DEF t
  <2> QED BY <2>5 DEF GoesOn
<1>7. ASSUME n < z PROVE GoesOn(got, t, body)
  <2>1. \A i \in 1 .. Len(c) : c[i] = "LF" => Filled(c, i)
    <3> SUFFICES ASSUME NEW i \in 1 .. n, c[i] = "LF" PROVE Filled(c, i)
      BY <1>4
    <3>1. s[i] = "LF" /\ i \in 1 .. z - 1
      BY <1>1, <1>4, <1>7
    <3>2. Filled(s, i) /\ n \in Nat /\ i \in 1 .. n + 1
      BY <1>3, <3>1
    <3> HIDE DEF c
    <3> QED BY ONLY <1>4, <3>2, FilledFront
  <2>2. c # <<>>
    <3>1. Len(c) # 0
      BY <1>4
    <3> QED BY <3>1
  <2>3. ~Take(c).done /\ (s[n] = "LF" \/ ~BeginsBlank(t))
    <3>1. ~(Take(c).cut /\ (Take(c).done \/ BeginsBlank(t)))
      BY DEF Spoils, N
    <3>2. ~Take(c).done /\ (Take(c).cut <=> c[Len(c)] # "LF")
      <4> HIDE DEF c, t
      <4> QED BY <1>4, <2>1, <2>2, <3>1, HeadGoesOn
    <3>3. n \in 1 .. n
      OBVIOUS
    <3> HIDE DEF c, t
    <3> QED BY <1>4, <3>1, <3>2, <3>3
  <2>4. PICK y \in 2 .. N - n : z = n + y
    <3>1. n # z - 1
      <4> SUFFICES ASSUME n = z - 1 PROVE FALSE
        OBVIOUS
      <4>1. 1 \in DOMAIN t /\ t[1] = "LF"
        <5>1. 1 \in 1 .. N - n /\ n + 1 = z
          BY <1>1, <1>3
        <5> QED BY <1>3, <1>5, <5>1, LenProperties
      <4>2. BeginsBlank(t)
        <5> HIDE DEF t
        <5>1. "LF" \in White /\ \A j \in 1 .. 1 : j = 1
          BY DEF White
        <5> QED BY <4>1, <5>1 DEF BeginsBlank
      <4>3. s[n] = "CR"
        BY <1>3
      <4> QED BY <2>3, <4>2, <4>3
    <3>2. z - n \in 2 .. N - n /\ z = n + (z - n)
      BY <1>1, <1>3, <1>7, <3>1
    <3> QED BY <3>2
  <2>5. HeadEnds(t, y)
    <3>1. \A i \in 1 .. y : t[i] = s[n + i] /\ n + i \in 1 .. N
      BY <1>1, <1>5, <2>4
    <3>2. y - 1 \in 1 .. y /\ n + (y - 1) = z - 1 /\ y \in 1 .. y
      BY <1>1, <2>4
    <3>3. t[y - 1] = "CR" /\ t[y] = "LF"
      BY <1>3, <2>4, <3>1, <3>2
    <3>4. y = 2 \/ t[y - 2] = "LF"
      <4> SUFFICES ASSUME y # 2 PROVE t[y - 2] = "LF"
        OBVIOUS
      <4>1. y - 2 \in 1 .. y /\ n + (y - 2) = z - 2 /\ z # 2
        BY <1>1, <2>4
      <4> QED BY <1>3, <3>1, <4>1
    <3>5. ASSUME NEW i \in 1 .. y - 1, t[i] = "LF" PROVE Filled(t, i)
      <4>1. n + i \in 1 .. z - 1 /\ s[n + i] = "LF"
        BY <1>1, <2>4, <3>1, <3>5
      <4>2. Filled(s, n + i)
        BY <1>3, <4>1
      <4>3. n \in Nat /\ i \in Nat \ {0} /\ 1 .. i \subseteq 1 .. y
        BY <2>4
      <4>4. \A l \in 1 .. i : t[l] = s[n + l]
        BY <3>1, <4>3
      <4>5. i \in DOMAIN t
        <5>1. i \in 1 .. N - n
          BY <1>1, <2>4
        <5> QED BY <1>5, <5>1, LenProperties
      <4> HIDE DEF t
      <4> QED BY ONLY <2>3, <3>5, <4>2, <4>3, <4>4, <4>5, FilledBehind
    <3>6. y \in 2 .. Len(t)
      BY <1>5, <2>4
    <3> HIDE DEF t
    <3> QED BY <3>3, <3>4, <3>5, <3>6 DEF HeadEnds
  <2>6. SubSeq(t, y + 1, Len(t)) = SubSeq(s, z + 1, N)
    <3>1. CASE z = N
      <4>1. y + 1 \in Int /\ Len(t) \in Int /\ Len(t) < y + 1
            /\ z + 1 \in Int /\ N \in Int /\ N < z + 1
        BY <1>1, <1>5, <2>4, <3>1
      <4>2. SubSeq(t, y + 1, Len(t)) = <<>>
        BY ONLY <4>1, SubSeqEmpty
      <4>3. SubSeq(s, z + 1, N) = <<>>
        BY ONLY <4>1, SubSeqEmpty
      <4> QED BY <4>2, <4>3
    <3>2. CASE z # N
      <4>1. /\ n + 1 \in 1 .. N /\ N \in 1 .. N
            /\ y + 1 \in 1 .. N - (n + 1) + 1 /\ N - n \in 1 .. N - (n + 1) + 1
        <5>1. n \in Nat /\ n < N /\ n + y # N
          BY <1>1, <1>3, <1>7, <2>4, <3>2
        <5> QED BY ONLY <1>1, <2>4, <5>1
      <4>2. SubSeq(SubSeq(s, n + 1, N), y + 1, N - n)
              = SubSeq(s, (n + 1) + (y + 1) - 1, (n + 1) + (N - n) - 1)
        BY ONLY <4>1, s \in Seq(S), N = Len(s), SubSeqOfSubSeq DEF N
      <4>3. (n + 1) + (y + 1) - 1 = z + 1 /\ (n + 1) + (N - n) - 1 = N
        BY <1>1, <2>4
      <4> QED BY <1>5, <4>2, <4>3
    <3> QED BY <3>1, <3>2
  <2>7. y \in DOMAIN t
    BY <1>5, <2>4, LenProperties
  <2>8. Holds(t, body)
    <3> HIDE DEF t
    <3> QED BY <1>2, <2>5, <2>6, <2>7 DEF Holds
  <2>9. ~got.done
    BY <2>3 DEF c
  <2> HIDE DEF t
  <2> QED BY <2>8, <2>9 DEF GoesOn
<1>8. GoesOn(got, t, body)
  <2> HIDE DEF t
  <2> QED BY <1>1, <1>3, <1>6, <1>7
<1> QED BY <1>8 DEF t, N

-----------------------------------------------------------------------------
(* What the peer answers.                                                    *)

(* The elements of a concatenation, by position. *)
LEMMA Elements ==
  ASSUME NEW S, NEW s \in Seq(S), NEW t \in Seq(S)
  PROVE  /\ s \o t \in Seq(S) /\ Len(s) \in Nat /\ Len(t) \in Nat
         /\ Len(s \o t) = Len(s) + Len(t)
         /\ \A i \in 1 .. Len(s) : (s \o t)[i] = s[i]
         /\ \A i \in 1 .. Len(t) : (s \o t)[Len(s) + i] = t[i]
<1> DEFINE m == Len(s)
           n == Len(t)
           st == s \o t
<1>1. /\ st \in Seq(S) /\ m \in Nat /\ n \in Nat /\ Len(st) = m + n
      /\ \A i \in 1 .. m + n : st[i] = IF i <= m THEN s[i] ELSE t[i - m]
  BY ConcatProperties, LenProperties
<1> HIDE DEF m, n, st
<1>2. \A i \in 1 .. m : st[i] = s[i]
  BY <1>1
<1>3. \A i \in 1 .. n : st[m + i] = t[i]
  <2> SUFFICES ASSUME NEW i \in 1 .. n PROVE st[m + i] = t[i]
    OBVIOUS
  <2>1. m + i \in 1 .. m + n /\ ~(m + i <= m) /\ (m + i) - m = i
    BY <1>1
  <2> QED BY <1>1, <2>1
<1> QED BY <1>1, <1>2, <1>3 DEF m, n, st

LEMMA Pair ==
  ASSUME NEW S, NEW a \in S, NEW b \in S
  PROVE  <<a, b>> \in Seq(S) /\ Len(<<a, b>>) = 2 /\ <<a, b>>[1] = a /\ <<a, b>>[2] = b
OBVIOUS

LEMMA Triple ==
  ASSUME NEW S, NEW a \in S, NEW b \in S, NEW c \in S
  PROVE  LET w == <<a, b, c>>
         IN w \in Seq(S) /\ Len(w) = 3 /\ w[1] = a /\ w[2] = b /\ w[3] = c
OBVIOUS

LEMMA Quadruple ==
  ASSUME NEW S, NEW a \in S, NEW b \in S, NEW c \in S, NEW d \in S
  PROVE  LET w == <<a, b, c, d>>
         IN w \in Seq(S) /\ Len(w) = 4 /\ w[1] = a /\ w[2] = b /\ w[3] = c /\ w[4] = d
OBVIOUS

LEMMA LineEnd ==
  LET e == <<"CR", "LF">>
  IN e \in Seq(Text) /\ Len(e) = 2 /\ e[1] = "CR" /\ e[2] = "LF" /\ Line(<<>>) = e
<1>1. "CR" \in Text /\ "LF" \in Text
  BY DEF Text, White
<1>2. <<"CR", "LF">> \in Seq(Text)
  BY <1>1, Pair
<1>3. Line(<<>>) = <<"CR", "LF">>
  BY <1>2, ConcatEmptySeq DEF Line
<1> QED BY <1>1, <1>2, <1>3, Pair

(* Whole lines, none of them blank. *)
Good(h) ==
  /\ h \in Seq(Text) /\ (Len(h) = 0 \/ h[Len(h)] = "LF")
  /\ \A i \in 1 .. Len(h) : h[i] = "LF" => Filled(h, i)

LEMMA GoodEmpty == Good(<<>>)
<1>1. <<>> \in Seq(Text) /\ Len(<<>>) = 0 /\ 1 .. 0 = {}
  OBVIOUS
<1> QED BY <1>1 DEF Good

LEMMA GoodLine ==
  ASSUME NEW w \in Seq(Text), Len(w) # 0, w[1] \notin White, \A i \in 1 .. Len(w) : w[i] # "LF"
  PROVE  Good(Line(w))
<1> DEFINE n == Len(w)
           h == Line(w)
           e == <<"CR", "LF">>
<1>1. e \in Seq(Text) /\ Len(e) = 2 /\ e[1] = "CR" /\ e[2] = "LF"
  BY LineEnd
<1>2. /\ h \in Seq(Text) /\ n \in Nat /\ Len(h) = n + 2
      /\ \A i \in 1 .. n : h[i] = w[i]
      /\ \A i \in 1 .. 2 : h[n + i] = e[i]
  <2> HIDE DEF e
  <2>1. /\ w \o e \in Seq(Text) /\ Len(w) \in Nat /\ Len(w \o e) = Len(w) + Len(e)
        /\ \A i \in 1 .. Len(w) : (w \o e)[i] = w[i]
        /\ \A i \in 1 .. Len(e) : (w \o e)[Len(w) + i] = e[i]
    <3>1. e \in Seq(Text)
      BY <1>1
    <3> QED BY ONLY <3>1, w \in Seq(Text), Elements
  <2>2. h = w \o e
    BY DEF Line, e
  <2> HIDE DEF h
  <2> QED BY <1>1, <2>1, <2>2
<1>3. h[n + 1] = "CR" /\ h[n + 2] = "LF" /\ n # 0
  <2>1. 1 \in 1 .. 2 /\ 2 \in 1 .. 2
    OBVIOUS
  <2> HIDE DEF h, e, n
  <2> QED BY <1>1, <1>2, <2>1 DEF n
<1>4. w[1] \notin White /\ \A i \in 1 .. n : w[i] # "LF"
  OBVIOUS
<1> HIDE DEF h, e, n
<1>5. \A i \in 1 .. n + 1 : h[i] # "LF"
  <2> SUFFICES ASSUME NEW i \in 1 .. n + 1 PROVE h[i] # "LF"
    OBVIOUS
  <2>1. i \in 1 .. n \/ i = n + 1
    BY <1>2
  <2> QED BY <1>2, <1>3, <1>4, <2>1
<1>6. ASSUME NEW i \in 1 .. n + 2, h[i] = "LF" PROVE Filled(h, i)
  <2>1. i = n + 2
    BY <1>2, <1>5, <1>6
  <2>2. 1 \in 1 .. i - 1 /\ h[1] \notin White /\ \A l \in 1 .. i - 1 : h[l] # "LF"
    BY <1>2, <1>3, <1>4, <1>5, <2>1
  <2> QED BY <2>2 DEF Filled
<1> QED BY <1>2, <1>3, <1>6 DEF Good, h

LEMMA GoodConcat ==
  ASSUME NEW g, NEW h, Good(g), Good(h)
  PROVE  Good(g \o h)
<1> DEFINE m == Len(g)
           n == Len(h)
           r == g \o h
<1>1. /\ g \in Seq(Text) /\ (m = 0 \/ g[m] = "LF")
      /\ \A i \in 1 .. m : g[i] = "LF" => Filled(g, i)
  BY DEF Good
<1>2. /\ h \in Seq(Text) /\ (n = 0 \/ h[n] = "LF")
      /\ \A i \in 1 .. n : h[i] = "LF" => Filled(h, i)
  BY DEF Good
<1>3. /\ r \in Seq(Text) /\ m \in Nat /\ n \in Nat /\ Len(r) = m + n
      /\ \A i \in 1 .. m : r[i] = g[i]
      /\ \A i \in 1 .. n : r[m + i] = h[i]
  <2>1. g \in Seq(Text) /\ h \in Seq(Text)
    BY <1>1, <1>2
  <2> QED BY ONLY <2>1, Elements DEF m, n, r
<1> HIDE DEF m, n, r
<1>4. Len(r) = 0 \/ r[Len(r)] = "LF"
  <2>1. CASE n = 0
    BY <1>1, <1>3, <2>1
  <2>2. CASE n # 0
    <3>1. n \in 1 .. n /\ h[n] = "LF"
      BY <1>2, <1>3, <2>2
    <3> QED BY <1>3, <3>1
  <2> QED BY <2>1, <2>2
<1>5. ASSUME NEW i \in 1 .. m + n, r[i] = "LF" PROVE Filled(r, i)
  <2>1. CASE i \in 1 .. m
    <3>1. Filled(g, i) /\ m \in Nat /\ i \in 1 .. m + 1
      BY <1>1, <1>3, <1>5, <2>1
    <3> QED BY ONLY <1>3, <3>1, FilledFront
  <2>2. CASE i \notin 1 .. m
    <3>1. PICK k \in 1 .. n : i = m + k
      <4>1. i - m \in 1 .. n /\ i = m + (i - m)
        BY <1>3, <2>2
      <4> QED BY <4>1
    <3>2. Filled(h, k)
      BY <1>2, <1>3, <1>5, <3>1
    <3>3. PICK j \in 1 .. k - 1 : h[j] \notin White /\ \A l \in j .. k - 1 : h[l] # "LF"
      BY <3>2 DEF Filled
    <3>4. m + j \in 1 .. i - 1 /\ r[m + j] \notin White
      BY <1>3, <3>1, <3>3
    <3>5. ASSUME NEW x \in m + j .. i - 1 PROVE r[x] # "LF"
      <4>1. PICK l \in j .. k - 1 : x = m + l
        <5>1. x - m \in j .. k - 1 /\ x = m + (x - m)
          BY <1>3, <3>1
        <5> QED BY <5>1
      <4>2. l \in 1 .. n
        BY <1>3
      <4> QED BY <1>3, <3>3, <4>1, <4>2
    <3> QED BY <3>4, <3>5 DEF Filled
  <2> QED BY <2>1, <2>2
<1> QED BY <1>3, <1>4, <1>5 DEF Good, r

LEMMA GoodHeads ==
  ASSUME NEW code \in {"200", "401"}, NEW h \in Heads(code)
  PROVE  Good(h)
<1> DEFINE status_line == Line(<<"RTSP/1.0", " ", code>>)
           length == Header("Content-Length", "length")
           date == Line(<<"Date", " ", "time", "n">>)
           auth == IF code = "401" THEN Header("WWW-Authenticate", "Digest") ELSE <<>>
<1>1. ASSUME NEW a \in Text, NEW b \in Text, a \notin White, b # "LF"
      PROVE  Good(Line(<<a, " ", b>>))
  <2> DEFINE w == <<a, " ", b>>
  <2>1. " " \in Text /\ " " # "LF" /\ a # "LF"
    BY <1>1 DEF Text, White
  <2>2. w \in Seq(Text) /\ Len(w) = 3 /\ w[1] = a /\ w[2] = " " /\ w[3] = b
    BY ONLY <2>1, a \in Text, b \in Text, Triple
  <2> HIDE DEF w
  <2>3. \A i \in 1 .. Len(w) : w[i] # "LF"
    <3> SUFFICES ASSUME NEW i \in 1 .. 3 PROVE w[i] # "LF"
      BY <2>2
    <3>1. i = 1 \/ i = 2 \/ i = 3
      OBVIOUS
    <3> QED BY <1>1, <2>1, <2>2, <3>1
  <2>4. Len(w) # 0 /\ w[1] \notin White
    <3>1. 3 # 0
      OBVIOUS
    <3> QED BY <1>1, <2>2, <3>1
  <2>5. Good(Line(w))
    BY ONLY <2>2, <2>3, <2>4, GoodLine
  <2> QED BY <2>5 DEF w
<1>2. Good(status_line)
  BY <1>1 DEF Text, White, Numbers
<1>3. Good(length) /\ Good(Header("WWW-Authenticate", "Digest"))
  BY <1>1 DEF Header, Text, White, Numbers, Keys
<1>4. Good(date)
  <2> DEFINE w == <<"Date", " ", "time", "n">>
  <2>1. "Date" \in Text /\ " " \in Text /\ "time" \in Text /\ "n" \in Text
    BY DEF Text, White, Keys, Numbers
  <2>2. /\ w \in Seq(Text) /\ Len(w) = 4
        /\ w[1] = "Date" /\ w[2] = " " /\ w[3] = "time" /\ w[4] = "n"
    BY ONLY <2>1, Quadruple
  <2> HIDE DEF w
  <2>3. Len(w) # 0 /\ w[1] \notin White
    <3>1. "Date" \notin White /\ 4 # 0
      BY DEF White
    <3> QED BY <2>2, <3>1
  <2>4. \A i \in 1 .. Len(w) : w[i] # "LF"
    <3> SUFFICES ASSUME NEW i \in 1 .. 4 PROVE w[i] # "LF"
      BY <2>2
    <3>1. i = 1 \/ i = 2 \/ i = 3 \/ i = 4
      OBVIOUS
    <3> QED BY <2>2, <3>1
  <2>5. Good(Line(w))
    BY ONLY <2>2, <2>3, <2>4, GoodLine
  <2> QED BY <2>5 DEF w
<1>5. Good(auth)
  BY <1>3, GoodEmpty
<1>6. \/ h = status_line \o length \o date \o auth
      \/ h = status_line \o date \o auth \o length
      \/ h = status_line \o date \o auth
  BY DEF Heads
<1> HIDE DEF status_line, length, date, auth
<1> QED BY ONLY <1>2, <1>3, <1>5, <1>6, <1>4, GoodConcat

(* A whole answer on the connection. *)
LEMMA AnswerHolds ==
  ASSUME NEW h, Good(h), NEW body \in Seq(Text)
  PROVE  LET s == h \o Line(<<>>) \o body
         IN s \in Seq(Text) /\ HeadEnds(s, Len(h) + 2) /\ Holds(s, body)
<1> DEFINE e == Line(<<>>)
           n == Len(h)
           m == Len(body)
           g == h \o e
           s == g \o body
<1>1. e \in Seq(Text) /\ Len(e) = 2 /\ e[1] = "CR" /\ e[2] = "LF"
  BY LineEnd
<1> HIDE DEF e
<1>2. /\ h \in Seq(Text) /\ (n = 0 \/ h[n] = "LF")
      /\ \A i \in 1 .. n : h[i] = "LF" => Filled(h, i)
  BY DEF Good
<1>3. /\ g \in Seq(Text) /\ n \in Nat /\ Len(g) = n + 2
      /\ \A i \in 1 .. n : g[i] = h[i]
      /\ \A i \in 1 .. 2 : g[n + i] = e[i]
  <2>1. /\ g \in Seq(Text) /\ n \in Nat /\ Len(g) = n + Len(e)
        /\ \A i \in 1 .. n : g[i] = h[i]
        /\ \A i \in 1 .. Len(e) : g[n + i] = e[i]
    <3>1. h \in Seq(Text) /\ e \in Seq(Text)
      BY <1>1, <1>2
    <3> QED BY ONLY <3>1, Elements DEF g, n
  <2> HIDE DEF g, n
  <2> QED BY <1>1, <2>1
<1> HIDE DEF g, n
<1>4. /\ s \in Seq(Text) /\ m \in Nat /\ Len(s) = n + 2 + m
      /\ \A i \in 1 .. n + 2 : s[i] = g[i]
      /\ \A i \in 1 .. m : s[n + 2 + i] = body[i]
  <2>1. /\ s \in Seq(Text) /\ m \in Nat /\ Len(s) = Len(g) + m
        /\ \A i \in 1 .. Len(g) : s[i] = g[i]
        /\ \A i \in 1 .. m : s[Len(g) + i] = body[i]
    <3>1. g \in Seq(Text)
      BY <1>3
    <3> QED BY ONLY <3>1, body \in Seq(Text), Elements DEF s, m
  <2> HIDE DEF s, m
  <2> QED BY <1>3, <2>1
<1> HIDE DEF s, m
<1> DEFINE z == n + 2
<1>5. s[z - 1] = "CR" /\ s[z] = "LF" /\ (z = 2 \/ s[z - 2] = "LF")
  <2>1. 1 \in 1 .. 2 /\ 2 \in 1 .. 2
    OBVIOUS
  <2>2. g[n + 1] = "CR" /\ g[n + 2] = "LF" /\ (n = 0 \/ g[n] = "LF")
    BY <1>1, <1>2, <1>3, <2>1
  <2>3. z - 1 = n + 1 /\ z - 2 = n /\ n + 1 \in 1 .. n + 2 /\ n + 2 \in 1 .. n + 2
    BY <1>3
  <2>4. n # 0 => n \in 1 .. n + 2
    BY <1>3
  <2> QED BY <1>4, <2>2, <2>3, <2>4
<1>6. ASSUME NEW i \in 1 .. z - 1, s[i] = "LF" PROVE Filled(s, i)
  <2>1. i \in 1 .. n + 2 /\ z - 1 = n + 1 /\ (i = n + 1 \/ i \in 1 .. n)
    BY <1>3
  <2>2. g[n + 1] = "CR"
    <3>1. 1 \in 1 .. 2
      OBVIOUS
    <3> QED BY <1>1, <1>3, <3>1
  <2>3. i \in 1 .. n /\ h[i] = "LF"
    BY <1>3, <1>4, <1>6, <2>1, <2>2
  <2>4. Filled(h, i) /\ i \in 1 .. n + 1
    BY <1>2, <1>3, <2>3
  <2>5. \A l \in 1 .. n : s[l] = h[l]
    BY <1>3, <1>4
  <2> QED BY ONLY <1>3, <2>4, <2>5, FilledFront
<1>7. z \in 2 .. Len(s) /\ z \in 1 .. Len(s)
  BY <1>3, <1>4
<1>8. SubSeq(s, z + 1, Len(s)) = body
  <2> DEFINE t == SubSeq(s, z + 1, Len(s))
             k == Len(s)
  <2>1. z + 1 \in Nat \ {0} /\ k \in Nat /\ z + 1 <= k + 1 /\ k <= Len(s)
    BY <1>3, <1>4
  <2>2. /\ t \in Seq(Text) /\ Len(t) = k + 1 - (z + 1)
        /\ \A i \in 1 .. k + 1 - (z + 1) : t[i] = s[(z + 1) + i - 1]
    <3>1. s \in Seq(Text)
      BY <1>4
    <3> HIDE DEF s
    <3> QED BY ONLY <2>1, <3>1, Slice DEF t, k
  <2> HIDE DEF t
  <2>3. k + 1 - (z + 1) = m /\ \A i \in 1 .. m : (z + 1) + i - 1 = n + 2 + i
    BY <1>3, <1>4
  <2>4. Len(t) = m /\ \A i \in 1 .. m : t[i] = body[i]
    BY <1>4, <2>2, <2>3
  <2>5. t = body
    BY ONLY <2>2, <2>4, body \in Seq(Text), m = Len(body), SeqEqual DEF m
  <2> QED BY <2>5 DEF t
<1> HIDE DEF z
<1>9. HeadEnds(s, z)
  BY <1>5, <1>6, <1>7 DEF HeadEnds
<1>10. HeadEnds(s, Len(h) + 2)
  BY <1>9 DEF z, n
<1>11. z \in DOMAIN s
  BY <1>4, <1>7, LenProperties
<1>12. Holds(s, body)
  BY <1>8, <1>9, <1>11 DEF Holds
<1> QED BY <1>4, <1>12, <1>10 DEF s, g, e

-----------------------------------------------------------------------------
(* Type correctness.                                                         *)

LEMMA BodyType ==
  ASSUME NEW body \in Bodies
  PROVE  body \in Seq(Text) /\ Len(body) = BodyLen
<1>1. {"b", "LF"} \subseteq Text /\ BodyLen \in Nat
  BY RtspAssumption DEF Text, White
<1>2. body \in [1 .. BodyLen -> Text]
  BY <1>1 DEF Bodies
<1> QED BY <1>1, <1>2

LEMMA LinesType ==
  ASSUME NEW S, NEW s \in Seq(S)
  PROVE  Lines(s) \in Seq(Seq(S)) /\ Len(Lines(s)) = Len(Ends(s))
<1> DEFINE e == Ends(s)
           n == Len(e)
<1>1. Lists(e, Stops(s)) /\ n \in Nat /\ DOMAIN e = 1 .. n
  BY LineNumbers, LenProperties
<1>2. ASSUME NEW k \in 1 .. n PROVE Lines(s)[k] \in Seq(S)
  <2> DEFINE b == Start(e, k)
             c == e[k]
  <2>1. c \in Stops(s) /\ b \in 1 .. c /\ Lines(s)[k] = SubSeq(s, b, c)
    BY LineOf
  <2>2. c \in 1 .. Len(s) /\ Len(s) \in Nat
    BY <2>1, LenProperties DEF Stops
  <2> HIDE DEF b, c
  <2>3. b \in Nat \ {0} /\ c \in Nat /\ b <= c + 1 /\ c <= Len(s)
    BY <2>1, <2>2
  <2> QED BY ONLY <2>1, <2>3, s \in Seq(S), Slice
<1> DEFINE L == Lines(s)
<1>3. L = [k \in 1 .. n |-> L[k]]
  BY <1>1 DEF Lines
<1> HIDE DEF n, L, e
<1>4. L \in [1 .. n -> Seq(S)]
  BY <1>2, <1>3 DEF L
<1> QED BY <1>1, <1>4 DEF L, n, e

LEMMA TakeType ==
  ASSUME headers \in Seq(Seq(Text)), NEW s \in Seq(Text), s # <<>>, NEW got, got = Take(s)
  PROVE  /\ got.headers \in Seq(Seq(Text)) /\ got.rest \in Seq(Text)
         /\ got.done \in BOOLEAN /\ got.cut \in BOOLEAN
<1> DEFINE L == Lines(s)
           B == BlankLines(s)
           more == IF B = {} THEN Len(L) ELSE Min(B) - 1
           last == LastRead(s)
           N == Len(s)
<1>1. L \in Seq(Seq(Text)) /\ Len(L) \in Nat /\ Len(L) = Len(Ends(s))
  BY LinesType, LenProperties
<1>2. B \in SUBSET Nat /\ B \subseteq 1 .. Len(L)
  BY <1>1, LineNumbers DEF BlankLines
<1>3. B # {} => Min(B) \in B
  BY <1>2, MinIs
<1>4. more \in 0 .. Len(L)
  <2> DEFINE l == Len(L)
             m == Min(B)
  <2>1. l \in Nat /\ (B # {} => m \in 1 .. l)
    BY <1>1, <1>2, <1>3
  <2>2. more = IF B = {} THEN l ELSE m - 1
    OBVIOUS
  <2> HIDE DEF l, m, B, more
  <2>3. more \in 0 .. l
    BY ONLY <2>1, <2>2
  <2> QED BY <2>3 DEF l
<1>5. N \in Nat /\ last \in 0 .. N
  <2>1. N \in Nat /\ \A k \in 1 .. Len(Ends(s)) : Ends(s)[k] \in 1 .. N
    BY LineNumbers, LenProperties DEF Lists, Stops
  <2> HIDE DEF L, B
  <2> QED BY <1>1, <1>2, <1>3, <2>1 DEF LastRead, B
<1>6. got.headers = headers \o SubSeq(L, 1, more)
  BY DEF Take, BlankLines
<1> HIDE DEF L, B, more, last, N
<1>7. SubSeq(L, 1, more) \in Seq(Seq(Text))
  <2>1. 1 \in Nat \ {0} /\ more \in Nat /\ 1 <= more + 1 /\ more <= Len(L)
    BY <1>1, <1>4
  <2> QED BY ONLY <1>1, <2>1, Slice
<1>8. got.headers \in Seq(Seq(Text))
  BY ONLY <1>6, <1>7, headers \in Seq(Seq(Text)), ConcatProperties
<1>9. SubSeq(s, last + 1, N) \in Seq(Text)
  <2>1. last + 1 \in Nat \ {0} /\ N \in Nat /\ last + 1 <= N + 1 /\ N <= Len(s)
    BY <1>5 DEF N
  <2> QED BY ONLY <2>1, s \in Seq(Text), Slice
<1>10. got.rest \in Seq(Text)
  BY <1>9, TakeIs DEF last, N
<1>11. got.done \in BOOLEAN /\ got.cut \in BOOLEAN
  BY DEF Take
<1> QED BY <1>8, <1>10, <1>11

(* A recv takes something, and no more than there is. *)
LEMMA TakenRange ==
  ASSUME TypeOK, stream # <<>>, NEW limit \in Nat \ {0}, NEW n \in Taken(limit)
  PROVE  n \in 1 .. Len(stream) /\ Counted(n, limit) \in 0 .. MaxPieces
<1> DEFINE M == {limit, Len(stream)}
           most == Min(M)
<1>1. Len(stream) \in Nat \ {0} /\ pieces \in 0 .. MaxPieces /\ MaxPieces \in Nat
  <2>1. stream \in Seq(Text) /\ pieces \in 0 .. MaxPieces
    BY DEF TypeOK
  <2>2. Len(stream) \in Nat /\ Len(stream) # 0
    BY <2>1, LenProperties, EmptySeq
  <2> QED BY <2>1, <2>2, RtspAssumption
<1>2. most \in M /\ \A j \in M : most <= j
  <2>1. M \in SUBSET Nat /\ M # {}
    BY <1>1
  <2> QED BY ONLY <2>1, MinIs
<1>3. most \in 1 .. Len(stream)
  <2> HIDE DEF most
  <2> QED BY <1>1, <1>2
<1>4. n \in IF pieces < MaxPieces THEN 1 .. most ELSE {most}
  BY DEF Taken
<1>5. Counted(n, limit) = pieces + (IF n < most THEN 1 ELSE 0)
  BY DEF Counted
<1> HIDE DEF most, M
<1> QED BY <1>1, <1>3, <1>4, <1>5

(* What is left of the stream, and what was taken. *)
LEMMA StreamCut ==
  ASSUME TypeOK, NEW n \in 1 .. Len(stream)
  PROVE  /\ SubSeq(stream, 1, n) \in Seq(Text) /\ SubSeq(stream, 1, n) # <<>>
         /\ SubSeq(stream, n + 1, Len(stream)) \in Seq(Text)
         /\ SubSeq(stream, 1, n) \o SubSeq(stream, n + 1, Len(stream)) = stream
<1> DEFINE N == Len(stream)
           c == SubSeq(stream, 1, n)
<1>1. stream \in Seq(Text) /\ N \in Nat
  BY LenProperties DEF TypeOK
<1>2. 1 \in Nat \ {0} /\ n \in Nat /\ 1 <= n + 1 /\ n <= Len(stream)
  BY <1>1
<1>3. c \in Seq(Text) /\ Len(c) = n + 1 - 1
  BY ONLY <1>1, <1>2, Slice
<1>4. n + 1 \in Nat \ {0} /\ N \in Nat /\ n + 1 <= N + 1 /\ N <= Len(stream)
  BY <1>1
<1>5. SubSeq(stream, n + 1, N) \in Seq(Text)
  BY ONLY <1>1, <1>4, Slice
<1>6. 1 \in 1 .. Len(stream) + 1 /\ n \in 1 - 1 .. Len(stream) /\ N \in n .. Len(stream)
  BY <1>1
<1>7. SubSeq(stream, 1, n) \o SubSeq(stream, n + 1, N) = SubSeq(stream, 1, N)
  BY ONLY <1>1, <1>6, ConcatAdjacentSubSeq
<1>8. SubSeq(stream, 1, N) = stream
  BY <1>1, SubSeqFull
<1>9. c # <<>>
  <2> HIDE DEF c
  <2>1. Len(c) # 0
    BY <1>2, <1>3
  <2> QED BY <2>1
<1> QED BY <1>3, <1>5, <1>7, <1>8, <1>9

LEMMA EmptyType == <<>> \in Seq(Text) /\ <<>> \in Seq(Seq(Text)) /\ <<>> \in Seq(Bodies)
BY EmptySeq

LEMMA StatusType ==
  ASSUME TypeOK, NEW lines \in Seq(Seq(Text)), Parsed(lines)
  PROVE  pc' \in {"body", "error"} /\ status' \in Numbers \cup {""}
<1>1. CASE Parses(lines)
  <2> DEFINE line == lines[1]
             C == CodeAt(line)
  <2>1. pc' = "body" /\ status' = line[Min(C)] /\ lines # <<>> /\ C # {}
    BY <1>1 DEF Parsed, Parses
  <2>2. Len(line) \in Nat
    <3>1. 1 \in 1 .. Len(lines)
      BY <2>1, LenProperties, EmptySeq
    <3>2. line \in Seq(Text)
      BY <3>1, ElementOfSeq
    <3> QED BY ONLY <3>2, LenProperties
  <2>3. C \in SUBSET Nat
    <3> SUFFICES ASSUME NEW i \in C PROVE i \in Nat
      OBVIOUS
    <3>1. i \in 3 .. Len(line)
      <4> HIDE DEF line
      <4> QED BY Zenon DEF CodeAt
    <3> QED BY <2>2, <3>1
  <2>4. Min(C) \in C
    <3> HIDE DEF C
    <3> QED BY <2>1, <2>3, MinIs
  <2>5. line[Min(C)] \in Numbers
    BY <2>4 DEF CodeAt
  <2> QED BY <2>1, <2>5
<1>2. CASE ~Parses(lines)
  BY <1>2 DEF Parsed, TypeOK
<1> QED BY <1>1, <1>2

LEMMA TypeInit == Init => TypeOK
<1> SUFFICES ASSUME Init PROVE TypeOK
  OBVIOUS
<1>1. 0 \in 0 .. Requests /\ 0 \in 0 .. MaxPieces
  BY RtspAssumption
<1>2. /\ stream \in Seq(Text) /\ buf \in Seq(Text) /\ headers \in Seq(Seq(Text))
      /\ answers \in Seq(Bodies) /\ results \in Seq(Seq(Text))
  BY EmptyType, Zenon DEF Init
<1>3. /\ pc = "idle" /\ req \in 0 .. Requests /\ pending = FALSE /\ closed = FALSE
      /\ status = "" /\ pieces \in 0 .. MaxPieces
      /\ auth_attempts = 0 /\ spoiled = FALSE
  BY <1>1 DEF Init
<1> QED BY <1>2, <1>3 DEF TypeOK

LEMMA TypeSteps ==
  ASSUME TypeOK, [Next]_vars
  PROVE  TypeOK'
<1>1. CASE Request
  <2>1. /\ req < Requests /\ req' = req + 1 /\ headers' = <<>> /\ buf' = <<>>
        /\ pc' \in {"headers", "error"} /\ pending' \in BOOLEAN
        /\ UNCHANGED <<stream, closed, status, pieces, auth_attempts, answers, results, spoiled>>
    BY <1>1 DEF Request, Sends, TypeOK
  <2>2. req' \in 0 .. Requests
    <3>1. req \in 0 .. Requests /\ Requests \in Nat
      BY RtspAssumption DEF TypeOK
    <3> QED BY ONLY <2>1, <3>1
  <2>3. headers' \in Seq(Seq(Text)) /\ buf' \in Seq(Text)
    BY <2>1, EmptyType, Zenon
  <2> QED BY <2>1, <2>2, <2>3 DEF TypeOK
<1>2. CASE Exit
  BY <1>2 DEF Exit, answer, TypeOK
<1>3. CASE Answer
  <2>1. PICK code \in {"200", "401"}, body \in Bodies : \E head \in Heads(code) :
          /\ stream' = stream \o head \o Line(<<>>) \o body
          /\ answers' = Append(answers, body)
    BY <1>3 DEF Answer
  <2>2. PICK head \in Heads(code) :
          /\ stream' = stream \o head \o Line(<<>>) \o body
          /\ answers' = Append(answers, body)
    BY <2>1
  <2>3. head \in Seq(Text)
    BY GoodHeads DEF Good
  <2>4. Line(<<>>) \in Seq(Text)
    BY LineEnd
  <2>5. body \in Seq(Text)
    BY BodyType
  <2>6. stream \in Seq(Text) /\ answers \in Seq(Bodies)
    BY DEF TypeOK
  <2>7. stream' \in Seq(Text)
    BY ONLY <2>2, <2>3, <2>4, <2>5, <2>6, ConcatProperties
  <2>8. answers' \in Seq(Bodies)
    BY ONLY <2>2, <2>6, body \in Bodies, AppendProperties
  <2>9. pending' = FALSE /\ UNCHANGED <<pc, req, closed, headers, buf, status>>
        /\ UNCHANGED <<pieces, auth_attempts, results, spoiled>>
    BY <1>3 DEF Answer, answer
  <2> QED BY <2>7, <2>8, <2>9 DEF TypeOK
<1>4. CASE Close
  BY <1>4 DEF Close, answer, TypeOK
<1>5. CASE Reset
  BY <1>5 DEF Reset, answer, TypeOK
<1>6. CASE RecvHeaders
  <2>1. /\ stream # <<>> /\ UNCHANGED <<req, pending, closed, auth_attempts, answers, results>>
        /\ RecvMax \in Nat \ {0}
    BY <1>6, RtspAssumption DEF RecvHeaders
  <2>2. PICK n \in Taken(RecvMax) : \E got \in {Take(SubSeq(stream, 1, n))} :
          /\ headers' = got.headers /\ buf' = got.rest
          /\ IF got.done THEN Parsed(got.headers) ELSE UNCHANGED <<pc, status>>
          /\ pieces' = Counted(n, RecvMax)
          /\ stream' = SubSeq(stream, n + 1, Len(stream))
          /\ spoiled' = (spoiled \/ Spoils(got, stream'))
    BY <1>6 DEF RecvHeaders
  <2> DEFINE got == Take(SubSeq(stream, 1, n))
  <2>3. /\ headers' = got.headers /\ buf' = got.rest
        /\ IF got.done THEN Parsed(got.headers) ELSE UNCHANGED <<pc, status>>
        /\ pieces' = Counted(n, RecvMax)
        /\ stream' = SubSeq(stream, n + 1, Len(stream))
        /\ spoiled' = (spoiled \/ Spoils(got, stream'))
    BY <2>2
  <2>4. n \in 1 .. Len(stream) /\ Counted(n, RecvMax) \in 0 .. MaxPieces
    BY <2>1, TakenRange
  <2>5. SubSeq(stream, 1, n) \in Seq(Text) /\ SubSeq(stream, 1, n) # <<>> /\ stream' \in Seq(Text)
    BY <2>3, <2>4, StreamCut
  <2>6. headers \in Seq(Seq(Text)) /\ spoiled \in BOOLEAN
    BY DEF TypeOK
  <2>7. /\ got.headers \in Seq(Seq(Text)) /\ got.rest \in Seq(Text)
        /\ got.done \in BOOLEAN /\ got.cut \in BOOLEAN
    BY <2>5, <2>6, TakeType
  <2> HIDE DEF got
  <2>8. pc' \in {"idle", "headers", "body", "error", "exit"} /\ status' \in Numbers \cup {""}
    <3>1. CASE got.done
      BY <2>3, <2>7, <3>1, StatusType
    <3>2. CASE ~got.done
      BY <2>3, <3>2 DEF TypeOK
    <3> QED BY <3>1, <3>2
  <2> QED BY <2>1, <2>3, <2>4, <2>5, <2>6, <2>7, <2>8 DEF TypeOK
<1>7. CASE RecvBody
  <2>1. /\ stream # <<>> /\ UNCHANGED <<pc, req, pending, closed, headers, status>>
        /\ UNCHANGED <<auth_attempts, answers, results, spoiled>>
        /\ ToRead > 0
    BY <1>7 DEF RecvBody
  <2>2. PICK n \in Taken(ToRead) :
          /\ buf' = buf \o SubSeq(stream, 1, n)
          /\ stream' = SubSeq(stream, n + 1, Len(stream))
          /\ pieces' = Counted(n, ToRead)
    BY <1>7 DEF RecvBody
  <2>3. ToRead \in Nat \ {0}
    <3>1. buf \in Seq(Text) /\ Len(buf) \in Nat /\ BodyLen \in Nat
      BY RtspAssumption, LenProperties DEF TypeOK
    <3> QED BY <2>1, <3>1 DEF ToRead
  <2>4. n \in 1 .. Len(stream) /\ pieces' \in 0 .. MaxPieces
    BY <2>1, <2>2, <2>3, TakenRange
  <2>5. SubSeq(stream, 1, n) \in Seq(Text) /\ stream' \in Seq(Text)
    BY <2>2, <2>4, StreamCut
  <2>6. buf \in Seq(Text)
    BY DEF TypeOK
  <2>7. buf' \in Seq(Text)
    BY ONLY <2>2, <2>5, <2>6, ConcatProperties
  <2> QED BY <2>1, <2>4, <2>5, <2>7 DEF TypeOK
<1>8. CASE Return
  <2>1. /\ pc' = "idle" /\ results' = Append(results, Body)
        /\ UNCHANGED <<req, pending, stream, closed, headers, buf, status, pieces>>
        /\ UNCHANGED <<auth_attempts, answers, spoiled>>
    BY <1>8 DEF Return, answer
  <2>2. buf \in Seq(Text) /\ Len(buf) \in Nat /\ BodyLen \in Nat /\ results \in Seq(Seq(Text))
    BY RtspAssumption, LenProperties DEF TypeOK
  <2> DEFINE m == Min({BodyLen, Len(buf)})
  <2>3. m \in Nat /\ m <= Len(buf)
    <3>1. {BodyLen, Len(buf)} \in SUBSET Nat /\ {BodyLen, Len(buf)} # {}
      BY <2>2
    <3> QED BY <2>2, <3>1, MinIs
  <2> HIDE DEF m
  <2>4. SubSeq(buf, 1, m) \in Seq(Text)
    <3>1. 1 \in Nat \ {0} /\ 1 <= m + 1
      BY <2>3
    <3> QED BY ONLY <2>2, <2>3, <3>1, Slice
  <2>5. Body \in Seq(Text)
    BY <2>4 DEF Body, m
  <2>6. results' \in Seq(Seq(Text))
    BY ONLY <2>1, <2>2, <2>5, AppendProperties
  <2> QED BY <2>1, <2>6 DEF TypeOK
<1>9. CASE Unauthorised
  <2>1. /\ pc' \in {"headers", "error"} /\ pending' \in BOOLEAN
        /\ auth_attempts' = auth_attempts + 1
        /\ headers' = <<>> \/ headers' = headers
        /\ buf' = <<>> \/ buf' = buf
        /\ UNCHANGED <<req, stream, closed, status, pieces, answers, results, spoiled>>
    BY <1>9 DEF Unauthorised, Sends, TypeOK
  <2>2. headers \in Seq(Seq(Text)) /\ buf \in Seq(Text)
    BY DEF TypeOK
  <2>3. headers' \in Seq(Seq(Text)) /\ buf' \in Seq(Text)
    BY <2>1, <2>2, EmptyType, Zenon
  <2>4. auth_attempts' \in Nat
    <3>1. auth_attempts \in Nat /\ auth_attempts' = auth_attempts + 1
      BY <2>1 DEF TypeOK
    <3> QED BY ONLY <3>1
  <2>5. pc' \in {"idle", "headers", "body", "error", "exit"}
    BY <2>1
  <2> QED BY <2>1, <2>3, <2>4, <2>5, Zenon DEF TypeOK
<1>10. CASE UNCHANGED vars
  BY <1>10 DEF vars, answer, TypeOK
<1> QED BY <1>1, <1>2, <1>3, <1>4, <1>5, <1>6, <1>7, <1>8, <1>9, <1>10 DEF Next, Read

(* Every variable of the reader has its type. *)
THEOREM TypeCorrect == Spec => []TypeOK
<1>1. Init => TypeOK
  BY TypeInit
<1>2. TypeOK /\ [Next]_vars => TypeOK'
  BY TypeSteps
<1> QED BY <1>1, <1>2, PTL DEF Spec

-----------------------------------------------------------------------------
(* The reader's invariant.                                                   *)

LEMMA ReaderInit == Init => ReaderInv
<1> SUFFICES ASSUME Init PROVE ReaderInv
  OBVIOUS
<1>1. /\ pc = "idle" /\ pending = FALSE /\ stream = <<>>
      /\ answers = <<>> /\ results = <<>>
  BY DEF Init
<1>2. Len(answers) = 0 /\ Len(results) = 0 /\ DOMAIN results = {}
  BY <1>1
<1> QED BY <1>1, <1>2 DEF ReaderInv, BodiesExact

(* The lengths of the histories. *)
LEMMA Histories ==
  ASSUME TypeOK
  PROVE  /\ Len(answers) \in Nat /\ Len(results) \in Nat
         /\ DOMAIN results = 1 .. Len(results)
         /\ \A k \in 1 .. Len(answers) : answers[k] \in Bodies
<1>1. answers \in Seq(Bodies) /\ results \in Seq(Seq(Text))
  BY DEF TypeOK
<1> QED BY <1>1, LenProperties, ElementOfSeq

(* Nothing is kept in the reader but what has been received of the body. *)
LEMMA RecvHeadersStep ==
  ASSUME TypeOK, ReaderInv, RecvHeaders
  PROVE  ReaderInv'
<1> SUFFICES ASSUME ~spoiled' PROVE ReaderInv'
  BY DEF ReaderInv
<1> DEFINE body == answers[Len(answers)]
<1>1. /\ pc = "headers" /\ stream # <<>> /\ RecvMax \in Nat \ {0}
      /\ UNCHANGED <<req, pending, closed, auth_attempts, answers, results>>
  BY RtspAssumption DEF RecvHeaders
<1>2. PICK n \in Taken(RecvMax) : \E got \in {Take(SubSeq(stream, 1, n))} :
        /\ headers' = got.headers /\ buf' = got.rest
        /\ IF got.done THEN Parsed(got.headers) ELSE UNCHANGED <<pc, status>>
        /\ pieces' = Counted(n, RecvMax)
        /\ stream' = SubSeq(stream, n + 1, Len(stream))
        /\ spoiled' = (spoiled \/ Spoils(got, stream'))
  BY DEF RecvHeaders
<1> DEFINE got == Take(SubSeq(stream, 1, n))
<1>3. /\ buf' = got.rest /\ spoiled' = (spoiled \/ Spoils(got, stream'))
      /\ IF got.done THEN Parsed(got.headers) ELSE UNCHANGED <<pc, status>>
      /\ stream' = SubSeq(stream, n + 1, Len(stream))
  BY <1>2
<1>4. ~spoiled /\ ~Spoils(got, stream')
  <2> HIDE DEF got
  <2> QED BY <1>3 DEF TypeOK
<1>5. /\ Len(results) <= Len(answers) /\ BodiesExact /\ (Awaited \/ Arriving)
  BY <1>1, <1>4 DEF ReaderInv
<1>6. Arriving
  BY <1>1, <1>5 DEF Awaited
<1>7. stream \in Seq(Text) /\ n \in 1 .. Len(stream)
  BY <1>1, TakenRange DEF TypeOK
<1>8. GoesOn(got, stream', body)
  <2>1. Holds(stream, body)
    BY <1>6 DEF Arriving
  <2> HIDE DEF body
  <2> QED BY <1>3, <1>4, <1>7, <2>1, RecvPiece
<1>9. ~pending' /\ Len(answers') = Len(results') + 1 /\ body = answers'[Len(answers')]
  BY <1>1, <1>6 DEF Arriving
<1>10. Len(results') <= Len(answers') /\ BodiesExact'
  <2>1. \A k \in DOMAIN results : results[k] = answers[k]
    BY <1>4, <1>5 DEF BodiesExact
  <2>2. results' = results /\ answers' = answers
    BY <1>1
  <2> QED BY ONLY <1>5, <2>1, <2>2 DEF BodiesExact
<1> HIDE DEF got, body
<1>11. CASE got.done
  <2>1. pc' = "body" \/ pc' = "error"
    BY <1>3, <1>11 DEF Parsed
  <2>2. buf' \o stream' = answers'[Len(answers')]
    BY <1>3, <1>8, <1>9, <1>11 DEF GoesOn
  <2> QED BY <1>9, <1>10, <2>1, <2>2 DEF ReaderInv
<1>12. CASE ~got.done
  <2>1. pc' = "headers"
    BY <1>1, <1>3, <1>12
  <2>2. Holds(stream', answers'[Len(answers')])
    BY <1>8, <1>9, <1>12 DEF GoesOn
  <2>3. Arriving'
    BY <1>9, <2>2 DEF Arriving
  <2> QED BY <1>10, <2>1, <2>3 DEF ReaderInv
<1> QED BY <1>11, <1>12

LEMMA RecvBodyStep ==
  ASSUME TypeOK, ReaderInv, RecvBody
  PROVE  ReaderInv'
<1> SUFFICES ASSUME ~spoiled' PROVE ReaderInv'
  BY DEF ReaderInv
<1>1. /\ pc = "body" /\ pc' = pc /\ stream # <<>> /\ ToRead > 0
      /\ UNCHANGED <<pending, answers, results, spoiled>>
  BY DEF RecvBody
<1>2. PICK n \in Taken(ToRead) :
        /\ buf' = buf \o SubSeq(stream, 1, n)
        /\ stream' = SubSeq(stream, n + 1, Len(stream))
  BY DEF RecvBody
<1>3. buf \in Seq(Text)
  BY DEF TypeOK
<1>4. n \in 1 .. Len(stream)
  <2>1. Len(buf) \in Nat /\ BodyLen \in Nat
    BY <1>3, RtspAssumption, LenProperties
  <2>2. ToRead \in Nat \ {0}
    BY <1>1, <2>1 DEF ToRead
  <2> QED BY <1>1, <2>2, TakenRange
<1> DEFINE c == SubSeq(stream, 1, n)
<1>5. c \in Seq(Text) /\ stream' \in Seq(Text) /\ c \o stream' = stream
  BY <1>2, <1>4, StreamCut
<1>6. (buf \o c) \o stream' = buf \o (c \o stream')
  <2> DEFINE d == stream'
  <2>1. c \in Seq(Text) /\ d \in Seq(Text)
    BY <1>5
  <2> HIDE DEF c, d
  <2>2. (buf \o c) \o d = buf \o (c \o d)
    BY ONLY <1>3, <2>1, ConcatAssociative
  <2> QED BY <2>2 DEF c, d
<1>7. buf' \o stream' = buf \o stream
  BY <1>2, <1>5, <1>6
<1>8. /\ Len(results) <= Len(answers) /\ BodiesExact
      /\ ~pending /\ Len(answers) = Len(results) + 1
      /\ buf \o stream = answers[Len(answers)]
  BY <1>1 DEF ReaderInv
<1>9. BodiesExact'
  BY <1>1, <1>8 DEF BodiesExact
<1> QED BY <1>1, <1>7, <1>8, <1>9 DEF ReaderInv

(* What is returned is the body; nothing follows it on the connection. *)
LEMMA ReturnStep ==
  ASSUME TypeOK, ReaderInv, Return
  PROVE  ReaderInv'
<1> SUFFICES ASSUME ~spoiled' PROVE ReaderInv'
  BY DEF ReaderInv
<1>1. /\ pc = "body" /\ ToRead = 0 /\ pc' = "idle" /\ results' = Append(results, Body)
      /\ UNCHANGED <<pending, stream, answers, spoiled>>
  BY DEF Return
<1>2. /\ Len(results) <= Len(answers) /\ BodiesExact
      /\ ~pending /\ Len(answers) = Len(results) + 1
      /\ buf \o stream = answers[Len(answers)]
  BY <1>1 DEF ReaderInv
<1>3. /\ Len(answers) \in Nat /\ Len(results) \in Nat /\ DOMAIN results = 1 .. Len(results)
      /\ \A k \in 1 .. Len(answers) : answers[k] \in Bodies
  BY Histories
<1>4. buf \in Seq(Text) /\ stream \in Seq(Text) /\ BodyLen \in Nat
      /\ Len(buf) \in Nat /\ Len(stream) \in Nat
  BY RtspAssumption, LenProperties DEF TypeOK
<1>5. Len(buf) + Len(stream) = BodyLen
  <2> DEFINE body == answers[Len(answers)]
  <2>1. body \in Bodies
    BY <1>2, <1>3
  <2> HIDE DEF body
  <2>2. Len(body) = BodyLen
    BY <2>1, BodyType
  <2>3. Len(buf \o stream) = Len(buf) + Len(stream)
    BY ONLY <1>4, ConcatProperties
  <2> QED BY <1>2, <2>2, <2>3 DEF body
<1>6. Len(buf) = BodyLen /\ Len(stream) = 0
  <2>1. BodyLen <= Len(buf)
    BY <1>1, <1>4 DEF ToRead
  <2> QED BY <1>4, <1>5, <2>1
<1>7. stream = <<>>
  BY <1>4, <1>6, EmptySeq
<1>8. Body = answers[Len(answers)]
  <2>1. {BodyLen, Len(buf)} = {BodyLen}
    BY <1>6
  <2>2. Min({BodyLen}) = BodyLen
    <3>1. {BodyLen} \in SUBSET Nat /\ {BodyLen} # {}
      BY <1>4
    <3> QED BY <3>1, MinIs
  <2>3. Body = SubSeq(buf, 1, Len(buf))
    BY <1>6, <2>1, <2>2 DEF Body
  <2>4. SubSeq(buf, 1, Len(buf)) = buf
    BY <1>4, SubSeqFull
  <2>5. buf \o <<>> = buf
    BY <1>4, ConcatEmptySeq
  <2> QED BY <1>2, <1>7, <2>3, <2>4, <2>5
<1>9. /\ Len(results') = Len(results) + 1
      /\ \A k \in 1 .. Len(results) : results'[k] = results[k]
      /\ results'[Len(results) + 1] = Body /\ DOMAIN results' = 1 .. Len(results')
  <2> DEFINE S == Seq(Text) \cup {Body}
  <2>1. results \in Seq(S) /\ Body \in S
    <3>1. results \in Seq(Seq(Text))
      BY DEF TypeOK
    <3>2. Seq(Text) \subseteq S
      OBVIOUS
    <3> HIDE DEF S
    <3> QED BY <3>1, <3>2, SeqMonotonic DEF S
  <2> HIDE DEF S
  <2>2. /\ results' \in Seq(S) /\ Len(results') = Len(results) + 1
        /\ \A k \in 1 .. Len(results) : results'[k] = results[k]
        /\ results'[Len(results) + 1] = Body
    BY ONLY <1>1, <2>1, AppendProperties
  <2> QED BY <2>2, LenProperties
<1>10. BodiesExact'
  <2> SUFFICES ASSUME NEW k \in 1 .. Len(results) + 1 PROVE results'[k] = answers[k]
    BY <1>1, <1>9 DEF BodiesExact
  <2>1. CASE k \in 1 .. Len(results)
    BY <1>1, <1>2, <1>3, <1>9, <2>1 DEF BodiesExact
  <2>2. CASE k = Len(results) + 1
    BY <1>2, <1>8, <1>9, <2>2
  <2> QED BY <1>3, <2>1, <2>2
<1>11. Len(results') = Len(answers') /\ Len(results') <= Len(answers')
  BY <1>1, <1>2, <1>3, <1>9
<1> QED BY <1>1, <1>2, <1>7, <1>10, <1>11 DEF ReaderInv

(* A 401 ends in an error: the header looked for is stored in lower case. *)
LEMMA NoSuchHeader ==
  ASSUME NEW lines
  PROVE  At(lines, AuthKey) = {}
<1>1. ASSUME NEW key PROVE Lower(key) # "WWW-Authenticate"
  BY DEF Lower
<1> QED BY <1>1 DEF At, AuthKey

LEMMA AnswerStep ==
  ASSUME TypeOK, ReaderInv, Answer
  PROVE  ReaderInv'
<1> SUFFICES ASSUME ~spoiled' PROVE ReaderInv'
  BY DEF ReaderInv
<1>1. pending /\ pending' = FALSE /\ UNCHANGED <<pc, buf, results, spoiled>>
  BY DEF Answer, answer
<1>2. PICK code \in {"200", "401"}, body \in Bodies : \E head \in Heads(code) :
        /\ stream' = stream \o head \o Line(<<>>) \o body
        /\ answers' = Append(answers, body)
  BY DEF Answer
<1>3. PICK head \in Heads(code) :
        /\ stream' = stream \o head \o Line(<<>>) \o body
        /\ answers' = Append(answers, body)
  BY <1>2
<1>4. /\ Len(results) <= Len(answers) /\ BodiesExact /\ pc \notin {"idle", "body"}
      /\ pc = "headers" => Awaited
  BY <1>1 DEF ReaderInv, Arriving
<1>5. /\ Len(answers) \in Nat /\ Len(results) \in Nat /\ DOMAIN results = 1 .. Len(results)
  BY Histories
<1>6. /\ Len(answers') = Len(answers) + 1 /\ answers'[Len(answers) + 1] = body
      /\ \A k \in 1 .. Len(answers) : answers'[k] = answers[k]
  <2>1. answers \in Seq(Bodies)
    BY DEF TypeOK
  <2> QED BY ONLY <1>3, <2>1, body \in Bodies, AppendProperties
<1>7. BodiesExact' /\ Len(results') <= Len(answers')
  <2>1. ASSUME NEW k \in 1 .. Len(results) PROVE results[k] = answers'[k]
    BY <1>1, <1>4, <1>5, <1>6 DEF BodiesExact
  <2> QED BY <1>1, <1>4, <1>5, <1>6, <2>1 DEF BodiesExact
<1>8. ASSUME pc = "headers" PROVE Arriving'
  <2>1. stream = <<>> /\ Len(answers) = Len(results)
    BY <1>4, <1>8 DEF Awaited
  <2>2. Good(head)
    BY GoodHeads
  <2>3. stream \o head = head
    BY <2>1, <2>2, ConcatEmptySeq DEF Good
  <2>4. Holds(stream', body)
    BY <1>3, <2>2, <2>3, BodyType, AnswerHolds
  <2>5. ~pending' /\ Len(answers') = Len(results') + 1 /\ answers'[Len(answers')] = body
    BY <1>1, <1>6, <2>1
  <2>6. Holds(stream', answers'[Len(answers')])
    BY <2>4, <2>5
  <2> QED BY <2>5, <2>6 DEF Arriving
<1> QED BY <1>1, <1>4, <1>7, <1>8 DEF ReaderInv

LEMMA ReaderSteps ==
  ASSUME TypeOK, ReaderInv, [Next]_vars
  PROVE  ReaderInv'
<1>1. CASE Request
  <2> SUFFICES ASSUME ~spoiled' PROVE ReaderInv'
    BY DEF ReaderInv
  <2>1. /\ pc = "idle" /\ pc' \in {"headers", "error"}
        /\ UNCHANGED <<stream, answers, results, spoiled>>
    BY <1>1 DEF Request
  <2>2. /\ Len(results) <= Len(answers) /\ BodiesExact
        /\ stream = <<>> /\ Len(answers) = Len(results)
    BY <2>1 DEF ReaderInv
  <2> QED BY <2>1, <2>2 DEF ReaderInv, BodiesExact, Awaited
<1>2. CASE Exit
  BY <1>2 DEF Exit, answer, ReaderInv, BodiesExact
<1>3. CASE Answer
  BY <1>3, AnswerStep
<1>4. CASE Close
  BY <1>4 DEF Close, answer, ReaderInv, BodiesExact, Awaited, Arriving
<1>5. CASE Reset
  BY <1>5 DEF Reset, answer, ReaderInv, BodiesExact
<1>6. CASE RecvHeaders
  BY <1>6, RecvHeadersStep
<1>7. CASE RecvBody
  BY <1>7, RecvBodyStep
<1>8. CASE Return
  BY <1>8, ReturnStep
<1>9. CASE Unauthorised
  <2>1. pc' = "error" /\ UNCHANGED <<answers, results, spoiled>>
    BY <1>9, NoSuchHeader DEF Unauthorised
  <2> QED BY <2>1 DEF ReaderInv, BodiesExact
<1>10. CASE UNCHANGED vars
  BY <1>10 DEF vars, answer, ReaderInv, BodiesExact, Awaited, Arriving
<1> QED BY <1>1, <1>2, <1>3, <1>4, <1>5, <1>6, <1>7, <1>8, <1>9, <1>10 DEF Next, Read

(* As long as no recv left half a line blank, the answer that is being read is *)
(* the one to the last request, and the reader and the connection hold together *)
(* what is left of it and nothing else.                                         *)
THEOREM ReaderInvariant == Spec => []ReaderInv
<1>1. Init => TypeOK /\ ReaderInv
  BY TypeInit, ReaderInit
<1>2. TypeOK /\ ReaderInv /\ [Next]_vars => (TypeOK /\ ReaderInv)'
  BY TypeSteps, ReaderSteps
<1> QED BY <1>1, <1>2, PTL DEF Spec

(* As long as no recv left half a line of headers blank, each request that      *)
(* returns, returns the body sent for it: also when a recv ended inside a line, *)
(* for then the line becomes two, and the headers are refused or end where they *)
(* did.                                                                         *)
THEOREM BodiesReturned == Spec => []BodiesExact
<1>1. ReaderInv => BodiesExact
  BY DEF ReaderInv, BodiesExact
<1> QED BY <1>1, ReaderInvariant, PTL

(* Under the same condition nothing of an answer is left for the next request  *)
(* to read.                                                                    *)
THEOREM ConnectionEmpty == Spec => []NothingLeft
<1>1. ReaderInv => NothingLeft
  BY DEF ReaderInv, NothingLeft
<1> QED BY <1>1, ReaderInvariant, PTL

-----------------------------------------------------------------------------
(* Headers that one recv takes.                                              *)

LEMMA LineLen ==
  ASSUME NEW w \in Seq(Text)
  PROVE  Len(w) \in Nat /\ Len(Line(w)) = Len(w) + 2
<1>1. <<"CR", "LF">> \in Seq(Text) /\ Len(<<"CR", "LF">>) = 2
  BY LineEnd
<1>2. Len(w \o <<"CR", "LF">>) = Len(w) + Len(<<"CR", "LF">>) /\ Len(w) \in Nat
  BY ONLY <1>1, w \in Seq(Text), ConcatProperties, LenProperties
<1> QED BY <1>1, <1>2 DEF Line

(* The headers of an answer are 21 words at most, without the blank line. *)
LEMMA HeadLen ==
  ASSUME NEW code \in {"200", "401"}, NEW h \in Heads(code)
  PROVE  Len(h) \in 0 .. 21
<1> DEFINE status_line == Line(<<"RTSP/1.0", " ", code>>)
           length == Header("Content-Length", "length")
           date == Line(<<"Date", " ", "time", "n">>)
           auth == IF code = "401" THEN Header("WWW-Authenticate", "Digest") ELSE <<>>
           Short(l, n) == l \in Seq(Text) /\ Len(l) \in 0 .. n
<1>1. ASSUME NEW a \in Text, NEW b \in Text PROVE Short(Line(<<a, " ", b>>), 5)
  <2>1. " " \in Text
    BY DEF Text, White
  <2>2. <<a, " ", b>> \in Seq(Text) /\ Len(<<a, " ", b>>) = 3
    BY ONLY <2>1, a \in Text, b \in Text, Triple
  <2>3. <<"CR", "LF">> \in Seq(Text)
    BY LineEnd
  <2>4. Line(<<a, " ", b>>) \in Seq(Text)
    BY <2>2, <2>3, ConcatProperties DEF Line
  <2>5. Len(Line(<<a, " ", b>>)) = 5
    <3>1. Len(Line(<<a, " ", b>>)) = Len(<<a, " ", b>>) + 2
      BY <2>2, LineLen
    <3>2. 3 + 2 = 5
      OBVIOUS
    <3> QED BY ONLY <2>2, <3>1, <3>2, Zenon
  <2>6. 5 \in 0 .. 5
    OBVIOUS
  <2> QED BY <2>4, <2>5, <2>6, Zenon
<1>2. Short(status_line, 5) /\ Short(length, 5) /\ Short(Header("WWW-Authenticate", "Digest"), 5)
  <2> HIDE DEF Short
  <2>1. "RTSP/1.0" \in Text /\ code \in Text /\ "Content-Length" \in Text
        /\ "length" \in Text /\ "WWW-Authenticate" \in Text /\ "Digest" \in Text
    BY DEF Text, Numbers, Keys
  <2> QED BY <1>1, <2>1 DEF Header
<1>3. Short(date, 6)
  <2>1. "Date" \in Text /\ " " \in Text /\ "time" \in Text /\ "n" \in Text
    BY DEF Text, White, Keys, Numbers
  <2>2. <<"Date", " ", "time", "n">> \in Seq(Text) /\ Len(<<"Date", " ", "time", "n">>) = 4
    BY ONLY <2>1, Quadruple
  <2>3. <<"CR", "LF">> \in Seq(Text)
    BY LineEnd
  <2>4. date \in Seq(Text)
    BY <2>2, <2>3, ConcatProperties DEF Line
  <2>5. Len(date) = 6
    <3>1. Len(date) = Len(<<"Date", " ", "time", "n">>) + 2
      BY <2>2, LineLen
    <3>2. 4 + 2 = 6
      OBVIOUS
    <3> HIDE DEF date
    <3> QED BY ONLY <2>2, <3>1, <3>2, Zenon
  <2>6. 6 \in 0 .. 6
    OBVIOUS
  <2> QED BY <2>4, <2>5, <2>6, Zenon
<1>4. Short(auth, 5)
  <2>1. Short(<<>>, 5)
    OBVIOUS
  <2> QED BY <1>2, <2>1
<1>5. ASSUME NEW a, NEW b, NEW m \in Nat, NEW n \in Nat, Short(a, m), Short(b, n)
      PROVE  Short(a \o b, m + n)
  <2>1. a \o b \in Seq(Text) /\ Len(a \o b) = Len(a) + Len(b)
    BY ONLY <1>5, ConcatProperties
  <2> QED BY <1>5, <2>1
<1>6. \/ h = status_line \o length \o date \o auth
      \/ h = status_line \o date \o auth \o length
      \/ h = status_line \o date \o auth
  BY DEF Heads
<1>7. 5 + 5 = 10 /\ 10 + 6 = 16 /\ 16 + 5 = 21 /\ 5 + 6 = 11 /\ 11 + 5 = 16
  OBVIOUS
<1>8. Short(h, 21) \/ Short(h, 16)
  <2> HIDE DEF status_line, length, date, auth, Short
  <2>1. Short(status_line \o length, 10) /\ Short(status_line \o date, 11)
    BY <1>2, <1>3, <1>5, <1>7
  <2>2. Short((status_line \o length) \o date, 16) /\ Short((status_line \o date) \o auth, 16)
    BY <1>3, <1>4, <1>5, <1>7, <2>1
  <2>3. Short(((status_line \o length) \o date) \o auth, 21)
        /\ Short(((status_line \o date) \o auth) \o length, 21)
    BY <1>2, <1>4, <1>5, <1>7, <2>2
  <2> QED BY <1>6, <2>2, <2>3
<1> QED BY <1>8

(* Every recv takes as much as it can, and that much is room for any headers.  *)
OneRecv == MaxPieces = 0 /\ RecvMax >= 23

(* Then no line is ever cut in two, for all headers in the connection end within *)
(* the next recv.                                                               *)
WholeHeads ==
  /\ ~spoiled
  /\ pc = "headers" /\ stream # <<>> => \E z \in 2 .. 23 : HeadEnds(stream, z)

LEMMA WholeSteps ==
  ASSUME OneRecv, TypeOK, ReaderInv, WholeHeads, [Next]_vars
  PROVE  WholeHeads'
<1>1. CASE Request
  <2>1. stream' = <<>> /\ spoiled' = spoiled
    BY <1>1 DEF Request, ReaderInv, WholeHeads
  <2> QED BY <2>1 DEF WholeHeads
<1>2. CASE Answer
  <2>1. /\ pending /\ UNCHANGED <<pc, spoiled>>
        /\ \E code \in {"200", "401"}, body \in Bodies : \E head \in Heads(code) :
             stream' = stream \o head \o Line(<<>>) \o body
    BY <1>2 DEF Answer
  <2>2. PICK code \in {"200", "401"}, body \in Bodies :
          \E head \in Heads(code) : stream' = stream \o head \o Line(<<>>) \o body
    BY <2>1
  <2>3. PICK head \in Heads(code) : stream' = stream \o head \o Line(<<>>) \o body
    BY <2>2
  <2>4. ASSUME pc = "headers" PROVE \E z \in 2 .. 23 : HeadEnds(stream', z)
    <3>1. stream = <<>>
      BY <2>1, <2>4 DEF ReaderInv, WholeHeads, Awaited, Arriving
    <3>2. Good(head) /\ Len(head) \in 0 .. 21
      BY GoodHeads, HeadLen
    <3>3. stream \o head = head
      BY <3>1, <3>2, ConcatEmptySeq DEF Good
    <3>4. HeadEnds(stream', Len(head) + 2)
      BY <2>3, <3>2, <3>3, BodyType, AnswerHolds
    <3>5. Len(head) + 2 \in 2 .. 23
      <4>1. PICK k \in 0 .. 21 : Len(head) = k
        BY <3>2
      <4>2. k + 2 \in 2 .. 23
        OBVIOUS
      <4> QED BY ONLY <4>1, <4>2
    <3> QED BY <3>4, <3>5
  <2> QED BY <2>1, <2>4 DEF WholeHeads
<1>3. CASE RecvHeaders
  <2>1. pc = "headers" /\ stream # <<>> /\ RecvMax \in Nat \ {0}
    BY <1>3, RtspAssumption DEF RecvHeaders
  <2>2. PICK n \in Taken(RecvMax) : \E got \in {Take(SubSeq(stream, 1, n))} :
          /\ IF got.done THEN Parsed(got.headers) ELSE UNCHANGED <<pc, status>>
          /\ spoiled' = (spoiled \/ Spoils(got, stream'))
    BY <1>3 DEF RecvHeaders
  <2> DEFINE c == SubSeq(stream, 1, n)
  <2>3. PICK z \in 2 .. 23 : HeadEnds(stream, z)
    BY <2>1 DEF WholeHeads
  <2>4. n \in 1 .. Len(stream) /\ stream \in Seq(Text) /\ Len(stream) \in Nat
    BY <2>1, TakenRange, LenProperties DEF TypeOK
  <2>5. z <= n
    <3> DEFINE M == {RecvMax, Len(stream)}
    <3>1. M \in SUBSET Nat /\ M # {}
      BY <2>1, <2>4
    <3>2. Min(M) \in M
      BY ONLY <3>1, MinIs
    <3>3. n = Min(M)
      <4>1. ~(pieces < MaxPieces)
        <5>1. pieces \in 0 .. MaxPieces /\ MaxPieces = 0
          BY DEF OneRecv, TypeOK
        <5> QED BY ONLY <5>1
      <4> QED BY <4>1 DEF Taken
    <3>4. z <= Len(stream) /\ z <= RecvMax
      BY <2>1, <2>3, <2>4 DEF HeadEnds, OneRecv
    <3> HIDE DEF M
    <3>5. n \in {RecvMax, Len(stream)}
      BY <3>2, <3>3 DEF M
    <3> QED BY <3>4, <3>5
  <2>6. c \in Seq(Text) /\ Len(c) = n /\ \A i \in 1 .. n : c[i] = stream[i]
    <3>1. 1 \in Nat \ {0} /\ n \in Nat /\ 1 <= n + 1 /\ n <= Len(stream)
      BY <2>4
    <3>2. /\ c \in Seq(Text) /\ Len(c) = n + 1 - 1
          /\ \A i \in 1 .. n + 1 - 1 : c[i] = stream[1 + i - 1]
      BY ONLY <2>4, <3>1, Slice
    <3>3. n + 1 - 1 = n /\ \A i \in 1 .. n : 1 + i - 1 = i
      BY <2>4
    <3> HIDE DEF c
    <3> QED BY <3>2, <3>3
  <2>7. Take(c).done /\ ~Take(c).cut
    <3> HIDE DEF c
    <3>1. HeadEnds(c, z)
      BY ONLY <2>3, <2>4, <2>5, <2>6, HeadFront
    <3> QED BY <2>6, <3>1, HeadFound
  <2>8. (pc' = "body" \/ pc' = "error") /\ spoiled' = spoiled
    BY <2>2, <2>7 DEF Parsed, Spoils, WholeHeads, TypeOK
  <2> QED BY <2>8 DEF WholeHeads
<1>4. CASE Unauthorised
  BY <1>4, NoSuchHeader DEF Unauthorised, WholeHeads
<1>5. CASE Exit \/ Close \/ Reset
  BY <1>5 DEF Exit, Close, Reset, WholeHeads
<1>6. CASE RecvBody \/ Return
  BY <1>6 DEF RecvBody, Return, WholeHeads
<1>7. CASE UNCHANGED vars
  BY <1>7 DEF vars, WholeHeads
<1> QED BY <1>1, <1>2, <1>3, <1>4, <1>5, <1>6, <1>7 DEF Next, Read

(* When one recv takes all the headers of an answer, every request that returns, *)
(* returns the body sent for it, and the next one finds the connection empty,   *)
(* with no other condition: the bodies may be of any length, and hold anything.  *)
THEOREM OneRecvExact ==
  ASSUME OneRecv
  PROVE  Spec => [](~spoiled /\ BodiesExact /\ NothingLeft)
<1>1. Init => TypeOK /\ ReaderInv /\ WholeHeads
  BY TypeInit, ReaderInit DEF Init, WholeHeads
<1>2. TypeOK /\ ReaderInv /\ WholeHeads /\ [Next]_vars => (TypeOK /\ ReaderInv /\ WholeHeads)'
  BY TypeSteps, ReaderSteps, WholeSteps
<1>3. ReaderInv /\ WholeHeads => ~spoiled /\ BodiesExact /\ NothingLeft
  BY DEF ReaderInv, WholeHeads, BodiesExact, NothingLeft
<1> QED BY <1>1, <1>2, <1>3, PTL DEF Spec
=============================================================================
