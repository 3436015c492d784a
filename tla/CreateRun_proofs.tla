-------------------------- MODULE CreateRun_proofs --------------------------
(***************************************************************************)
(* Proofs about the two things createRun puts together.  First the message *)
(* (SlackMessage), for any items, texts and limits, from MessageAssumption *)
(* and LiteralAssumption: nothing of it is lost where it is split, every   *)
(* block fits, no entity and no word is divided.  Then the selection of    *)
(* the item (Rotation), for any items, types, dates and number of          *)
(* overlapping calls, from RotationAssumption.                             *)
(***************************************************************************)
EXTENDS Rotation, SlackMessage, SequenceTheorems, FiniteSetTheorems, FunctionTheorems,
        WellFoundedInduction, TLAPS

(* Induction, as far as it goes here: a set of numbers has a least one.     *)
LEMMA LeastOf ==
  ASSUME NEW s \in SUBSET Nat, s # {}
  PROVE  \E i \in s : \A j \in s : i <= j
<1>1. PICK i \in s : \A j \in s : ~(<<j, i>> \in OpToRel(<, Nat))
  BY NatLessThanWellFounded, WFMin
<1>2. \A j \in s : i <= j
  <2> SUFFICES ASSUME NEW j \in s PROVE i <= j
    OBVIOUS
  <2>1. ~(j < i)
    BY <1>1 DEF OpToRel
  <2>2. QED
    BY <2>1
<1>3. QED
  BY <1>2

-----------------------------------------------------------------------------
(* Concatenation.  FlattenSeq is a recursive function over the places of    *)
(* its argument; what follows is its defining equation, and what that means *)
(* for the first and the last element of a sequence.                        *)

(* f holds, at each place up to n, the concatenation of s up to there.      *)
Flattens(f, s, n) ==
  f = [i \in 1..n |-> IF i = 1 THEN s[i] ELSE f[i - 1] \o s[i]]

LEMMA AFunctionIsASeq ==
  ASSUME NEW S, NEW n \in Nat, NEW f \in [1..n -> S]
  PROVE  f \in Seq(S) /\ Len(f) = n /\ DOMAIN f = 1..n
OBVIOUS

LEMMA FlattensExists ==
  ASSUME NEW S, NEW s \in Seq(Seq(S)), NEW n \in 0..Len(s)
  PROVE  \E f \in [1..n -> Seq(S)] : Flattens(f, s, n)
<1> DEFINE Bad == {m \in 0..Len(s) : ~\E f \in [1..m -> Seq(S)] : Flattens(f, s, m)}
<1>1. Len(s) \in Nat /\ \A i \in 1..Len(s) : s[i] \in Seq(S)
  OBVIOUS
<1>2. CASE Bad = {}
  BY <1>2
<1>3. CASE Bad # {}
  <2>1. PICK m \in Bad : \A l \in Bad : m <= l
    <3>1. Bad \in SUBSET Nat
      BY <1>1
    <3>2. QED
      BY <3>1, <1>3, LeastOf
  <2>2. m \in 0..Len(s) /\ m \in Nat /\ ~\E f \in [1..m -> Seq(S)] : Flattens(f, s, m)
    BY <1>1
  <2>3. CASE m = 0
    <3> DEFINE f == [i \in 1..0 |-> <<>>]
    <3>1. f \in [1..0 -> Seq(S)]
      OBVIOUS
    <3>2. Flattens(f, s, 0)
      BY DEF Flattens
    <3>3. QED
      BY <3>1, <3>2, <2>2, <2>3
  <2>4. CASE m # 0
    <3>1. PICK k \in Nat : m = k + 1
      <4>1. m - 1 \in Nat /\ m = (m - 1) + 1
        BY <2>2, <2>4
      <4>2. QED
        BY <4>1
    <3>2. k \in 0..Len(s) /\ k \notin Bad
      BY <2>1, <2>2, <3>1
    <3>3. PICK f \in [1..k -> Seq(S)] : Flattens(f, s, k)
      BY <3>2
    <3> DEFINE g == [i \in 1..m |-> IF i # m THEN f[i] ELSE
                                    IF m = 1 THEN s[m] ELSE f[k] \o s[m]]
    <3>4. s[m] \in Seq(S)
      BY <1>1, <2>2, <2>4
    <3>5. m # 1 => f[k] \in Seq(S) /\ f[k] \o s[m] \in Seq(S)
      BY <3>1, <3>3, <3>4
    <3>6. ASSUME NEW i \in 1..m
          PROVE  g[i] \in Seq(S)
      BY <3>1, <3>3, <3>4, <3>5
    <3>7. g \in [1..m -> Seq(S)]
      BY <3>6
    <3>8. ASSUME NEW i \in 1..m
          PROVE  g[i] = IF i = 1 THEN s[i] ELSE g[i - 1] \o s[i]
      <4>1. CASE i = m
        BY <4>1, <3>1
      <4>2. CASE i # m
        <5>1. i \in 1..k /\ g[i] = f[i] /\ (i # 1 => i - 1 \in 1..m /\ i - 1 # m)
          BY <4>2, <3>1
        <5>2. f[i] = IF i = 1 THEN s[i] ELSE f[i - 1] \o s[i]
          BY <3>3, <5>1 DEF Flattens
        <5>3. QED
          BY <5>1, <5>2
      <4>3. QED
        BY <4>1, <4>2
    <3>9. Flattens(g, s, m)
      BY <3>8 DEF Flattens
    <3>10. QED
      BY <3>7, <3>9, <2>2
  <2>5. QED
    BY <2>3, <2>4
<1>4. QED
  BY <1>2, <1>3

(* The same, of the values alone.                                           *)
Accumulates(f, s, n) ==
  \A i \in 1..n : f[i] = IF i = 1 THEN s[i] ELSE f[i - 1] \o s[i]

LEMMA AccumulatesAlike ==
  ASSUME NEW s, NEW n \in Nat, NEW f, NEW g, Accumulates(f, s, n), Accumulates(g, s, n)
  PROVE  \A i \in 1..n : f[i] = g[i]
<1> DEFINE Bad == {i \in 1..n : f[i] # g[i]}
<1>1. CASE Bad = {}
  BY <1>1
<1>2. CASE Bad # {}
  <2>1. Bad \in SUBSET Nat
    OBVIOUS
  <2>2. PICK i \in Bad : \A l \in Bad : i <= l
    BY <2>1, <1>2, LeastOf
  <2>3. i \in 1..n /\ f[i] # g[i]
    OBVIOUS
  <2>4. /\ f[i] = IF i = 1 THEN s[i] ELSE f[i - 1] \o s[i]
        /\ g[i] = IF i = 1 THEN s[i] ELSE g[i - 1] \o s[i]
    BY <2>3 DEF Accumulates
  <2>5. i # 1 => f[i - 1] = g[i - 1]
    <3>1. i # 1 => i - 1 \in 1..n /\ ~(i <= i - 1)
      BY <2>3
    <3>2. QED
      BY <3>1, <2>2
  <2>6. QED
    BY <2>3, <2>4, <2>5
<1>3. QED
  BY <1>1, <1>2

LEMMA FlattenSeqIs ==
  ASSUME NEW S, NEW s \in Seq(Seq(S)), s # <<>>,
         NEW f, Flattens(f, s, Len(s))
  PROVE  FlattenSeq(s) = f[Len(s)]
<1> DEFINE F == CHOOSE g : g = [i \in 1..Len(s) |-> IF i = 1 THEN s[i] ELSE g[i - 1] \o s[i]]
<1>1. Len(s) \in Nat /\ Len(s) # 0
  OBVIOUS
<1>2. FlattenSeq(s) = F[Len(s)]
  BY <1>1, Zenon DEF FlattenSeq
<1>3. Flattens(F, s, Len(s))
  BY Zenon DEF Flattens
<1> HIDE DEF F
<1>4. Len(s) \in 1..Len(s)
  BY <1>1
<1>5. Accumulates(F, s, Len(s)) /\ Accumulates(f, s, Len(s))
  BY <1>3 DEF Flattens, Accumulates
<1>6. \A i \in 1..Len(s) : F[i] = f[i]
  BY <1>1, <1>5, AccumulatesAlike
<1>7. QED
  BY <1>2, <1>4, <1>6

LEMMA FlattenEmpty == FlattenSeq(<<>>) = <<>>
<1>1. Len(<<>>) = 0
  OBVIOUS
<1>2. QED
  BY <1>1, Zenon DEF FlattenSeq

LEMMA FlattenType ==
  ASSUME NEW S, NEW s \in Seq(Seq(S))
  PROVE  FlattenSeq(s) \in Seq(S)
<1>1. CASE s = <<>>
  BY <1>1, FlattenEmpty, EmptySeq
<1>2. CASE s # <<>>
  <2>1. Len(s) \in 0..Len(s) /\ Len(s) \in 1..Len(s)
    BY <1>2
  <2>2. PICK f \in [1..Len(s) -> Seq(S)] : Flattens(f, s, Len(s))
    BY <2>1, FlattensExists
  <2>3. FlattenSeq(s) = f[Len(s)]
    BY <1>2, <2>2, FlattenSeqIs
  <2>4. QED
    BY <2>1, <2>2, <2>3
<1>3. QED
  BY <1>1, <1>2

(* The last element is put at the end.                                      *)
LEMMA FlattenAppend ==
  ASSUME NEW S, NEW s \in Seq(Seq(S)), NEW x \in Seq(S)
  PROVE  FlattenSeq(Append(s, x)) = FlattenSeq(s) \o x
<1> DEFINE t == Append(s, x)
<1>n. PICK n \in Nat : n = Len(s)
  BY LenProperties
<1>1. /\ n \in 0..n /\ n \in 0..Len(s) /\ t \in Seq(Seq(S)) /\ t # <<>> /\ Len(t) = n + 1
      /\ \A i \in 1..n : t[i] = s[i]
      /\ t[n + 1] = x
  BY <1>n, AppendProperties
<1>2. PICK g \in [1..(n + 1) -> Seq(S)] : Flattens(g, t, n + 1)
  <2>1. n + 1 \in 0..Len(t)
    BY <1>1
  <2>2. QED
    BY <1>1, <2>1, FlattensExists
<1> HIDE DEF t
<1>3. FlattenSeq(t) = g[n + 1]
  BY <1>1, <1>2, FlattenSeqIs
<1>4. g[n + 1] = IF n + 1 = 1 THEN x ELSE g[n] \o x
  <2>1. n + 1 \in 1..(n + 1) /\ (n + 1) - 1 = n
    BY <1>1
  <2>2. g[n + 1] = IF n + 1 = 1 THEN t[n + 1] ELSE g[(n + 1) - 1] \o t[n + 1]
    BY <1>2, <2>1 DEF Flattens
  <2>3. QED
    BY <2>1, <2>2, <1>1
<1>5. CASE n = 0
  <2>1. s = <<>>
    BY <1>5, <1>n
  <2>2. FlattenSeq(s) \o x = x
    BY <2>1, FlattenEmpty, ConcatEmptySeq
  <2>3. QED
    BY <1>3, <1>4, <1>5, <2>2 DEF t
<1>6. CASE n # 0
  <2>1. PICK f \in [1..n -> Seq(S)] : Flattens(f, s, n)
    BY <1>1, FlattensExists
  <2>2. FlattenSeq(s) = f[n]
    BY <1>6, <1>n, <2>1, FlattenSeqIs
  <2>3. f[n] = g[n]
    <3>1. n \in 1..n /\ n <= n + 1 /\ n + 1 \in Nat
      BY <1>1, <1>6
    <3>2. Accumulates(f, s, n) /\ Accumulates(g, s, n)
      <4>1. Accumulates(f, s, n)
        BY <2>1 DEF Flattens, Accumulates
      <4>2. \A i \in 1..n : i \in 1..(n + 1) /\ g[i] = IF i = 1 THEN t[i] ELSE g[i - 1] \o t[i]
        <5>1. \A i \in 1..n : i \in 1..(n + 1)
          OBVIOUS
        <5>2. \A i \in 1..(n + 1) : g[i] = IF i = 1 THEN t[i] ELSE g[i - 1] \o t[i]
          BY <1>2 DEF Flattens
        <5>3. QED
          BY <5>1, <5>2
      <4>3. Accumulates(g, s, n)
        BY <4>2, <1>1 DEF Accumulates
      <4>4. QED
        BY <4>1, <4>3
    <3>4. \A i \in 1..n : f[i] = g[i]
      BY <3>2, AccumulatesAlike
    <3>3. QED
      BY <3>1, <3>4
  <2>4. QED
    BY <1>1, <1>3, <1>4, <1>6, <2>2, <2>3 DEF t
<1>7. QED
  BY <1>5, <1>6

(* The first is put in front.                                               *)
LEMMA FlattenFirst ==
  ASSUME NEW S, NEW s \in Seq(Seq(S)), s # <<>>
  PROVE  FlattenSeq(s) = Head(s) \o FlattenSeq(Tail(s))
<1> DEFINE t == Tail(s)
           x == Head(s)
<1>n. PICK n \in Nat : n = Len(t) /\ Len(s) = n + 1
  BY HeadTailProperties, LenProperties
<1>1. /\ t \in Seq(Seq(S)) /\ x \in Seq(S) /\ s[1] = x
      /\ \A i \in 1..n : t[i] = s[i + 1] /\ t[i] \in Seq(S)
  BY <1>n, HeadTailProperties, ElementOfSeq
<1>2. PICK f \in [1..(n + 1) -> Seq(S)] : Flattens(f, s, n + 1)
  <2>1. n + 1 \in 0..Len(s)
    BY <1>n
  <2>2. QED
    BY <1>n, <2>1, FlattensExists
<1>3. PICK g \in [1..n -> Seq(S)] : Flattens(g, t, n)
  <2>1. n \in 0..Len(t)
    BY <1>n
  <2>2. QED
    BY <1>n, <1>1, <2>1, FlattensExists
<1> HIDE DEF t, x
<1>4. \A i \in 1..(n + 1) : f[i] = IF i = 1 THEN s[i] ELSE f[i - 1] \o s[i]
  BY <1>2 DEF Flattens
<1>5. \A i \in 1..n : g[i] = IF i = 1 THEN t[i] ELSE g[i - 1] \o t[i]
  BY <1>3 DEF Flattens
<1>6. FlattenSeq(s) = f[n + 1]
  BY <1>2, <1>n, FlattenSeqIs
<1>7. CASE n = 0
  <2>1. t = <<>>
    BY <1>7, <1>n, <1>1
  <2>2. f[1] = x
    BY <1>4, <1>7, <1>1
  <2>3. x \o FlattenSeq(t) = x
    BY <1>1, <2>1, FlattenEmpty, ConcatEmptySeq
  <2>4. QED
    BY <1>6, <1>7, <2>2, <2>3 DEF x, t
<1>8. CASE n # 0
  <2> DEFINE Bad == {i \in 1..n : f[i + 1] # x \o g[i]}
  <2>1. ASSUME NEW i \in 1..n, \A l \in 1..n : l < i => f[l + 1] = x \o g[l]
        PROVE  f[i + 1] = x \o g[i]
    <3>1. i + 1 \in 1..(n + 1) /\ i + 1 # 1 /\ (i + 1) - 1 = i
      OBVIOUS
    <3>2. f[i + 1] = f[i] \o t[i]
      BY <1>4, <1>1, <3>1
    <3>3. CASE i = 1
      <4>1. 1 \in 1..n /\ 1 \in 1..(n + 1)
        BY <3>3
      <4>2. f[1] = s[1]
        BY <4>1, <1>4
      <4>3. g[1] = t[1]
        BY <4>1, <1>5
      <4>4. QED
        BY <4>2, <4>3, <1>1, <3>2, <3>3
    <3>4. CASE i # 1
      <4>1. PICK l \in 1..n : i = l + 1 /\ l < i /\ i - 1 = l
        BY <3>4
      <4>2. f[i] = x \o g[l]
        BY <4>1, <2>1
      <4>3. g[i] = g[l] \o t[i]
        BY <4>1, <3>4, <1>5
      <4>4. x \in Seq(S) /\ g[l] \in Seq(S) /\ t[i] \in Seq(S)
        BY <1>1, <1>3
      <4>5. (x \o g[l]) \o t[i] = x \o (g[l] \o t[i])
        <5>0. PICK w \in Seq(S) : w = x
          BY <4>4
        <5>1. PICK y \in Seq(S) : y = g[l]
          BY <4>4
        <5>2. PICK z \in Seq(S) : z = t[i]
          BY <4>4
        <5>3. (w \o y) \o z = w \o (y \o z)
          BY ONLY ConcatAssociative, w \in Seq(S), y \in Seq(S), z \in Seq(S)
        <5>4. QED
          BY <5>0, <5>1, <5>2, <5>3, Zenon
      <4>6. QED
        BY <3>2, <4>2, <4>3, <4>5
    <3>5. QED
      BY <3>3, <3>4
  <2>2. CASE Bad # {}
    <3>1. Bad \in SUBSET Nat
      OBVIOUS
    <3>2. PICK i \in Bad : \A l \in Bad : i <= l
      BY <2>2, <3>1, LeastOf
    <3>3. i \in 1..n /\ f[i + 1] # x \o g[i]
      OBVIOUS
    <3>5. ASSUME NEW l \in 1..n, l < i
          PROVE  f[l + 1] = x \o g[l]
      <4>1. ~(i <= l)
        BY <3>3, <3>5
      <4>2. QED
        BY <4>1, <3>2
    <3>6. QED
      BY <3>3, <3>5, <2>1
  <2>3. CASE Bad = {}
    <3>1. n \in 1..n
      BY <1>8
    <3>2. f[n + 1] = x \o g[n]
      BY <3>1, <2>3
    <3>3. FlattenSeq(t) = g[n]
      <4>1. Len(t) = n
        BY <1>n DEF t
      <4>2. t # <<>> /\ Flattens(g, t, Len(t))
        BY <4>1, <1>3, <1>8
      <4>3. FlattenSeq(t) = g[Len(t)]
        BY <4>2, <1>1, FlattenSeqIs
      <4>4. QED
        BY <4>1, <4>3
    <3>4. QED
      BY <1>6, <3>2, <3>3 DEF x, t
  <2>4. QED
    BY <2>2, <2>3
<1>9. QED
  BY <1>7, <1>8

LEMMA FlattenOne ==
  ASSUME NEW S, NEW x \in Seq(S)
  PROVE  FlattenSeq(<<x>>) = x
<1>1. Append(<<>>, x) = <<x>> /\ <<>> \in Seq(Seq(S))
  OBVIOUS
<1>2. FlattenSeq(Append(<<>>, x)) = FlattenSeq(<<>>) \o x
  BY <1>1, FlattenAppend
<1>3. QED
  BY <1>1, <1>2, FlattenEmpty, ConcatEmptySeq

-----------------------------------------------------------------------------
(* Where texts are cut.                                                     *)

LEMMA MaxOf ==
  ASSUME NEW n \in Nat, NEW s \in SUBSET (0..n), s # {}
  PROVE  Max(s) \in s /\ \A y \in s : Max(s) >= y
<1> DEFINE Gaps == {k \in 0..n : n - k \in s}
<1>1. Gaps \in SUBSET Nat
  OBVIOUS
<1>2. PICK x \in s : x \in 0..n
  OBVIOUS
<1>3. n - x \in 0..n /\ n - (n - x) = x
  BY <1>2
<1>4. Gaps # {}
  BY <1>2, <1>3
<1>5. PICK k \in Gaps : \A l \in Gaps : k <= l
  BY <1>1, <1>4, LeastOf
<1>6. k \in 0..n /\ n - k \in s
  OBVIOUS
<1>7. ASSUME NEW y \in s
      PROVE  n - k >= y
  <2>1. y \in 0..n /\ n - y \in 0..n /\ n - (n - y) = y
    OBVIOUS
  <2>2. n - y \in Gaps
    BY <2>1
  <2>3. k <= n - y
    BY <1>5, <2>2
  <2>4. QED
    BY <1>6, <2>1, <2>3
<1>8. \E z \in s : \A y \in s : z >= y
  BY <1>6, <1>7
<1>9. QED
  BY <1>8, Zenon DEF Max

(* In a window, the last whole grapheme within its length ends it.          *)
LEMMA GraphemeCutOfWindow ==
  ASSUME NEW w \in Text, w # <<>>
  PROVE  graphemeCut(w, Len(w)) = Len(w)
<1> DEFINE ends == {i \in DOMAIN w : i <= Len(w) /\ (i = Len(w) \/ w[i + 1] # Mark)}
<1>1. PICK n \in Nat : n = Len(w) /\ DOMAIN w = 1..n /\ n \in 1..n
  BY DEF Text
<1>2. n \in ends /\ ends \in SUBSET (0..n)
  BY <1>1
<1>3. Max(ends) \in ends /\ Max(ends) >= n
  BY <1>2, MaxOf
<1>4. Max(ends) \in 0..n
  BY <1>2, <1>3
<1>5. Max(ends) = n
  BY <1>3, <1>4
<1>6. graphemeCut(w, Len(w)) = IF ends = {} THEN Len(w) ELSE Max(ends)
  BY Zenon DEF graphemeCut
<1> HIDE DEF ends
<1>7. QED
  BY <1>1, <1>2, <1>5, <1>6

(* The shape of an entity of n characters.                                  *)
EntityLike(e, n) ==
  /\ Len(e) = n /\ e[1] = "&"
  /\ \A k \in 1..n : e[k] # " " /\ e[k] # "\n"
  /\ \A k \in 2..n : e[k] # "&"
  /\ \A k \in 1..(n - 1) : e[k] # ";"

LEMMA UpToFive ==
  /\ \A k \in 1..5 : k = 1 \/ k = 2 \/ k = 3 \/ k = 4 \/ k = 5
  /\ \A k \in 2..5 : k = 2 \/ k = 3 \/ k = 4 \/ k = 5
  /\ \A k \in 1..(5 - 1) : k = 1 \/ k = 2 \/ k = 3 \/ k = 4
OBVIOUS

LEMMA UpToFour ==
  /\ \A k \in 1..4 : k = 1 \/ k = 2 \/ k = 3 \/ k = 4
  /\ \A k \in 2..4 : k = 2 \/ k = 3 \/ k = 4
  /\ \A k \in 1..(4 - 1) : k = 1 \/ k = 2 \/ k = 3
OBVIOUS

LEMMA Ampersand ==
  ASSUME NEW e, e = <<"&", "a", "m", "p", ";">> PROVE EntityLike(e, 5)
<1>1. Len(e) = 5
  OBVIOUS
<1>2. e[1] = "&" /\ e[2] = "a" /\ e[3] = "m" /\ e[4] = "p" /\ e[5] = ";"
  OBVIOUS
<1>3. QED
  BY ONLY <1>1, <1>2, UpToFive, Zenon DEF EntityLike

LEMMA LessThan ==
  ASSUME NEW e, e = <<"&", "l", "t", ";">> PROVE EntityLike(e, 4)
<1>1. Len(e) = 4
  OBVIOUS
<1>2. e[1] = "&" /\ e[2] = "l" /\ e[3] = "t" /\ e[4] = ";"
  OBVIOUS
<1>3. QED
  BY ONLY <1>1, <1>2, UpToFour, Zenon DEF EntityLike

LEMMA GreaterThan ==
  ASSUME NEW e, e = <<"&", "g", "t", ";">> PROVE EntityLike(e, 4)
<1>1. Len(e) = 4
  OBVIOUS
<1>2. e[1] = "&" /\ e[2] = "g" /\ e[3] = "t" /\ e[4] = ";"
  OBVIOUS
<1>3. QED
  BY ONLY <1>1, <1>2, UpToFour, Zenon DEF EntityLike

LEMMA EntityShape ==
  ASSUME NEW e, e \in Entities
  PROVE  \E n \in 4..5 : EntityLike(e, n)
<1>1. \/ e = <<"&", "a", "m", "p", ";">> \/ e = <<"&", "l", "t", ";">>
      \/ e = <<"&", "g", "t", ";">>
  <2>1. PICK ch \in {"&", "<", ">"} : e = Entity(ch)
    BY Zenon DEF Entities
  <2>2. ch = "&" \/ ch = "<" \/ ch = ">"
    OBVIOUS
  <2>3. "&" # "<" /\ "&" # ">" /\ "<" # ">"
    OBVIOUS
  <2>4. ch = "&" => e = <<"&", "a", "m", "p", ";">>
    BY <2>1, <2>3, Zenon DEF Entity
  <2>5. ch = "<" => e = <<"&", "l", "t", ";">>
    BY <2>1, <2>3, Zenon DEF Entity
  <2>6. ch = ">" => e = <<"&", "g", "t", ";">>
    BY <2>1, <2>3, Zenon DEF Entity
  <2>7. QED
    BY <2>2, <2>4, <2>5, <2>6
<1>2. EntityLike(e, 5) \/ EntityLike(e, 4)
  BY <1>1, Ampersand, LessThan, GreaterThan, Zenon
<1>3. 4 \in 4..5 /\ 5 \in 4..5
  OBVIOUS
<1>4. QED
  BY <1>2, <1>3, Zenon

(* What a cut that divides an entity divides: an ampersand at most three    *)
(* places before its last character, without a semicolon up to there.       *)
LEMMA Divided ==
  ASSUME NEW t \in Text, NEW cut \in Nat, Divides(t, cut)
  PROVE  \E i \in 1..cut :
           /\ cut - 4 < i /\ t[i] = "&"
           /\ \A j \in i..cut : t[j] # ";" /\ t[j] # " " /\ t[j] # "\n"
           /\ \A j \in (i + 1)..(cut + 1) : t[j] # "&"
<1>1. PICK e \in Entities, i \in 1..cut :
        /\ i + Len(e) - 1 \in (cut + 1)..Len(t)
        /\ \A k \in 1..Len(e) : t[i + k - 1] = e[k]
  BY Zenon DEF Divides
<1>2. PICK n \in 4..5 : EntityLike(e, n)
  BY <1>1, EntityShape, Zenon
<1>3. Len(e) = n
  BY <1>2, Zenon DEF EntityLike
<1>4. cut + 1 <= i + n - 1
  BY <1>1, <1>3
<1>5. cut - 4 < i
  BY ONLY <1>4, n \in 4..5, i \in 1..cut, cut \in Nat
<1>6. \A k \in 1..n : t[i + k - 1] = e[k]
  BY <1>1, <1>3, Zenon
<1>7. t[i] = "&"
  <2>1. 1 \in 1..n /\ i + 1 - 1 = i
    BY ONLY n \in 4..5, i \in 1..cut, cut \in Nat
  <2>2. t[i + 1 - 1] = e[1]
    BY <1>6, <2>1, Zenon
  <2>3. QED
    BY <2>1, <2>2, <1>2, Zenon DEF EntityLike
<1>8. ASSUME NEW j \in i..(cut + 1)
      PROVE  \E k \in 1..n : t[j] = e[k] /\ i + k - 1 = j
  <2>1. j - i + 1 \in 1..n /\ i + (j - i + 1) - 1 = j
    BY ONLY <1>4, j \in i..(cut + 1), n \in 4..5, i \in 1..cut, cut \in Nat
  <2>2. t[i + (j - i + 1) - 1] = e[j - i + 1]
    BY <1>6, <2>1, Zenon
  <2>3. QED
    BY <2>1, <2>2, Zenon
<1>9. ASSUME NEW j \in i..cut
      PROVE  t[j] # ";" /\ t[j] # " " /\ t[j] # "\n"
  <2>1. j \in i..(cut + 1)
    OBVIOUS
  <2>2. PICK k \in 1..n : t[j] = e[k] /\ i + k - 1 = j
    BY <1>8, <2>1, Zenon
  <2>3. k \in 1..(n - 1)
    BY ONLY <2>2, <1>4, j \in i..cut, k \in 1..n, n \in 4..5, i \in 1..cut, cut \in Nat
  <2>4. QED
    BY <2>2, <2>3, <1>2, Zenon DEF EntityLike
<1>10. ASSUME NEW j \in (i + 1)..(cut + 1)
       PROVE  t[j] # "&"
  <2>1. j \in i..(cut + 1)
    OBVIOUS
  <2>2. PICK k \in 1..n : t[j] = e[k] /\ i + k - 1 = j
    BY <1>8, <2>1, Zenon
  <2>3. k \in 2..n
    BY ONLY <2>2, j \in (i + 1)..(cut + 1), k \in 1..n, n \in 4..5, i \in 1..cut, cut \in Nat
  <2>4. QED
    BY <2>2, <2>3, <1>2, Zenon DEF EntityLike
<1>11. QED
  BY <1>5, <1>7, <1>9, <1>10, Zenon

(* The window of a text: its first n characters.                            *)
Window(w, t, n) ==
  /\ t \in Text /\ w \in Text /\ n \in Nat /\ n >= 5 /\ Len(t) > n
  /\ Len(w) = n /\ DOMAIN w = 1..n
  /\ \A i \in 1..n : w[i] = t[i]

LEMMA SubSeqIsWindow ==
  ASSUME NEW t \in Text, NEW n \in Nat, n >= 5, Len(t) > n
  PROVE  Window(SubSeq(t, 1, n), t, n)
BY SubSeqProperties DEF Window, Text

(* Stepping back before an entity that the window's end divides divides no  *)
(* other; where there is no room to step back, there was none to divide.    *)
LEMMA EntitySafe ==
  ASSUME NEW w, NEW t, NEW n \in Nat, n >= 5, Window(w, t, n), NEW c, c = entitySafeCut(w, n)
  PROVE  c \in 0..n /\ ~Divides(t, IF c > 0 THEN c ELSE n)
<1> DEFINE D == {i \in DOMAIN w : /\ n - 5 < i /\ i <= n
                                  /\ w[i] = "&"
                                  /\ \A j \in i..n : w[j] # ";"}
<1>1. c = IF D = {} THEN n ELSE Max(D) - 1
  BY Zenon DEF entitySafeCut
<1>2. /\ n \in Nat /\ n >= 5 /\ t \in Text /\ DOMAIN w = 1..n
      /\ \A i \in 1..n : w[i] = t[i]
  BY Zenon DEF Window
<1>3. D \in SUBSET (0..n)
  <2>1. DOMAIN w \subseteq 0..n
    BY <1>2
  <2>2. QED
    BY <2>1, Zenon
<1>4. ASSUME Divides(t, n)
      PROVE  \E i \in D : n - 4 < i
  <2>1. PICK i \in 1..n :
          /\ n - 4 < i /\ t[i] = "&"
          /\ \A j \in i..n : t[j] # ";" /\ t[j] # " " /\ t[j] # "\n"
          /\ \A j \in (i + 1)..(n + 1) : t[j] # "&"
    BY <1>2, <1>4, Divided
  <2>0. n - 4 < i
    BY <2>1, Zenon
  <2>2. n - 5 < i /\ i <= n
    BY ONLY <2>0, i \in 1..n, n \in Nat
  <2>3. \A j \in i..n : j \in 1..n
    BY ONLY i \in 1..n, n \in Nat
  <2>4. \A j \in i..n : w[j] # ";"
    BY <1>2, <2>1, <2>3, Zenon
  <2>5. w[i] = "&" /\ i \in DOMAIN w
    BY <1>2, <2>1, Zenon
  <2>6. QED
    BY <2>0, <2>2, <2>4, <2>5, Zenon
<1>5. CASE D = {}
  <2>1. c = n
    BY <1>1, <1>5
  <2>2. ~Divides(t, n)
    BY <1>4, <1>5, Zenon
  <2>3. c \in 0..n /\ c > 0
    BY ONLY <2>1, n \in Nat, n >= 5
  <2>4. QED
    BY <2>1, <2>2, <2>3, Zenon
<1>6. CASE D # {}
  <2>1. Max(D) \in D /\ \A y \in D : Max(D) >= y
    BY <1>2, <1>3, <1>6, MaxOf
  <2>2. PICK m : m = Max(D)
    OBVIOUS
  <2>3. /\ m \in D /\ \A y \in D : m >= y
        /\ c = m - 1
    BY <1>1, <1>6, <2>1, <2>2, Zenon
  <2>4. m \in 1..n /\ n - 5 < m /\ w[m] = "&"
    BY <2>3, <1>2, Zenon
  <2>9. m \in 1..n /\ n - 5 < m /\ c = m - 1
    BY <2>3, <2>4, Zenon
  <2>5. c \in 0..n /\ c + 1 = m
    BY ONLY <2>9, n \in Nat
  <2>6. CASE c > 0
    <3>1. ASSUME Divides(t, c)
          PROVE  FALSE
      <4>1. PICK i \in 1..c : \A j \in (i + 1)..(c + 1) : t[j] # "&"
        <5>1. c \in Nat
          BY <2>5
        <5>2. QED
          BY <1>2, <3>1, <5>1, Divided
      <4>2. m \in (i + 1)..(c + 1)
        BY ONLY <2>9, <2>5, i \in 1..c, n \in Nat
      <4>3. t[m] = "&"
        BY <1>2, <2>4, Zenon
      <4>4. QED
        BY <4>1, <4>2, <4>3, Zenon
    <3>2. QED
      BY <2>5, <2>6, <3>1
  <2>7. CASE ~(c > 0)
    <3>1. m = 1 /\ n - 4 >= m
      BY ONLY <2>9, <2>5, <2>7, n \in Nat, n >= 5
    <3>2. ASSUME Divides(t, n)
          PROVE  FALSE
      <4>1. PICK i \in 1..n : i \in D /\ n - 4 < i
        BY <1>2, <1>4, <3>2, Zenon
      <4>2. m >= i /\ n - 4 < i
        BY <2>3, <4>1, Zenon
      <4>3. QED
        BY ONLY <3>1, <4>2, <2>9, n \in Nat, i \in 1..n
    <3>3. QED
      BY <2>5, <2>7, <3>2
  <2>8. QED
    BY <2>6, <2>7
<1>7. QED
  BY <1>5, <1>6

(* A place of a kind better than the last is whitespace; of the last kind   *)
(* there is whitespace at the very start of the window only.                *)
LEMMA KindsOfBreaks ==
  ASSUME NEW w, NEW i \in Nat
  PROVE  /\ BreakKind(w, i) \in 1..5
         /\ BreakKind(w, i) # 5 => w[i] \in Whitespace
         /\ BreakKind(w, i) = 5 /\ i > 1 => w[i] \notin Whitespace
<1>1. \/ BreakKind(w, i) = 1 /\ w[i] \in Whitespace
      \/ BreakKind(w, i) = 2 /\ w[i] \in Whitespace
      \/ BreakKind(w, i) = 3 /\ w[i] \in Whitespace
      \/ BreakKind(w, i) = 4 /\ w[i] \in Whitespace
      \/ BreakKind(w, i) = 5 /\ (i > 1 => w[i] \notin Whitespace)
  BY DEF BreakKind, Whitespace
<1>2. QED
  BY <1>1

(* With a place to break at, the chosen one is whitespace.                  *)
LEMMA ChosenBreak ==
  ASSUME NEW w, NEW n \in Nat, DOMAIN w = 1..n, NEW j \in 1..n, BreakKind(w, j) # 5
  PROVE  findBreakpoint(w) \in 1..n /\ w[findBreakpoint(w)] \in Whitespace
<1> DEFINE Better(i, l) == \/ BreakKind(w, i) < BreakKind(w, l)
                           \/ BreakKind(w, i) = BreakKind(w, l) /\ l < i
           Best(i) == \A l \in DOMAIN w \ {i} : Better(i, l)
           kinds == {BreakKind(w, i) : i \in 1..n}
           c == findBreakpoint(w)
<1>1. PICK k \in kinds : \A l \in kinds : k <= l
  <2>1. kinds \in SUBSET Nat /\ kinds # {}
    BY KindsOfBreaks
  <2>2. QED
    BY <2>1, LeastOf
<1> DEFINE places == {i \in 1..n : BreakKind(w, i) = k}
<1>2. PICK m : m \in places /\ \A l \in places : m >= l
  <2>1. places \in SUBSET (0..n) /\ places # {}
    OBVIOUS
  <2>2. QED
    BY <2>1, MaxOf
<1>3. m \in DOMAIN w /\ Best(m)
  <2>1. m \in 1..n /\ BreakKind(w, m) = k
    BY <1>2
  <2>2. ASSUME NEW l \in 1..n, l # m
        PROVE  Better(m, l)
    <3>1. k <= BreakKind(w, l) /\ BreakKind(w, l) \in Nat /\ k \in Nat
      BY <1>1, KindsOfBreaks
    <3>2. BreakKind(w, l) = k => m >= l
      BY <1>2
    <3>3. QED
      BY <2>1, <2>2, <3>1, <3>2
  <2>3. QED
    BY <2>1, <2>2
<1>4. c = CHOOSE i \in DOMAIN w : Best(i)
  <2>1. ~\A i \in DOMAIN w : BreakKind(w, i) = 5
    OBVIOUS
  <2>2. QED
    BY <2>1, Zenon DEF findBreakpoint
<1>5. c \in DOMAIN w /\ Best(c)
  BY <1>3, <1>4, Zenon
<1> HIDE DEF c
<1>6. c \in 1..n /\ BreakKind(w, c) # 5
  <2>1. c \in 1..n
    BY <1>5
  <2>2. BreakKind(w, c) \in 1..5 /\ BreakKind(w, j) \in 1..5
    BY <2>1, KindsOfBreaks
  <2>3. c = j \/ Better(c, j)
    BY <1>5
  <2>4. QED
    BY <2>1, <2>2, <2>3
<1>7. c \in 1..n /\ w[c] \in Whitespace
  BY <1>6, KindsOfBreaks
<1>8. QED
  BY <1>7 DEF c

(* What the next piece of a text is: it is not empty and has no more than   *)
(* limit characters, no entity is divided, and a word only when there is    *)
(* no whitespace to cut after.                                              *)
LEMMA SafeCutIsSafe ==
  ASSUME NEW t \in Text, NEW n \in Nat, n >= 5, Len(t) > n,
         NEW cut, cut = SafeCut(t, n)
  PROVE  /\ cut \in 1..n
         /\ ~Divides(t, cut)
         /\ t[cut] \in Whitespace \/ \A i \in 2..n : t[i] \notin Whitespace
<1> DEFINE w == SubSeq(t, 1, n)
<1>1. Window(w, t, n)
  BY SubSeqIsWindow
<1> HIDE DEF w
<1>2. /\ w \in Text /\ DOMAIN w = 1..n /\ Len(w) = n
      /\ \A i \in 1..n : w[i] = t[i]
  BY <1>1, Zenon DEF Window
<1>3. cut = IF findBreakpoint(w) > 0 THEN findBreakpoint(w) ELSE n
  BY Zenon DEF SafeCut, w
<1>4. CASE \A i \in 1..n : BreakKind(w, i) = 5
  <2>1. w # <<>>
    BY <1>2
  <2>2. graphemeCut(w, Len(w)) = n
    BY <1>2, <2>1, GraphemeCutOfWindow, Zenon
  <2>3. findBreakpoint(w) = entitySafeCut(w, n)
    BY <1>2, <1>4, <2>2, Zenon DEF findBreakpoint
  <2> DEFINE c == findBreakpoint(w)
  <2>4. c \in 0..n /\ ~Divides(t, IF c > 0 THEN c ELSE n)
    BY <1>1, <2>3, EntitySafe, Zenon
  <2>5. cut \in 1..n
    <3> HIDE DEF c
    <3>1. cut = IF c > 0 THEN c ELSE n
      BY <1>3 DEF c
    <3>2. QED
      BY ONLY <3>1, <2>4, n \in Nat, n >= 5
  <2>6. ~Divides(t, cut)
    BY <1>3, <2>4, Zenon
  <2>7. ASSUME NEW i \in 2..n
        PROVE  t[i] \notin Whitespace
    <3>1. i \in Nat /\ i > 1 /\ i \in 1..n
      OBVIOUS
    <3>2. QED
      BY <1>2, <1>4, <3>1, KindsOfBreaks
  <2>8. QED
    BY <2>5, <2>6, <2>7, Zenon
<1>5. CASE ~\A i \in 1..n : BreakKind(w, i) = 5
  <2>1. findBreakpoint(w) \in 1..n /\ w[findBreakpoint(w)] \in Whitespace
    BY <1>2, <1>5, ChosenBreak
  <2>2. cut \in 1..n /\ t[cut] \in Whitespace
    BY <1>2, <1>3, <2>1
  <2>3. ASSUME Divides(t, cut)
        PROVE  FALSE
    <3>1. cut \in Nat
      BY <2>2
    <3>2. PICK i \in 1..cut : \A j \in i..cut : t[j] # ";" /\ t[j] # " " /\ t[j] # "\n"
      BY <2>3, <3>1, Divided, Zenon
    <3>3. cut \in i..cut
      BY ONLY <3>1, i \in 1..cut
    <3>4. QED
      BY <2>2, <3>2, <3>3, Zenon DEF Whitespace
  <2>4. QED
    BY <2>2, <2>3, Zenon
<1>6. QED
  BY <1>4, <1>5

(* However small the window, the place to cut is in it, or before it.       *)
LEMMA BreakpointInWindow ==
  ASSUME NEW w \in Text, NEW n \in Nat, n > 0, Len(w) = n
  PROVE  findBreakpoint(w) \in 0..n
<1>1. DOMAIN w = 1..n /\ w # <<>>
  BY DEF Text
<1>2. CASE \A i \in 1..n : BreakKind(w, i) = 5
  <2> DEFINE D == {i \in DOMAIN w : /\ n - 5 < i /\ i <= n
                                    /\ w[i] = "&"
                                    /\ \A j \in i..n : w[j] # ";"}
  <2>1. graphemeCut(w, Len(w)) = n
    BY <1>1, GraphemeCutOfWindow, Zenon
  <2>2. findBreakpoint(w) = entitySafeCut(w, n)
    BY <1>1, <1>2, <2>1, Zenon DEF findBreakpoint
  <2>3. entitySafeCut(w, n) = IF D = {} THEN n ELSE Max(D) - 1
    BY Zenon DEF entitySafeCut
  <2>4. D \in SUBSET (0..n) /\ D \in SUBSET (1..n)
    <3>1. 1..n \subseteq 0..n
      OBVIOUS
    <3>2. QED
      BY <1>1, <3>1, Zenon
  <2>5. D # {} => Max(D) \in D
    BY <2>4, MaxOf
  <2> HIDE DEF D
  <2>6. D # {} => Max(D) - 1 \in 0..n
    <3>1. D # {} => Max(D) \in 1..n
      BY <2>4, <2>5
    <3>2. QED
      BY <3>1
  <2>7. QED
    BY <2>2, <2>3, <2>6
<1>3. CASE ~\A i \in 1..n : BreakKind(w, i) = 5
  BY <1>1, <1>3, ChosenBreak
<1>4. QED
  BY <1>2, <1>3

-----------------------------------------------------------------------------
(* The renderers deal in texts.                                             *)

LEMMA LiteralsAreCharacters ==
  ASSUME NEW ch \in Literals
  PROVE  ch \in Characters
BY LiteralAssumption

LEMMA OneIsText ==
  ASSUME NEW a \in Characters
  PROVE  <<a>> \in Text /\ Len(<<a>>) = 1
BY DEF Text

LEMMA TwoIsText ==
  ASSUME NEW a \in Characters, NEW b \in Characters
  PROVE  <<a, b>> \in Text /\ Len(<<a, b>>) = 2
BY DEF Text

LEMMA ThreeIsText ==
  ASSUME NEW a \in Characters, NEW b \in Characters, NEW c \in Characters
  PROVE  <<a, b, c>> \in Text
BY DEF Text

LEMMA FourIsText ==
  ASSUME NEW a \in Characters, NEW b \in Characters, NEW c \in Characters, NEW d \in Characters
  PROVE  <<a, b, c, d>> \in Text
BY DEF Text

LEMMA FiveIsText ==
  ASSUME NEW a \in Characters, NEW b \in Characters, NEW c \in Characters, NEW d \in Characters,
         NEW e \in Characters
  PROVE  <<a, b, c, d, e>> \in Text
BY DEF Text

LEMMA ConcatText ==
  ASSUME NEW a \in Text, NEW b \in Text
  PROVE  a \o b \in Text /\ Len(a \o b) = Len(a) + Len(b)
BY ConcatProperties DEF Text

LEMMA EmptyText == <<>> \in Text
BY EmptySeq DEF Text

(* What the application writes itself.                                      *)
LEMMA OwnTexts ==
  /\ Labelling \in Text /\ Len(Labelling) = 1
  /\ Dash \in Text
  /\ <<"b">> \in Text /\ <<"s">> \in Text /\ <<"a">> \in Text /\ <<"H">> \in Text
  /\ <<"\n">> \in Text /\ <<"/">> \in Text /\ <<")">> \in Text /\ <<"|">> \in Text
  /\ <<"<">> \in Text /\ <<">">> \in Text /\ <<"*">> \in Text
  /\ <<"*", " ">> \in Text /\ <<",", " ">> \in Text /\ <<"n", " ">> \in Text
  /\ <<" ", "(">> \in Text /\ <<"*", "\n">> \in Text /\ <<" ", MiddleDot, " ">> \in Text
  /\ Len(<<")">>) = 1 /\ Len(<<"*">>) = 1 /\ Len(<<" ", "(">>) = 2 /\ Len(<<"*", "\n">>) = 2
<1>1. /\ "b" \in Characters /\ "s" \in Characters /\ "a" \in Characters /\ "H" \in Characters
      /\ "\n" \in Characters /\ "/" \in Characters /\ ")" \in Characters /\ "|" \in Characters
      /\ "<" \in Characters /\ ">" \in Characters /\ "*" \in Characters /\ " " \in Characters
      /\ "," \in Characters /\ "n" \in Characters /\ "(" \in Characters /\ MiddleDot \in Characters
      /\ "-" \in Characters /\ "L" \in Characters
  BY LiteralsAreCharacters, Zenon DEF Literals
<1>2. Labelling \in Text /\ Len(Labelling) = 1
  BY <1>1, OneIsText, Zenon DEF Labelling
<1>3. Dash \in Text
  BY <1>1, ThreeIsText, Zenon DEF Dash
<1>4. /\ <<"b">> \in Text /\ <<"s">> \in Text /\ <<"a">> \in Text /\ <<"H">> \in Text
      /\ <<"\n">> \in Text /\ <<"/">> \in Text /\ <<")">> \in Text /\ <<"|">> \in Text
      /\ <<"<">> \in Text /\ <<">">> \in Text /\ <<"*">> \in Text
      /\ Len(<<")">>) = 1 /\ Len(<<"*">>) = 1
  BY <1>1, OneIsText, Zenon
<1>5. /\ <<"*", " ">> \in Text /\ <<",", " ">> \in Text /\ <<"n", " ">> \in Text
      /\ <<" ", "(">> \in Text /\ <<"*", "\n">> \in Text
      /\ Len(<<" ", "(">>) = 2 /\ Len(<<"*", "\n">>) = 2
  BY <1>1, TwoIsText, Zenon
<1>6. <<" ", MiddleDot, " ">> \in Text
  BY <1>1, ThreeIsText, Zenon
<1>7. QED
  BY <1>2, <1>3, <1>4, <1>5, <1>6, Zenon

LEMMA EntityText ==
  ASSUME NEW ch \in Characters
  PROVE  Entity(ch) \in Text
<1>1. /\ "&" \in Characters /\ "a" \in Characters /\ "m" \in Characters /\ "p" \in Characters
      /\ ";" \in Characters /\ "l" \in Characters /\ "t" \in Characters /\ "g" \in Characters
  BY LiteralsAreCharacters, Zenon DEF Literals
<1>2. /\ <<"&", "a", "m", "p", ";">> \in Text /\ <<"&", "l", "t", ";">> \in Text
      /\ <<"&", "g", "t", ";">> \in Text /\ <<ch>> \in Text
  BY <1>1, FiveIsText, FourIsText, OneIsText, Zenon
<1>3. "&" # "<" /\ "&" # ">" /\ "<" # ">"
  OBVIOUS
<1>4. \/ Entity(ch) = <<"&", "a", "m", "p", ";">> \/ Entity(ch) = <<"&", "l", "t", ";">>
      \/ Entity(ch) = <<"&", "g", "t", ";">> \/ Entity(ch) = <<ch>>
  BY <1>3, Zenon DEF Entity
<1>5. QED
  BY <1>2, <1>4, Zenon

LEMMA EscapedText ==
  ASSUME NEW t \in Text
  PROVE  escapeSlackText(t) \in Text
<1> DEFINE f == [i \in DOMAIN t |-> Entity(t[i])]
<1>1. Len(t) \in Nat /\ DOMAIN t = 1..Len(t) /\ \A i \in 1..Len(t) : t[i] \in Characters
  BY DEF Text
<1>2. f \in [1..Len(t) -> Text]
  BY <1>1, EntityText, Zenon
<1>3. f \in Seq(Text)
  BY <1>1, <1>2, AFunctionIsASeq, Zenon
<1> HIDE DEF f
<1>4. FlattenSeq(f) \in Text
  BY <1>3, FlattenType DEF Text
<1>5. QED
  BY <1>4, Zenon DEF escapeSlackText, f

LEMMA JoinText ==
  ASSUME NEW parts \in Seq(Text), NEW separator \in Text
  PROVE  Join(parts, separator) \in Text
<1> DEFINE f == [i \in DOMAIN parts |-> IF i = 1 THEN parts[i] ELSE separator \o parts[i]]
<1>1. /\ Len(parts) \in Nat /\ DOMAIN parts = 1..Len(parts)
      /\ \A i \in 1..Len(parts) : parts[i] \in Text
  OBVIOUS
<1>2. f \in [1..Len(parts) -> Text]
  BY <1>1, ConcatText, Zenon
<1>3. f \in Seq(Text)
  BY <1>1, <1>2, AFunctionIsASeq, Zenon
<1> HIDE DEF f
<1>4. FlattenSeq(f) \in Text
  BY <1>3, FlattenType DEF Text
<1>5. QED
  BY <1>4, Zenon DEF Join, f

LEMMA SingletonSeq ==
  ASSUME NEW S, NEW x \in S
  PROVE  <<x>> \in Seq(S)
OBVIOUS

LEMMA PresentTexts ==
  ASSUME NEW parts \in Seq(Text)
  PROVE  present(parts) \in Seq(Text)
<1> DEFINE f == [i \in DOMAIN parts |-> IF hasText(parts[i]) THEN <<parts[i]>> ELSE <<>>]
<1>1. /\ Len(parts) \in Nat /\ DOMAIN parts = 1..Len(parts)
      /\ \A i \in 1..Len(parts) : parts[i] \in Text
  OBVIOUS
<1>2. f \in [1..Len(parts) -> Seq(Text)]
  BY <1>1, SingletonSeq, EmptySeq, Zenon
<1>3. f \in Seq(Seq(Text))
  BY <1>1, <1>2, AFunctionIsASeq, Zenon
<1> HIDE DEF f
<1>4. FlattenSeq(f) \in Seq(Text)
  BY <1>3, FlattenType
<1>5. QED
  BY <1>4, Zenon DEF present, f

LEMMA JoinedParts ==
  ASSUME NEW parts \in Seq(Text), NEW separator \in Text
  PROVE  joinParts(parts, separator) \in Text
BY PresentTexts, JoinText, Zenon DEF joinParts

-----------------------------------------------------------------------------
(* The fields of a payload.                                                 *)

ListFields == {"lessons", "lessonsTranslation", "examples"}

LEMMA DtoLists ==
  ASSUME NEW type \in DOMAIN PayloadDto
  PROVE  /\ PayloadDto[type].lists \subseteq ListFields \cup {"wordMeanings"}
         /\ "tafsirResourceName" \notin PayloadDto[type].long
         /\ PayloadDto[type].short \cap (ListFields \cup {"wordMeanings"} \cup Numbers) = {}
         /\ PayloadDto[type].long \cap (ListFields \cup {"wordMeanings"} \cup Numbers) = {}
<1>1. type \in {"AYAH", "HADITH", "COMPANION_STORY", "BLESSING_REMINDER"}
  BY DEF PayloadDto
<1>2. /\ PayloadDto["AYAH"] = AyahPayloadDto /\ PayloadDto["HADITH"] = HadithPayloadDto
      /\ PayloadDto["COMPANION_STORY"] = CompanionStoryPayloadDto
      /\ PayloadDto["BLESSING_REMINDER"] = BlessingReminderPayloadDto
  BY DEF PayloadDto
<1>3. CASE type = "AYAH"
  BY <1>2, <1>3 DEF AyahPayloadDto, ListFields, Numbers
<1>4. CASE type = "HADITH"
  BY <1>2, <1>4 DEF HadithPayloadDto, ListFields, Numbers
<1>5. CASE type = "COMPANION_STORY"
  BY <1>2, <1>5 DEF CompanionStoryPayloadDto, ListFields, Numbers
<1>6. CASE type = "BLESSING_REMINDER"
  BY <1>2, <1>6 DEF BlessingReminderPayloadDto, ListFields, Numbers
<1>7. QED
  BY <1>1, <1>3, <1>4, <1>5, <1>6

(* A field of a valid item is one of these, or missing.                     *)
LEMMA FieldOfItem ==
  ASSUME NEW c \in Contents, NEW f
  PROVE  \/ f \notin DOMAIN c.payload /\ Field(c.payload, f) = <<>>
         \/ /\ c.type \in DOMAIN PayloadDto
            /\ ValidField(PayloadDto[c.type], f, Field(c.payload, f))
<1>1. c.type \in DOMAIN PayloadDto /\
      \A g \in DOMAIN c.payload : ValidField(PayloadDto[c.type], g, c.payload[g])
  BY MessageAssumption, Zenon DEF Valid
<1>2. QED
  BY <1>1, Zenon DEF Field

LEMMA FieldText ==
  ASSUME NEW c \in Contents, NEW f, f \notin ListFields \cup {"wordMeanings"} \cup Numbers
  PROVE  Field(c.payload, f) \in Text
<1>1. CASE f \notin DOMAIN c.payload /\ Field(c.payload, f) = <<>>
  BY <1>1, EmptyText
<1>2. CASE /\ c.type \in DOMAIN PayloadDto
           /\ ValidField(PayloadDto[c.type], f, Field(c.payload, f))
  BY <1>2, DtoLists, Zenon DEF ValidField, IsText
<1>3. QED
  BY <1>1, <1>2, FieldOfItem

(* A tafsir's name is a short text.                                         *)
LEMMA TafsirName ==
  ASSUME NEW c \in Contents
  PROVE  /\ Field(c.payload, "tafsirResourceName") \in Text
         /\ Len(Field(c.payload, "tafsirResourceName")) <= ShortMax
<1> DEFINE f == "tafsirResourceName"
<1>1. f \notin ListFields \cup {"wordMeanings"} \cup Numbers
  BY DEF ListFields, Numbers
<1> HIDE DEF f
<1>2. CASE f \notin DOMAIN c.payload /\ Field(c.payload, f) = <<>>
  <2>1. Len(<<>>) <= ShortMax
    BY MessageAssumption
  <2>2. QED
    BY <1>2, <2>1, EmptyText, Zenon DEF f
<1>3. CASE /\ c.type \in DOMAIN PayloadDto
           /\ ValidField(PayloadDto[c.type], f, Field(c.payload, f))
  <2>1. f \notin PayloadDto[c.type].long
    BY <1>3, DtoLists, Zenon DEF f
  <2>2. PayloadDto[c.type].lists \subseteq ListFields \cup {"wordMeanings"}
    BY <1>3, DtoLists, Zenon
  <2>3. IsText(Field(c.payload, f), ShortMax)
    BY <1>1, <1>3, <2>1, <2>2, Zenon DEF ValidField
  <2>4. QED
    BY <2>3, Zenon DEF IsText, f
<1>4. QED
  BY <1>2, <1>3, FieldOfItem, Zenon

LEMMA FieldTexts ==
  ASSUME NEW c \in Contents, NEW f \in ListFields
  PROVE  Field(c.payload, f) \in Seq(Text)
<1>1. f # "wordMeanings" /\ f \notin Numbers
  BY DEF ListFields, Numbers
<1>2. CASE f \notin DOMAIN c.payload /\ Field(c.payload, f) = <<>>
  BY <1>2, EmptySeq
<1>3. CASE /\ c.type \in DOMAIN PayloadDto
           /\ ValidField(PayloadDto[c.type], f, Field(c.payload, f))
  BY <1>1, <1>3, DtoLists, Zenon DEF ValidField
<1>4. QED
  BY <1>2, <1>3, FieldOfItem, Zenon

LEMMA FieldMeanings ==
  ASSUME NEW c \in Contents
  PROVE  Field(c.payload, "wordMeanings") \in Seq(Text \X Text)
<1> DEFINE f == "wordMeanings"
<1>1. f \notin ListFields /\ f \notin Numbers
  BY DEF ListFields, Numbers
<1>2. CASE f \notin DOMAIN c.payload /\ Field(c.payload, f) = <<>>
  BY <1>2, EmptySeq
<1>3. CASE /\ c.type \in DOMAIN PayloadDto
           /\ ValidField(PayloadDto[c.type], f, Field(c.payload, f))
  BY <1>1, <1>3, DtoLists, Zenon DEF ValidField
<1>4. QED
  BY <1>2, <1>3, FieldOfItem, Zenon

(* What the renderers read as a text.                                       *)
TextFields ==
  {"surahNameArabic", "surahNameEnglish", "tafsirResourceName", "arabicText", "translation",
   "conciseTafsir", "sababSummary", "sababScope", "sababNote", "reflection",
   "practicalAction", "narrator", "collection", "book", "hadithNumber", "grade", "grader",
   "conciseExplanation", "conciseExplanationTranslation", "title", "companionName",
   "arabicName", "story", "historicalContext", "relatedAyahReference",
   "relatedHadithReference", "body", "gratitudeAction"}

LEMMA TextFieldText ==
  ASSUME NEW c \in Contents, NEW f \in TextFields
  PROVE  Field(c.payload, f) \in Text
<1>1. f \notin ListFields \cup {"wordMeanings"} \cup Numbers
  BY DEF TextFields, ListFields, Numbers
<1>2. QED
  BY <1>1, FieldText

-----------------------------------------------------------------------------
(* The renderers make calls of the builder, and no others.                  *)

LEMMA PairOfTexts ==
  ASSUME NEW a \in Text, NEW b \in Text
  PROVE  <<a, b>> \in Seq(Text)
OBVIOUS

LEMMA TripleOfTexts ==
  ASSUME NEW a \in Text, NEW b \in Text, NEW c \in Text
  PROVE  <<a, b, c>> \in Seq(Text)
OBVIOUS

LEMMA FourTexts ==
  ASSUME NEW a \in Text, NEW b \in Text, NEW c \in Text, NEW d \in Text
  PROVE  <<a, b, c, d>> \in Seq(Text)
OBVIOUS

LEMMA TextLength ==
  ASSUME NEW t \in Text
  PROVE  Len(t) \in Nat
BY DEF Text

(* The label of a tafsir leaves room for an entity in a section.            *)
LEMMA TafsirLabelText ==
  ASSUME NEW c \in Contents
  PROVE  /\ TafsirLabel(c.payload) \in Text
         /\ Len(TafsirLabel(c.payload)) \in 1..(ShortMax + 4)
<1> DEFINE name == Field(c.payload, "tafsirResourceName")
<1>1. name \in Text /\ Len(name) <= ShortMax /\ Len(name) \in Nat /\ ShortMax \in Nat
  BY TafsirName, TextLength, MessageAssumption
<1> HIDE DEF name
<1>2. PICK x \in Text : x = Labelling \o <<" ", "(">> /\ Len(x) = 1 + 2
  <2>1. /\ Labelling \in Text /\ <<" ", "(">> \in Text
        /\ Len(Labelling) = 1 /\ Len(<<" ", "(">>) = 2
    BY OwnTexts, Zenon
  <2>2. /\ Labelling \o <<" ", "(">> \in Text
        /\ Len(Labelling \o <<" ", "(">>) = Len(Labelling) + Len(<<" ", "(">>)
    BY <2>1, ConcatText, Zenon
  <2>3. QED
    BY <2>1, <2>2, Zenon
<1>3. PICK y \in Text : y = x \o name /\ Len(y) = Len(x) + Len(name)
  BY <1>1, ConcatText, Zenon
<1>4. PICK l \in Text : l = y \o <<")">> /\ Len(l) = Len(y) + 1
  BY OwnTexts, ConcatText, Zenon
<1>5. l = Labelling \o <<" ", "(">> \o name \o <<")">>
  BY <1>2, <1>3, <1>4, Zenon
<1>6. TafsirLabel(c.payload) = IF hasText(name) THEN l ELSE Labelling
  BY <1>5, Zenon DEF TafsirLabel, name
<1>7. Len(x) = 1 + 2 /\ Len(y) = Len(x) + Len(name) /\ Len(l) = Len(y) + 1
  BY <1>2, <1>3, <1>4, Zenon
<1>9. PICK k \in Nat : k = Len(name) /\ k <= ShortMax
  BY <1>1
<1>10. Len(l) \in 1..(ShortMax + 4) /\ 1 \in 1..(ShortMax + 4)
  BY ONLY <1>7, <1>9, <1>1, k \in Nat
<1>8. QED
  BY <1>4, <1>6, <1>10, OwnTexts, Zenon

LEMMA LabelsAreTexts ==
  ASSUME NEW c \in Contents, NEW label \in LabelsOf(c)
  PROVE  label \in Text
BY OwnTexts, TafsirLabelText, EmptyText, Zenon DEF LabelsOf

LEMMA OneCall ==
  ASSUME NEW c \in Contents, NEW block \in BlockTypes, NEW label \in LabelsOf(c),
         NEW body \in Text, NEW size \in Nat
  PROVE  Call(block, label, body, size) \in Seq(CallsOf(c))
<1>1. [block |-> block, label |-> label, body |-> body, size |-> size] \in CallsOf(c)
  BY DEF CallsOf
<1>2. QED
  BY <1>1, SingletonSeq, Zenon DEF Call

LEMMA NoCall ==
  ASSUME NEW c \in Contents
  PROVE  <<>> \in Seq(CallsOf(c))
BY EmptySeq

LEMMA Kinds == "header" \in BlockTypes /\ "section" \in BlockTypes /\ "context" \in BlockTypes
BY DEF BlockTypes

LEMMA Labels ==
  ASSUME NEW c
  PROVE  <<>> \in LabelsOf(c) /\ Labelling \in LabelsOf(c) /\ TafsirLabel(c.payload) \in LabelsOf(c)
BY Zenon DEF LabelsOf

LEMMA HeaderCalls ==
  ASSUME NEW c \in Contents
  PROVE  Header \in Seq(CallsOf(c))
<1>1. 1 \in Nat
  OBVIOUS
<1>2. QED
  BY <1>1, OwnTexts, OneCall, Kinds, Labels, Zenon DEF Header

LEMMA SectionCalls ==
  ASSUME NEW c \in Contents, NEW t \in Text
  PROVE  section(t) \in Seq(CallsOf(c)) /\ context(t) \in Seq(CallsOf(c))
BY EscapedText, TextLength, OneCall, NoCall, Kinds, Labels, Zenon DEF section, context

LEMMA LabelledCalls ==
  ASSUME NEW c \in Contents, NEW label \in LabelsOf(c), NEW t \in Text
  PROVE  labelled(label, t) \in Seq(CallsOf(c))
<1>1. Len(label) + Len(t) \in Nat
  BY LabelsAreTexts, TextLength
<1>2. QED
  BY <1>1, EscapedText, OneCall, NoCall, Kinds, Zenon DEF labelled

LEMMA BulletCalls ==
  ASSUME NEW c \in Contents, NEW label \in LabelsOf(c), NEW items \in Seq(Text)
  PROVE  bullets(label, items) \in Seq(CallsOf(c))
<1> DEFINE f == [i \in DOMAIN items |-> <<"*", " ">> \o escapeSlackText(items[i])]
           body == Join(f, <<"\n">>)
<1>1. /\ Len(items) \in Nat /\ DOMAIN items = 1..Len(items)
      /\ \A i \in 1..Len(items) : items[i] \in Text
  OBVIOUS
<1>2. \A i \in 1..Len(items) : <<"*", " ">> \o escapeSlackText(items[i]) \in Text
  BY <1>1, OwnTexts, EscapedText, ConcatText, Zenon
<1>3. f \in [1..Len(items) -> Text]
  BY <1>1, <1>2, Zenon
<1>4. f \in Seq(Text)
  BY <1>1, <1>3, AFunctionIsASeq, Zenon
<1> HIDE DEF f
<1>5. body \in Text
  BY <1>4, OwnTexts, JoinText, Zenon
<1> HIDE DEF body
<1>6. Len(label) + Len(body) \in Nat
  BY <1>5, LabelsAreTexts, TextLength
<1>7. bullets(label, items) = IF items = <<>> THEN <<>>
                              ELSE Call("section", label, body, Len(label) + Len(body))
  BY Zenon DEF bullets, body, f
<1>8. QED
  BY <1>5, <1>6, <1>7, OneCall, NoCall, Kinds, Zenon

LEMMA SourceLabel ==
  ASSUME NEW s \in RenderableSource
  PROVE  Label(s) \in Text
<1>1. /\ s.title \in Text /\ s.author \in Text /\ s.volume \in Text /\ s.page \in Text
      /\ s.referenceNumber \in Text /\ s.url \in Text
  BY DEF RenderableSource
<1> DEFINE place == joinParts(<<s.volume, s.page>>, <<"/">>)
           number == IF hasText(s.referenceNumber) THEN <<"n", " ">> \o s.referenceNumber
                     ELSE <<>>
<1>2. place \in Text
  BY <1>1, OwnTexts, PairOfTexts, JoinedParts, Zenon
<1>3. number \in Text
  BY <1>1, OwnTexts, EmptyText, ConcatText, Zenon
<1> HIDE DEF place, number
<1> DEFINE parts == joinParts(<<s.title, s.author, place, number>>, <<",", " ">>)
           shown == IF parts = <<>> THEN s.title ELSE parts
<1>4. parts \in Text
  BY <1>1, <1>2, <1>3, OwnTexts, FourTexts, JoinedParts, Zenon
<1>5. shown \in Text
  BY <1>1, <1>4, Zenon
<1>6. escapeSlackText(shown) \in Text
  BY <1>5, EscapedText, Zenon
<1>7. QED
  BY <1>6, Zenon DEF Label, parts, shown, place, number

LEMMA SourceCitation ==
  ASSUME NEW s \in RenderableSource
  PROVE  citation(s) \in Text
<1>1. s.url \in Text /\ Label(s) \in Text
  BY SourceLabel DEF RenderableSource
<1>2. <<"<">> \o s.url \o <<"|">> \o Label(s) \o <<">">> \in Text
  BY <1>1, OwnTexts, ConcatText, Zenon
<1>3. QED
  BY <1>1, <1>2, Zenon DEF citation

LEMMA SourceCalls ==
  ASSUME NEW c \in Contents
  PROVE  sources(c.sources) \in Seq(CallsOf(c))
<1> DEFINE list == c.sources
           f == [i \in DOMAIN list |-> citation(list[i])]
           body == Join(f, <<" ", MiddleDot, " ">>)
<1>1. list \in Seq(RenderableSource)
  BY MessageAssumption, Zenon DEF Valid
<1>2. /\ Len(list) \in Nat /\ DOMAIN list = 1..Len(list)
      /\ \A i \in 1..Len(list) : list[i] \in RenderableSource
  BY <1>1
<1>3. f \in [1..Len(list) -> Text]
  BY <1>2, SourceCitation, Zenon
<1>4. f \in Seq(Text)
  BY <1>2, <1>3, AFunctionIsASeq, Zenon
<1> HIDE DEF f
<1>5. body \in Text
  BY <1>4, OwnTexts, JoinText, Zenon
<1> HIDE DEF body
<1>6. Len(body) \in Nat
  BY <1>5, TextLength
<1>7. sources(list) = IF list = <<>> THEN <<>> ELSE Call("context", <<>>, body, Len(body))
  BY Zenon DEF sources, body, f
<1>8. QED
  BY <1>5, <1>6, <1>7, OneCall, NoCall, Kinds, Labels, Zenon

-----------------------------------------------------------------------------
(* The parts the renderers put together.                                    *)

LEMMA ConcatAll ==
  ASSUME NEW S, NEW a \in Seq(S), NEW b \in Seq(S)
  PROVE  a \o b \in Seq(S)
OBVIOUS

LEMMA FieldNames ==
  /\ "surahNameArabic" \in TextFields /\ "surahNameEnglish" \in TextFields
  /\ "arabicText" \in TextFields /\ "translation" \in TextFields
  /\ "conciseTafsir" \in TextFields /\ "sababSummary" \in TextFields
  /\ "sababScope" \in TextFields /\ "sababNote" \in TextFields
  /\ "reflection" \in TextFields /\ "practicalAction" \in TextFields
  /\ "narrator" \in TextFields /\ "collection" \in TextFields /\ "book" \in TextFields
  /\ "hadithNumber" \in TextFields /\ "grade" \in TextFields /\ "grader" \in TextFields
  /\ "conciseExplanation" \in TextFields /\ "conciseExplanationTranslation" \in TextFields
  /\ "title" \in TextFields /\ "companionName" \in TextFields /\ "arabicName" \in TextFields
  /\ "story" \in TextFields /\ "historicalContext" \in TextFields
  /\ "relatedAyahReference" \in TextFields /\ "relatedHadithReference" \in TextFields
  /\ "body" \in TextFields /\ "gratitudeAction" \in TextFields
  /\ "lessons" \in ListFields /\ "lessonsTranslation" \in ListFields
  /\ "examples" \in ListFields
BY Zenon DEF TextFields, ListFields

LEMMA LocalizedText ==
  ASSUME NEW c \in Contents, NEW en, NEW f \in TextFields, NEW g \in TextFields
  PROVE  Localized(c.payload, en, f, g) \in Text
BY TextFieldText, Zenon DEF Localized

LEMMA ReferenceText ==
  ASSUME NEW c \in Contents
  PROVE  formatQuranReference(c.payload) \in Text
<1> DEFINE p == c.payload
           surah == IF hasText(Field(p, "surahNameArabic")) THEN Field(p, "surahNameArabic")
                    ELSE IF Number(p, "surahNumber") # 0 THEN <<"s">> ELSE <<>>
           ayah == IF Number(p, "ayahNumber") # 0 THEN <<"a">> ELSE <<>>
           reference == joinParts(<<surah, ayah>>, Dash)
           name == Field(p, "surahNameEnglish")
<1>1. surah \in Text /\ ayah \in Text /\ name \in Text
  BY TextFieldText, FieldNames, OwnTexts, EmptyText, Zenon
<1> HIDE DEF surah, ayah, name
<1>2. reference \in Text
  BY <1>1, PairOfTexts, JoinedParts, OwnTexts, Zenon
<1> HIDE DEF reference
<1>3. reference \o <<" ", "(">> \o name \o <<")">> \in Text
  BY <1>1, <1>2, ConcatText, OwnTexts, Zenon
<1>4. formatQuranReference(p) = IF reference = <<>> \/ ~hasText(name) THEN reference
                                ELSE reference \o <<" ", "(">> \o name \o <<")">>
  BY Zenon DEF formatQuranReference, reference, surah, ayah, name
<1>5. QED
  BY <1>2, <1>3, <1>4, Zenon

LEMMA WordMeaningTexts ==
  ASSUME NEW c \in Contents
  PROVE  wordMeanings(c.payload) \in Seq(Text)
<1> DEFINE entries == Field(c.payload, "wordMeanings")
           f == [i \in DOMAIN entries |-> WordMeaning(entries[i])]
<1>1. entries \in Seq(Text \X Text)
  BY FieldMeanings
<1> HIDE DEF entries
<1>2. /\ Len(entries) \in Nat /\ DOMAIN entries = 1..Len(entries)
      /\ \A i \in 1..Len(entries) : entries[i] \in Text \X Text
  BY <1>1
<1>3. ASSUME NEW e \in Text \X Text
      PROVE  WordMeaning(e) \in Seq(Text)
  <2>1. e[1] \in Text /\ e[2] \in Text
    OBVIOUS
  <2>2. e[1] \o Dash \o e[2] \in Text
    BY <2>1, ConcatText, OwnTexts, Zenon
  <2>3. <<e[1] \o Dash \o e[2]>> \in Seq(Text) /\ <<>> \in Seq(Text)
    BY <2>2, SingletonSeq, EmptySeq, Zenon
  <2>4. QED
    BY <2>3, Zenon DEF WordMeaning
<1>4. f \in [1..Len(entries) -> Seq(Text)]
  BY <1>2, <1>3, Zenon
<1>5. f \in Seq(Seq(Text))
  BY <1>2, <1>4, AFunctionIsASeq, Zenon
<1> HIDE DEF f
<1>6. FlattenSeq(f) \in Seq(Text)
  BY <1>5, FlattenType
<1>7. QED
  BY <1>6, Zenon DEF wordMeanings, f, entries

LEMMA SababText ==
  ASSUME NEW c \in Contents
  PROVE  sababAlNuzul(c.payload) \in Text
<1>1. /\ Field(c.payload, "sababSummary") \in Text /\ Field(c.payload, "sababScope") \in Text
      /\ Field(c.payload, "sababNote") \in Text
  BY TextFieldText, FieldNames, Zenon
<1>2. QED
  BY <1>1, TripleOfTexts, JoinedParts, OwnTexts, EmptyText, Zenon DEF sababAlNuzul

LEMMA TextLists ==
  ASSUME NEW c \in Contents, NEW f \in ListFields
  PROVE  textList(c.payload, f) \in Seq(Text)
BY FieldTexts, PresentTexts, Zenon DEF textList

LEMMA HadithReferenceText ==
  ASSUME NEW c \in Contents
  PROVE  HadithReference(c.payload) \in Text
<1> DEFINE p == c.payload
           number == IF hasText(Field(p, "hadithNumber"))
                     THEN <<"n", " ">> \o Field(p, "hadithNumber") ELSE <<>>
           place == joinParts(<<Field(p, "collection"), Field(p, "book"), number>>, <<",", " ">>)
<1>1. /\ Field(p, "narrator") \in Text /\ Field(p, "collection") \in Text
      /\ Field(p, "book") \in Text /\ Field(p, "hadithNumber") \in Text
  BY TextFieldText, FieldNames, Zenon
<1>2. number \in Text
  BY <1>1, ConcatText, OwnTexts, EmptyText, Zenon
<1> HIDE DEF number
<1>3. place \in Text
  BY <1>1, <1>2, TripleOfTexts, JoinedParts, OwnTexts, Zenon
<1> HIDE DEF place
<1>4. joinParts(<<Field(p, "narrator"), place>>, Dash) \in Text
  BY <1>1, <1>3, PairOfTexts, JoinedParts, OwnTexts, Zenon
<1>5. QED
  BY <1>4, Zenon DEF HadithReference, place, number

LEMMA GradeText ==
  ASSUME NEW c \in Contents
  PROVE  Grade(c.payload) \in Text
<1>1. Field(c.payload, "grade") \in Text /\ Field(c.payload, "grader") \in Text
  BY TextFieldText, FieldNames, Zenon
<1>2. QED
  BY <1>1, PairOfTexts, JoinedParts, OwnTexts, EmptyText, Zenon DEF Grade

LEMMA LessonTexts ==
  ASSUME NEW c \in Contents, NEW en
  PROVE  Lessons(c.payload, en) \in Seq(Text)
BY TextLists, FieldNames, Zenon DEF Lessons

LEMMA AyahCalls ==
  ASSUME NEW c \in Contents, NEW en
  PROVE  Ayah(c.payload, en) \in Seq(CallsOf(c))
<1> DEFINE p == c.payload
<1>1. (IF showsBasmala(p) THEN <<"b">> ELSE <<>>) \in Text
  BY OwnTexts, EmptyText, Zenon
<1>2. (IF en THEN <<>> ELSE Field(p, "translation")) \in Text
  BY TextFieldText, FieldNames, EmptyText, Zenon
<1>3. (IF en THEN wordMeanings(p) ELSE <<>>) \in Seq(Text)
  BY WordMeaningTexts, EmptySeq, Zenon
<1>4. section(IF showsBasmala(p) THEN <<"b">> ELSE <<>>) \in Seq(CallsOf(c))
  BY <1>1, SectionCalls, Zenon
<1>5. section(Localized(p, en, "arabicText", "translation")) \in Seq(CallsOf(c))
  BY LocalizedText, FieldNames, SectionCalls, Zenon
<1>6. context(formatQuranReference(p)) \in Seq(CallsOf(c))
  BY ReferenceText, SectionCalls, Zenon
<1>7. labelled(Labelling, IF en THEN <<>> ELSE Field(p, "translation")) \in Seq(CallsOf(c))
  BY <1>2, LabelledCalls, Labels, Zenon
<1>8. labelled(TafsirLabel(p), Field(p, "conciseTafsir")) \in Seq(CallsOf(c))
  BY TextFieldText, FieldNames, LabelledCalls, Labels, Zenon
<1>9. bullets(Labelling, IF en THEN wordMeanings(p) ELSE <<>>) \in Seq(CallsOf(c))
  BY <1>3, BulletCalls, Labels, Zenon
<1>10. labelled(Labelling, sababAlNuzul(p)) \in Seq(CallsOf(c))
  BY SababText, LabelledCalls, Labels, Zenon
<1>11. /\ labelled(Labelling, Field(p, "reflection")) \in Seq(CallsOf(c))
       /\ labelled(Labelling, Field(p, "practicalAction")) \in Seq(CallsOf(c))
  BY TextFieldText, FieldNames, LabelledCalls, Labels, Zenon
<1>12. QED
  BY <1>4, <1>5, <1>6, <1>7, <1>8, <1>9, <1>10, <1>11, ConcatAll, ZenonT(60) DEF Ayah

LEMMA HadithCalls ==
  ASSUME NEW c \in Contents, NEW en
  PROVE  Hadith(c.payload, en) \in Seq(CallsOf(c))
<1> DEFINE p == c.payload
<1>1. (IF en THEN <<>> ELSE Field(p, "translation")) \in Text
  BY TextFieldText, FieldNames, EmptyText, Zenon
<1>2. section(Localized(p, en, "arabicText", "translation")) \in Seq(CallsOf(c))
  BY LocalizedText, FieldNames, SectionCalls, Zenon
<1>3. context(HadithReference(p)) \in Seq(CallsOf(c))
  BY HadithReferenceText, SectionCalls, Zenon
<1>4. labelled(Labelling, Grade(p)) \in Seq(CallsOf(c))
  BY GradeText, LabelledCalls, Labels, Zenon
<1>5. labelled(Labelling, IF en THEN <<>> ELSE Field(p, "translation")) \in Seq(CallsOf(c))
  BY <1>1, LabelledCalls, Labels, Zenon
<1>6. labelled(Labelling,
               Localized(p, en, "conciseExplanation", "conciseExplanationTranslation"))
        \in Seq(CallsOf(c))
  BY LocalizedText, FieldNames, LabelledCalls, Labels, Zenon
<1>7. bullets(Labelling, Lessons(p, en)) \in Seq(CallsOf(c))
  BY LessonTexts, BulletCalls, Labels, Zenon
<1>8. /\ labelled(Labelling, Field(p, "reflection")) \in Seq(CallsOf(c))
      /\ labelled(Labelling, Field(p, "practicalAction")) \in Seq(CallsOf(c))
  BY TextFieldText, FieldNames, LabelledCalls, Labels, Zenon
<1>9. QED
  BY <1>2, <1>3, <1>4, <1>5, <1>6, <1>7, <1>8, ConcatAll, ZenonT(60) DEF Hadith

LEMMA CompanionStoryCalls ==
  ASSUME NEW c \in Contents
  PROVE  CompanionStory(c.payload) \in Seq(CallsOf(c))
<1> DEFINE p == c.payload
<1>1. section(Field(p, "title")) \in Seq(CallsOf(c)) /\ section(Field(p, "story")) \in Seq(CallsOf(c))
  BY TextFieldText, FieldNames, SectionCalls, Zenon
<1>2. joinParts(<<Field(p, "companionName"), Field(p, "arabicName")>>, Dash) \in Text
  BY TextFieldText, FieldNames, PairOfTexts, JoinedParts, OwnTexts, Zenon
<1>3. context(joinParts(<<Field(p, "companionName"), Field(p, "arabicName")>>, Dash))
        \in Seq(CallsOf(c))
  BY <1>2, SectionCalls, Zenon
<1>4. bullets(Labelling, textList(p, "lessons")) \in Seq(CallsOf(c))
  BY TextLists, FieldNames, BulletCalls, Labels, Zenon
<1>5. /\ labelled(Labelling, Field(p, "historicalContext")) \in Seq(CallsOf(c))
      /\ labelled(Labelling, Field(p, "reflection")) \in Seq(CallsOf(c))
      /\ labelled(Labelling, Field(p, "practicalAction")) \in Seq(CallsOf(c))
  BY TextFieldText, FieldNames, LabelledCalls, Labels, Zenon
<1>6. QED
  BY <1>1, <1>3, <1>4, <1>5, ConcatAll, ZenonT(60) DEF CompanionStory

LEMMA BlessingReminderCalls ==
  ASSUME NEW c \in Contents
  PROVE  BlessingReminder(c.payload) \in Seq(CallsOf(c))
<1> DEFINE p == c.payload
           related == joinParts(<<Field(p, "relatedAyahReference"),
                                  Field(p, "relatedHadithReference")>>, <<" ", MiddleDot, " ">>)
<1>1. section(Field(p, "title")) \in Seq(CallsOf(c)) /\ section(Field(p, "body")) \in Seq(CallsOf(c))
  BY TextFieldText, FieldNames, SectionCalls, Zenon
<1>2. related \in Text
  BY TextFieldText, FieldNames, PairOfTexts, JoinedParts, OwnTexts, Zenon
<1>3. context(related) \in Seq(CallsOf(c))
  BY <1>2, SectionCalls, Zenon
<1>4. bullets(Labelling, textList(p, "examples")) \in Seq(CallsOf(c))
  BY TextLists, FieldNames, BulletCalls, Labels, Zenon
<1>5. /\ labelled(Labelling, Field(p, "reflection")) \in Seq(CallsOf(c))
      /\ labelled(Labelling, Field(p, "gratitudeAction")) \in Seq(CallsOf(c))
  BY TextFieldText, FieldNames, LabelledCalls, Labels, Zenon
<1>6. QED
  BY <1>1, <1>3, <1>4, <1>5, ConcatAll, ZenonT(60) DEF BlessingReminder

(* What a render of an item is made of.                                     *)
LEMMA CallsTyped ==
  ASSUME NEW c \in Contents, NEW en
  PROVE  Calls(c, en) \in Seq(CallsOf(c))
<1> DEFINE body == CASE c.type = "AYAH" -> Ayah(c.payload, en)
                     [] c.type = "HADITH" -> Hadith(c.payload, en)
                     [] c.type = "COMPANION_STORY" -> CompanionStory(c.payload)
                     [] c.type = "BLESSING_REMINDER" -> BlessingReminder(c.payload)
<1>1. \/ c.type = "AYAH" \/ c.type = "HADITH"
      \/ c.type = "COMPANION_STORY" \/ c.type = "BLESSING_REMINDER"
  <2>1. c.type \in DOMAIN PayloadDto
    BY MessageAssumption, Zenon DEF Valid
  <2>2. QED
    BY <2>1 DEF PayloadDto
<1>2. body \in Seq(CallsOf(c))
  BY <1>1, AyahCalls, HadithCalls, CompanionStoryCalls, BlessingReminderCalls, Zenon
<1> HIDE DEF body
<1>3. Header \o body \o sources(c.sources) \in Seq(CallsOf(c))
  BY <1>2, HeaderCalls, SourceCalls, ConcatAll, Zenon
<1>4. QED
  BY <1>3, Zenon DEF Calls, body

-----------------------------------------------------------------------------
(* The text of a message, and its sections.                                 *)

LEMMA LabelLineText ==
  ASSUME NEW c \in Contents, NEW label \in LabelsOf(c)
  PROVE  LabelLine(label) \in Text
<1>1. label \in Text
  BY LabelsAreTexts
<1>2. <<"*">> \o escapeSlackText(label) \o <<"*", "\n">> \in Text
  BY <1>1, EscapedText, OwnTexts, ConcatText, Zenon
<1>3. QED
  BY <1>2, EmptyText, Zenon DEF LabelLine

LEMMA CallParts ==
  ASSUME NEW c \in Contents, NEW b \in CallsOf(c)
  PROVE  /\ b.label \in LabelsOf(c) /\ b.body \in Text /\ b.block \in BlockTypes
         /\ b.size \in Nat
         /\ LabelLine(b.label) \in Text
         /\ LabelLine(b.label) \o b.body \in Text
<1>1. /\ b.label \in LabelsOf(c) /\ b.body \in Text /\ b.block \in BlockTypes
      /\ b.size \in Nat
  BY DEF CallsOf
<1>2. QED
  BY <1>1, LabelLineText, ConcatText, Zenon

LEMMA TextOfCallsFirst ==
  ASSUME NEW c \in Contents, NEW list \in Seq(CallsOf(c)), list # <<>>
  PROVE  TextOfCalls(list)
           = LabelLine(Head(list).label) \o Head(list).body \o TextOfCalls(Tail(list))
<1> DEFINE f == [i \in DOMAIN list |-> LabelLine(list[i].label) \o list[i].body]
           t == Tail(list)
           g == [i \in DOMAIN t |-> LabelLine(t[i].label) \o t[i].body]
<1>1. PICK n \in Nat : n = Len(t) /\ Len(list) = n + 1
  BY HeadTailProperties, LenProperties
<1>2. /\ t \in Seq(CallsOf(c)) /\ Head(list) = list[1]
      /\ DOMAIN list = 1..(n + 1) /\ DOMAIN t = 1..n
      /\ \A i \in 1..(n + 1) : list[i] \in CallsOf(c)
      /\ \A i \in 1..n : t[i] = list[i + 1] /\ t[i] \in CallsOf(c) /\ i + 1 \in 1..(n + 1)
  BY <1>1, HeadTailProperties
<1> HIDE DEF t
<1>3. f \in [1..(n + 1) -> Text] /\ g \in [1..n -> Text]
  BY <1>2, CallParts, Zenon
<1>4. /\ f \in Seq(Text) /\ Len(f) = n + 1
      /\ g \in Seq(Text) /\ Len(g) = n
  <2>1. n + 1 \in Nat
    OBVIOUS
  <2>2. QED
    BY <2>1, <1>3, AFunctionIsASeq, Zenon
<1>5. f[1] = LabelLine(Head(list).label) \o Head(list).body
  <2>1. 1 \in 1..(n + 1)
    OBVIOUS
  <2>2. QED
    BY <1>2, <2>1, Zenon
<1>6. \A i \in 1..n : f[i + 1] = g[i]
  BY <1>2, Zenon
<1> HIDE DEF f, g
<1>7. /\ f # <<>> /\ Head(f) = f[1] /\ Tail(f) \in Seq(Text) /\ Len(Tail(f)) = n
      /\ \A i \in 1..n : Tail(f)[i] = f[i + 1]
  BY <1>4, HeadTailProperties
<1>8. Tail(f) = g
  BY <1>4, <1>6, <1>7, SeqEqual
<1>9. FlattenSeq(f) = Head(f) \o FlattenSeq(Tail(f))
  BY <1>4, <1>7, FlattenFirst DEF Text
<1>10. QED
  BY <1>5, <1>7, <1>8, <1>9, Zenon DEF TextOfCalls, f, g, t

LEMMA TextOfAppend ==
  ASSUME NEW bs \in Seq(Block), NEW b \in Block
  PROVE  TextOf(Append(bs, b)) = TextOf(bs) \o b.text
<1> DEFINE t == Append(bs, b)
           f == [i \in DOMAIN bs |-> bs[i].text]
           g == [i \in DOMAIN t |-> t[i].text]
<1>1. PICK n \in Nat : n = Len(bs)
  BY LenProperties
<1>2. /\ t \in Seq(Block) /\ Len(t) = n + 1
      /\ DOMAIN bs = 1..n /\ DOMAIN t = 1..(n + 1)
      /\ \A i \in 1..n : t[i] = bs[i] /\ bs[i] \in Block /\ i \in 1..(n + 1)
      /\ t[n + 1] = b
      /\ \A i \in 1..(n + 1) : t[i] \in Block
  BY <1>1, AppendProperties
<1> HIDE DEF t
<1>3. \A x \in Block : x.text \in Text
  BY DEF Block
<1>4. f \in [1..n -> Text] /\ g \in [1..(n + 1) -> Text]
  BY <1>2, <1>3, Zenon
<1>5. f \in Seq(Text) /\ Len(f) = n /\ g \in Seq(Text) /\ Len(g) = n + 1
  <2>1. n + 1 \in Nat
    OBVIOUS
  <2>2. QED
    BY <2>1, <1>4, AFunctionIsASeq, Zenon
<1>6. \A i \in 1..n : g[i] = f[i]
  BY <1>2, Zenon
<1>7. n + 1 \in 1..(n + 1)
  OBVIOUS
<1>8. g[n + 1] = b.text /\ b.text \in Text
  BY <1>2, <1>3, <1>7, Zenon
<1> HIDE DEF f, g
<1>9. g = Append(f, b.text)
  BY <1>5, <1>6, <1>8, SeqEqual, AppendProperties
<1>10. FlattenSeq(Append(f, b.text)) = FlattenSeq(f) \o b.text
  BY <1>5, <1>8, FlattenAppend DEF Text
<1>11. QED
  BY <1>9, <1>10, Zenon DEF TextOf, f, g, t

LEMMA TextOfTyped ==
  ASSUME NEW bs \in Seq(Block)
  PROVE  TextOf(bs) \in Text
<1> DEFINE f == [i \in DOMAIN bs |-> bs[i].text]
<1>1. /\ Len(bs) \in Nat /\ DOMAIN bs = 1..Len(bs)
      /\ \A i \in 1..Len(bs) : bs[i].text \in Text
  <2>1. \A x \in Block : x.text \in Text
    BY DEF Block
  <2>2. /\ Len(bs) \in Nat /\ DOMAIN bs = 1..Len(bs)
        /\ \A i \in 1..Len(bs) : bs[i] \in Block
    OBVIOUS
  <2>3. QED
    BY <2>1, <2>2, Zenon
<1>2. f \in [1..Len(bs) -> Text]
  BY <1>1, Zenon
<1>3. f \in Seq(Text)
  BY <1>1, <1>2, AFunctionIsASeq, Zenon
<1> HIDE DEF f
<1>4. FlattenSeq(f) \in Text
  BY <1>3, FlattenType DEF Text
<1>5. QED
  BY <1>4, Zenon DEF TextOf, f

LEMMA TextOfCallsTyped ==
  ASSUME NEW c \in Contents, NEW list \in Seq(CallsOf(c))
  PROVE  TextOfCalls(list) \in Text
<1> DEFINE f == [i \in DOMAIN list |-> LabelLine(list[i].label) \o list[i].body]
<1>1. /\ Len(list) \in Nat /\ DOMAIN list = 1..Len(list)
      /\ \A i \in 1..Len(list) : list[i] \in CallsOf(c)
  OBVIOUS
<1>2. f \in [1..Len(list) -> Text]
  BY <1>1, CallParts, Zenon
<1>3. f \in Seq(Text)
  BY <1>1, <1>2, AFunctionIsASeq, Zenon
<1> HIDE DEF f
<1>4. FlattenSeq(f) \in Text
  BY <1>3, FlattenType DEF Text
<1>5. QED
  BY <1>4, Zenon DEF TextOfCalls, f

LEMMA TextsOfNothing == TextOf(<<>>) = <<>> /\ TextOfCalls(<<>>) = <<>>
<1>1. DOMAIN <<>> = {}
  OBVIOUS
<1>2. /\ [i \in DOMAIN <<>> |-> <<>>[i].text] = <<>>
      /\ [i \in DOMAIN <<>> |-> LabelLine(<<>>[i].label) \o <<>>[i].body] = <<>>
  BY <1>1
<1>3. QED
  BY <1>2, FlattenEmpty, Zenon DEF TextOf, TextOfCalls

(* One more element, at the end or at the start, is one more of its type.   *)
LEMMA OfAppend ==
  ASSUME NEW S, NEW bs \in Seq(S), NEW b \in S, NEW type
  PROVE  /\ Of(type, bs) \in Nat
         /\ Of(type, Append(bs, b)) = Of(type, bs) + (IF b.block = type THEN 1 ELSE 0)
<1> DEFINE t == Append(bs, b)
           D == {i \in DOMAIN bs : bs[i].block = type}
           E == {i \in DOMAIN t : t[i].block = type}
<1>1. PICK n \in Nat : n = Len(bs)
  BY LenProperties
<1>2. /\ DOMAIN bs = 1..n /\ DOMAIN t = 1..(n + 1)
      /\ \A i \in 1..n : t[i] = bs[i]
      /\ t[n + 1] = b
  BY <1>1, AppendProperties
<1> HIDE DEF t
<1>3. IsFiniteSet(D) /\ Cardinality(D) \in Nat
  <2>1. IsFiniteSet(1..n)
    BY FS_Interval
  <2>2. D \in SUBSET (1..n)
    BY <1>2
  <2>3. QED
    BY <2>1, <2>2, FS_Subset, FS_CardinalityType
<1>4. E = IF b.block = type THEN D \cup {n + 1} ELSE D
  <2>1. \A i : i \in 1..(n + 1) <=> i \in 1..n \/ i = n + 1
    OBVIOUS
  <2>2. QED
    BY <1>2, <2>1
<1>5. n + 1 \notin D
  BY <1>2
<1>6. Cardinality(E) = Cardinality(D) + (IF b.block = type THEN 1 ELSE 0)
  <2> HIDE DEF D, E
  <2>1. CASE b.block = type
    BY <2>1, <1>3, <1>4, <1>5, FS_AddElement
  <2>2. CASE b.block # type
    BY <2>2, <1>3, <1>4
  <2>3. QED
    BY <2>1, <2>2
<1>7. QED
  BY <1>3, <1>6, Zenon DEF Of, t
  
LEMMA OfTail ==
  ASSUME NEW S, NEW list \in Seq(S), list # <<>>, NEW type
  PROVE  /\ Of(type, Tail(list)) \in Nat
         /\ Of(type, list) = Of(type, Tail(list)) + (IF Head(list).block = type THEN 1 ELSE 0)
<1> DEFINE t == Tail(list)
           D == {i \in DOMAIN t : t[i].block = type}
           E == {i \in DOMAIN list : list[i].block = type}
<1>1. PICK n \in Nat : n = Len(t) /\ Len(list) = n + 1
  BY HeadTailProperties, LenProperties
<1>2. /\ DOMAIN t = 1..n /\ DOMAIN list = 1..(n + 1)
      /\ \A i \in 1..n : t[i] = list[i + 1]
      /\ list[1] = Head(list)
  BY <1>1, HeadTailProperties
<1> HIDE DEF t
<1> DEFINE F == {i \in 2..(n + 1) : list[i].block = type}
           h == [i \in D |-> i + 1]
<1>3. IsFiniteSet(D) /\ Cardinality(D) \in Nat
  <2>1. IsFiniteSet(1..n)
    BY FS_Interval
  <2>2. D \in SUBSET (1..n)
    BY <1>2
  <2>3. QED
    BY <2>1, <2>2, FS_Subset, FS_CardinalityType
<1>4. h \in Bijection(D, F)
  <2>1. \A i \in D : i \in 1..n /\ i + 1 \in F
    BY <1>2
  <2>2. h \in [D -> F]
    BY <2>1
  <2>3. \A a, b \in D : h[a] = h[b] => a = b
    BY <2>1
  <2>4. \A y \in F : \E x \in D : h[x] = y
    <3> SUFFICES ASSUME NEW y \in F PROVE \E x \in D : h[x] = y
      OBVIOUS
    <3>1. y - 1 \in 1..n /\ (y - 1) + 1 = y
      OBVIOUS
    <3>2. y - 1 \in D
      BY <1>2, <3>1
    <3>3. QED
      BY <3>1, <3>2
  <2>5. QED
    BY <2>2, <2>3, <2>4, Fun_IsBij
<1>5. IsFiniteSet(F) /\ Cardinality(F) = Cardinality(D)
  BY <1>3, <1>4, Fun_ExistsBij, FS_Bijection
<1>6. E = IF Head(list).block = type THEN F \cup {1} ELSE F
  <2>1. DOMAIN list = {1} \cup 2..(n + 1)
    BY <1>2
  <2>2. E = {i \in {1} : list[i].block = type} \cup F
    BY <2>1, Zenon
  <2>3. {i \in {1} : list[i].block = type} = IF Head(list).block = type THEN {1} ELSE {}
    BY <1>2, Zenon
  <2>4. QED
    BY <2>2, <2>3
<1>7. 1 \notin F
  OBVIOUS
<1>8. Cardinality(E) = Cardinality(D) + (IF Head(list).block = type THEN 1 ELSE 0)
  <2> HIDE DEF D, E, F
  <2>1. CASE Head(list).block = type
    BY <2>1, <1>3, <1>5, <1>6, <1>7, FS_AddElement
  <2>2. CASE Head(list).block # type
    BY <2>2, <1>3, <1>5, <1>6
  <2>3. QED
    BY <2>1, <2>2
<1>9. QED
  BY <1>3, <1>8, Zenon DEF Of, t

LEMMA OfNothing ==
  ASSUME NEW type
  PROVE  Of(type, <<>>) = 0
<1>1. {i \in DOMAIN <<>> : <<>>[i].block = type} = {}
  OBVIOUS
<1>2. QED
  BY <1>1, FS_EmptySet, Zenon DEF Of

LEMMA SomeCount ==
  ASSUME NEW S, NEW list \in Seq(S), NEW type
  PROVE  Of(type, list) \in Nat
<1>1. CASE list = <<>>
  BY <1>1, OfNothing
<1>2. CASE list # <<>>
  <2>1. Head(list) \in S
    BY <1>2, HeadTailProperties
  <2>2. QED
    BY <2>1, OfAppend
<1>3. QED
  BY <1>1, <1>2

-----------------------------------------------------------------------------
(* The invariant: what each step of the builder needs.                      *)

LEMMA LabellingIsPlain == escapeSlackText(Labelling) = Labelling
<1>1. "L" # "&" /\ "L" # "<" /\ "L" # ">"
  OBVIOUS
<1>2. Entity("L") = <<"L">>
  BY <1>1, Zenon DEF Entity
<1>3. DOMAIN Labelling = {1} /\ Labelling[1] = "L"
  BY DEF Labelling
<1>4. [i \in DOMAIN Labelling |-> Entity(Labelling[i])] = <<Labelling>>
  <2>1. [i \in {1} |-> Labelling] = <<Labelling>>
    OBVIOUS
  <2>2. [i \in DOMAIN Labelling |-> Entity(Labelling[i])] = [i \in {1} |-> Labelling]
    BY <1>2, <1>3, Zenon DEF Labelling
  <2>3. QED
    BY <2>1, <2>2
<1>5. FlattenSeq(<<Labelling>>) = Labelling
  BY OwnTexts, FlattenOne DEF Text
<1>6. QED
  BY <1>4, <1>5, Zenon DEF escapeSlackText

(* A label's line takes three characters more than the label, escaped.      *)
LEMMA LabelLineLength ==
  ASSUME NEW c \in Contents, NEW label \in LabelsOf(c), label # <<>>,
         escapeSlackText(label) = label
  PROVE  Len(LabelLine(label)) = Len(label) + 3
<1>1. label \in Text
  BY LabelsAreTexts
<1>2. PICK y \in Text : y = <<"*">> \o label /\ Len(y) = 1 + Len(label)
  <2>1. <<"*">> \in Text /\ Len(<<"*">>) = 1
    BY OwnTexts, Zenon
  <2>2. <<"*">> \o label \in Text /\ Len(<<"*">> \o label) = Len(<<"*">>) + Len(label)
    BY <1>1, <2>1, ConcatText, Zenon
  <2>3. QED
    BY <2>1, <2>2, Zenon
<1>3. Len(y \o <<"*", "\n">>) = Len(y) + 2
  <2>1. <<"*", "\n">> \in Text /\ Len(<<"*", "\n">>) = 2
    BY OwnTexts, Zenon
  <2>2. Len(y \o <<"*", "\n">>) = Len(y) + Len(<<"*", "\n">>)
    BY <2>1, ConcatText, Zenon
  <2>3. QED
    BY <2>1, <2>2, Zenon
<1>4. LabelLine(label) = y \o <<"*", "\n">>
  BY <1>2, Zenon DEF LabelLine
<1>5. Len(LabelLine(label)) = Len(y) + 2 /\ Len(y) = 1 + Len(label)
  BY <1>2, <1>3, <1>4, Zenon
<1>6. Len(label) \in Nat
  BY <1>1, TextLength
<1>7. QED
  BY ONLY <1>5, <1>6

(* Beside its label a piece has room for an entity, and both fit a block,   *)
(* unless escaping makes the label longer.                                  *)
LEMMA PieceRoom ==
  ASSUME NEW c \in Contents, NEW label \in LabelsOf(c)
  PROVE  /\ PieceLimit(label) \in 5..SectionLimit
         /\ \/ Len(LabelLine(label)) + PieceLimit(label) <= SectionLimit
            \/ escapeSlackText(TafsirLabel(c.payload)) # TafsirLabel(c.payload)
<1>1. /\ SectionLimit \in Nat /\ ShortMax \in Nat
      /\ SectionLimit >= ShortMax + 4 + 4 + 5
  BY MessageAssumption, Zenon
<1>2. CASE label = <<>>
  <2>1. PieceLimit(label) = SectionLimit /\ LabelLine(label) = <<>>
    BY <1>2, Zenon DEF PieceLimit, LabelLine
  <2>2. Len(LabelLine(label)) = 0
    BY <2>1
  <2>3. QED
    BY ONLY <1>1, <2>1, <2>2
<1>3. CASE label # <<>>
  <2>1. label = Labelling \/ label = TafsirLabel(c.payload)
    BY <1>3, Zenon DEF LabelsOf
  <2>2. PieceLimit(label) = SectionLimit - Len(label) - 4
    BY <1>3, Zenon DEF PieceLimit
  <2>3. Len(label) \in 1..(ShortMax + 4)
    <3>1. 1 \in 1..(ShortMax + 4)
      BY ONLY <1>1
    <3>2. QED
      BY <2>1, <3>1, OwnTexts, TafsirLabelText, Zenon
  <2>4. PieceLimit(label) \in 5..SectionLimit
    BY ONLY <1>1, <2>2, <2>3
  <2>5. CASE escapeSlackText(label) = label
    <3>1. Len(LabelLine(label)) = Len(label) + 3
      BY <1>3, <2>5, LabelLineLength
    <3>2. Len(LabelLine(label)) + PieceLimit(label) <= SectionLimit
      BY ONLY <1>1, <2>2, <2>3, <3>1
    <3>3. QED
      BY <2>4, <3>2
  <2>6. CASE escapeSlackText(label) # label
    BY <2>1, <2>4, <2>6, LabellingIsPlain, Zenon
  <2>7. QED
    BY <2>5, <2>6
<1>4. QED
  BY <1>2, <1>3

LEMMA NothingAround ==
  ASSUME NEW a \in Text
  PROVE  a \o <<>> = a /\ <<>> \o a = a
BY ConcatEmptySeq DEF Text

LEMMA Associative ==
  ASSUME NEW a \in Text, NEW b \in Text, NEW c \in Text
  PROVE  (a \o b) \o c = a \o (b \o c)
BY ConcatAssociative DEF Text

(* The text of the call that starts moves from what is to come into what is *)
(* at hand.                                                                 *)
LEMMA StartingMovesText ==
  ASSUME NEW b \in Text, NEW l \in Text, NEW r \in Text, NEW t \in Text
  PROVE  b \o <<>> \o <<>> \o ((l \o r) \o t) = b \o l \o r \o t
<1>1. b \o <<>> \o <<>> = b
  BY NothingAround, Zenon
<1>2. l \o r \in Text
  BY ConcatText, Zenon
<1>3. b \o ((l \o r) \o t) = (b \o (l \o r)) \o t
  BY <1>2, Associative, Zenon
<1>4. b \o (l \o r) = (b \o l) \o r
  BY Associative, Zenon
<1>5. QED
  BY <1>1, <1>3, <1>4, Zenon

(* The piece and what is left of the text make up the text.                 *)
LEMMA CutInTwo ==
  ASSUME NEW t \in Text, NEW n \in Nat, Len(t) > n, NEW cut \in 1..n
  PROVE  /\ SubSeq(t, 1, cut) \in Text /\ Len(SubSeq(t, 1, cut)) = cut
         /\ SubSeq(t, cut + 1, Len(t)) \in Text
         /\ Len(SubSeq(t, cut + 1, Len(t))) = Len(t) - cut
         /\ SubSeq(t, cut + 1, Len(t)) # <<>>
         /\ SubSeq(t, 1, cut) \o SubSeq(t, cut + 1, Len(t)) = t
<1>1. /\ Len(t) \in Nat /\ 1 \in 1..(Len(t) + 1) /\ cut \in (1 - 1)..Len(t)
      /\ Len(t) \in cut..Len(t) /\ cut + 1 \in 1..(Len(t) + 1)
  <2>1. Len(t) \in Nat
    BY TextLength
  <2>2. QED
    BY <2>1
<1>2. /\ SubSeq(t, 1, cut) \in Text /\ Len(SubSeq(t, 1, cut)) = cut
      /\ SubSeq(t, cut + 1, Len(t)) \in Text
      /\ Len(SubSeq(t, cut + 1, Len(t))) = Len(t) - cut
  BY <1>1, SubSeqProperties DEF Text
<1>3. SubSeq(t, cut + 1, Len(t)) # <<>>
  <2>1. Len(t) - cut # 0
    BY <1>1
  <2>2. Len(<<>>) = 0
    OBVIOUS
  <2>3. QED
    BY <1>2, <2>1, <2>2, Zenon
<1>4. t \in Seq(Characters)
  BY DEF Text
<1>5. SubSeq(t, 1, cut) \o SubSeq(t, cut + 1, Len(t)) = SubSeq(t, 1, Len(t))
  BY <1>1, <1>4, ConcatAdjacentSubSeq
<1>6. SubSeq(t, 1, Len(t)) = t
  BY <1>4, SubSeqFull
<1>7. QED
  BY <1>2, <1>3, <1>5, <1>6

-----------------------------------------------------------------------------
(* RenderInv is inductive.                                                  *)

LEMMA RenderInitInv == RenderInit => RenderInv
<1> SUFFICES ASSUME RenderInit PROVE RenderInv
  OBVIOUS
<1>1. item \in Contents /\ english \in BOOLEAN
  BY DEF RenderInit
<1>2. /\ \A en \in BOOLEAN : renders[en].calls = Calls(item, en)
      /\ todo = renders[english].calls
  BY Zenon DEF RenderInit
<1>3. \A en \in BOOLEAN : renders[en].calls \in Seq(CallsOf(item))
  BY <1>1, <1>2, CallsTyped, Zenon
<1>4. /\ lead = <<>> /\ rest = <<>> /\ kind = "header" /\ limit = SectionLimit
      /\ blocks = <<>> /\ stage = "calls" /\ stored = <<>>
  BY DEF RenderInit
<1>5. RenderTypeOK
  <2>1. blocks \in Seq(Block) /\ stored \in Seq([english : BOOLEAN, blocks : Seq(Block)])
    BY <1>4, EmptySeq, Zenon
  <2>2. limit \in Nat
    BY <1>4, MessageAssumption, Zenon
  <2>3. QED
    BY <1>1, <1>2, <1>3, <1>4, <2>1, <2>2, EmptyText, Kinds, Zenon DEF RenderTypeOK
<1>6. SplitBounds
  BY <1>4 DEF SplitBounds
<1>7. NothingDropped
  <2>1. TextOfCalls(todo) \in Text
    BY <1>1, <1>2, <1>3, TextOfCallsTyped, Zenon
  <2>2. TextOf(blocks) \o lead \o rest \o TextOfCalls(todo) = TextOfCalls(todo)
    BY <1>4, <2>1, TextsOfNothing, EmptyText, NothingAround, Zenon
  <2>3. QED
    BY <1>2, <2>2, Zenon DEF NothingDropped
<1>8. BlocksFit
  BY <1>4 DEF BlocksFit
<1>9. SectionsCounted
  <2>1. Of("section", blocks) = 0
    BY <1>4, OfNothing
  <2>2. Of("section", todo) \in Nat
    BY <1>1, <1>2, <1>3, SomeCount
  <2>3. QED
    BY <1>2, <1>4, <2>1, <2>2 DEF SectionsCounted
<1>10. BuiltIsComplete /\ SentIsComplete
  BY <1>4 DEF BuiltIsComplete, SentIsComplete
<1>11. QED
  BY <1>5, <1>6, <1>7, <1>8, <1>9, <1>10 DEF RenderInv

LEMMA TypedParts ==
  ASSUME RenderTypeOK
  PROVE  /\ item \in Contents /\ english \in BOOLEAN
         /\ renders[english].calls \in Seq(CallsOf(item))
         /\ TextOfCalls(renders[english].calls) \in Text
         /\ TextOf(blocks) \in Text /\ TextOfCalls(todo) \in Text
<1>1. /\ item \in Contents /\ english \in BOOLEAN
      /\ \A en \in BOOLEAN : renders[en].calls \in Seq(CallsOf(item))
      /\ blocks \in Seq(Block) /\ todo \in Seq(CallsOf(item))
  BY Zenon DEF RenderTypeOK
<1>2. QED
  BY <1>1, TextOfTyped, TextOfCallsTyped, Zenon

LEMMA StartCallInv ==
  ASSUME RenderInv, StartCall
  PROVE  RenderInv'
<1> DEFINE c == Head(todo)
<1>1. /\ stage = "calls" /\ todo # <<>>
      /\ lead' = LabelLine(c.label) /\ rest' = c.body /\ kind' = c.block
      /\ limit' = PieceLimit(c.label)
      /\ todo' = Tail(todo) /\ stage' = "split"
      /\ item' = item /\ english' = english /\ blocks' = blocks /\ warnings' = warnings
      /\ stored' = stored /\ renders' = renders
  BY Zenon DEF StartCall
<1>2. /\ RenderTypeOK /\ SplitBounds /\ NothingDropped /\ BlocksFit
      /\ SectionsCounted /\ SentIsComplete
  BY Zenon DEF RenderInv
<1>3. /\ item \in Contents /\ todo \in Seq(CallsOf(item)) /\ blocks \in Seq(Block)
  BY <1>2, Zenon DEF RenderTypeOK
<1>4. c \in CallsOf(item) /\ Tail(todo) \in Seq(CallsOf(item))
  BY <1>1, <1>3, HeadTailProperties
<1>5. /\ TextOf(blocks) \in Text /\ TextOfCalls(Tail(todo)) \in Text
      /\ c.label \in LabelsOf(item) /\ LabelLine(c.label) \in Text /\ c.body \in Text
      /\ c.block \in BlockTypes
  BY <1>3, <1>4, TextOfTyped, TextOfCallsTyped, CallParts, Zenon
<1>6. /\ PieceLimit(c.label) \in 5..SectionLimit
      /\ Len(LabelLine(c.label)) + PieceLimit(c.label) <= SectionLimit \/ LabelGrows
  BY <1>3, <1>5, PieceRoom, Zenon DEF LabelGrows
<1>7. RenderTypeOK'
  <2>1. PieceLimit(c.label) \in Nat
    BY <1>6, MessageAssumption
  <2> HIDE DEF c
  <2>2. /\ item' \in Contents /\ english' \in BOOLEAN
        /\ \A en \in BOOLEAN : renders'[en].calls \in Seq(CallsOf(item'))
        /\ todo' \in Seq(CallsOf(item'))
        /\ lead' \in Text /\ rest' \in Text /\ kind' \in BlockTypes /\ limit' \in Nat
        /\ blocks' \in Seq(Block)
        /\ stored' \in Seq([english : BOOLEAN, blocks : Seq(Block)])
    BY <1>1, <1>2, <1>4, <1>5, <2>1, Zenon DEF RenderTypeOK
  <2>3. QED
    BY <1>1, <2>2, Zenon DEF RenderTypeOK
<1>8. SplitBounds'
  <2>1. LabelGrows' <=> LabelGrows
    BY <1>1, Zenon DEF LabelGrows
  <2>2. stage' # "split" => FALSE
    BY <1>1
  <2>3. QED
    BY <1>1, <1>6, <2>1, <2>2, Zenon DEF SplitBounds
<1>9. NothingDropped'
  <2>1. TextOfCalls(todo) = LabelLine(c.label) \o c.body \o TextOfCalls(Tail(todo))
    BY <1>1, <1>3, TextOfCallsFirst, Zenon
  <2>2. lead = <<>> /\ rest = <<>>
    BY <1>1, <1>2 DEF SplitBounds
  <2>3. TextOf(blocks) \o lead \o rest \o TextOfCalls(todo) = TextOfCalls(renders[english].calls)
    BY <1>1, <1>2 DEF NothingDropped
  <2>4. TextOf(blocks) \o LabelLine(c.label) \o c.body \o TextOfCalls(Tail(todo))
          = TextOfCalls(renders[english].calls)
    <3>1. PICK b \in Text : b = TextOf(blocks)
      BY <1>5
    <3>2. PICK l \in Text : l = LabelLine(c.label)
      BY <1>5
    <3>3. PICK r \in Text : r = c.body
      BY <1>5
    <3>4. PICK t \in Text : t = TextOfCalls(Tail(todo))
      BY <1>5
    <3>5. b \o <<>> \o <<>> \o ((l \o r) \o t) = b \o l \o r \o t
      BY ONLY StartingMovesText, b \in Text, l \in Text, r \in Text, t \in Text, Z3
    <3>6. b \o <<>> \o <<>> \o ((l \o r) \o t) = TextOfCalls(renders[english].calls)
      BY <2>1, <2>2, <2>3, <3>1, <3>2, <3>3, <3>4, Zenon
    <3>7. QED
      BY <3>1, <3>2, <3>3, <3>4, <3>5, <3>6, Zenon
  <2>5. QED
    BY <1>1, <2>4, Zenon DEF NothingDropped
<1>10. BlocksFit'
  BY <1>1, <1>2, Zenon DEF BlocksFit, LabelGrows
<1>11. SectionsCounted'
  <2>1. /\ Of("section", Tail(todo)) \in Nat
        /\ Of("section", todo) = Of("section", Tail(todo))
                                   + (IF c.block = "section" THEN 1 ELSE 0)
    BY <1>1, <1>3, OfTail
  <2>2. Of("section", blocks) \in Nat
    BY <1>3, SomeCount
  <2>3. "SECTION_SPLIT" \notin warnings =>
          Of("section", renders[english].calls) = Of("section", blocks) + Of("section", todo)
    BY <1>1, <1>2, <2>1, <2>2 DEF SectionsCounted
  <2>4. "SECTION_SPLIT" \notin warnings =>
          Of("section", renders[english].calls)
            = Of("section", blocks) + Of("section", Tail(todo))
                + (IF c.block = "section" THEN 1 ELSE 0)
    BY <2>1, <2>2, <2>3
  <2>5. QED
    BY <1>1, <2>4 DEF SectionsCounted
<1>12. BuiltIsComplete' /\ SentIsComplete'
  <2>1. stage' # "built"
    BY <1>1
  <2>2. QED
    BY <1>1, <1>2, <2>1, Zenon DEF BuiltIsComplete, SentIsComplete, Complete
<1>13. QED
  BY <1>7, <1>8, <1>9, <1>10, <1>11, <1>12 DEF RenderInv

(* A block is added: what both turns of the split loop do.                  *)
LEMMA PushedPiece ==
  ASSUME RenderInv, stage = "split", NEW piece \in Text, Push(piece)
  PROVE  /\ [block |-> kind, text |-> lead \o piece] \in Block
         /\ blocks' \in Seq(Block)
         /\ TextOf(blocks') = TextOf(blocks) \o (lead \o piece)
         /\ Of("section", blocks')
              = Of("section", blocks) + (IF kind = "section" THEN 1 ELSE 0)
         /\ Of("section", blocks) \in Nat /\ Of("section", todo) \in Nat
         /\ Len(piece) <= limit =>
              \A i \in DOMAIN blocks' : Len(blocks'[i].text) <= SectionLimit \/ LabelGrows
<1> DEFINE b == [block |-> kind, text |-> lead \o piece]
<1>1. /\ kind \in BlockTypes /\ lead \in Text /\ blocks \in Seq(Block)
      /\ todo \in Seq(CallsOf(item)) /\ limit \in Nat
  BY Zenon DEF RenderInv, RenderTypeOK
<1>2. lead \o piece \in Text /\ Len(lead \o piece) = Len(lead) + Len(piece)
  BY <1>1, ConcatText, Zenon
<1>3. b \in Block /\ b.text = lead \o piece /\ b.block = kind
  BY <1>1, <1>2 DEF Block
<1> HIDE DEF b
<1>4. blocks' = Append(blocks, b)
  BY Zenon DEF Push, b
<1>5. blocks' \in Seq(Block)
  BY <1>1, <1>3, <1>4, AppendProperties
<1>6. TextOf(blocks') = TextOf(blocks) \o (lead \o piece)
  BY <1>1, <1>3, <1>4, TextOfAppend, Zenon
<1>7. /\ Of("section", blocks')
           = Of("section", blocks) + (IF kind = "section" THEN 1 ELSE 0)
      /\ Of("section", blocks) \in Nat /\ Of("section", todo) \in Nat
  BY <1>1, <1>3, <1>4, OfAppend, SomeCount, Zenon
<1>8. ASSUME Len(piece) <= limit, NEW i \in DOMAIN blocks'
      PROVE  Len(blocks'[i].text) <= SectionLimit \/ LabelGrows
  <2>1. i \in 1..Len(blocks) \/ i = Len(blocks) + 1
    BY <1>1, <1>3, <1>4, <1>8, AppendProperties
  <2>2. CASE i \in 1..Len(blocks)
    <3>1. blocks'[i] = blocks[i] /\ i \in DOMAIN blocks
      BY <1>1, <1>3, <1>4, <2>2, AppendProperties
    <3>2. QED
      BY <3>1, Zenon DEF RenderInv, BlocksFit
  <2>3. CASE i = Len(blocks) + 1
    <3>1. blocks'[i] = b
      BY <1>1, <1>3, <1>4, <2>3, AppendProperties
    <3>2. Len(blocks'[i].text) = Len(lead) + Len(piece)
      BY <1>2, <1>3, <3>1, Zenon
    <3>3. Len(lead) \in Nat /\ Len(piece) \in Nat /\ SectionLimit \in Nat
      BY <1>1, TextLength, MessageAssumption
    <3>4. Len(lead) + limit <= SectionLimit \/ LabelGrows
      BY DEF RenderInv, SplitBounds
    <3>5. CASE Len(lead) + limit <= SectionLimit
      <4>1. Len(lead) + Len(piece) <= SectionLimit
        BY ONLY <1>1, <1>8, <3>3, <3>5
      <4>2. QED
        BY <3>2, <4>1
    <3>6. QED
      BY <3>4, <3>5
  <2>4. QED
    BY <2>1, <2>2, <2>3
<1>9. QED
  BY <1>3, <1>5, <1>6, <1>7, <1>8, Zenon DEF b

LEMMA SplitInv ==
  ASSUME RenderInv, Split
  PROVE  RenderInv'
<1> DEFINE cut == SafeCut(rest, limit)
           piece == SubSeq(rest, 1, cut)
           left == SubSeq(rest, cut + 1, Len(rest))
<1>1. /\ stage = "split" /\ Len(rest) > limit
      /\ Push(piece) /\ rest' = left /\ lead' = <<>>
      /\ warnings' = IF kind = "section" THEN warnings \cup {"SECTION_SPLIT"} ELSE warnings
      /\ item' = item /\ english' = english /\ todo' = todo /\ kind' = kind
      /\ limit' = limit /\ stage' = stage /\ stored' = stored /\ renders' = renders
  BY Zenon DEF Split
<1>2. /\ RenderTypeOK /\ SplitBounds /\ NothingDropped /\ BlocksFit
      /\ SectionsCounted /\ SentIsComplete
  BY Zenon DEF RenderInv
<1>3. /\ rest \in Text /\ lead \in Text /\ limit \in Nat
      /\ TextOf(blocks) \in Text /\ TextOfCalls(todo) \in Text
  BY <1>2, TypedParts, Zenon DEF RenderTypeOK
<1>4. limit >= 5 /\ limit \in 5..SectionLimit
  BY <1>1, <1>2 DEF SplitBounds
<1>5. cut \in 1..limit
  BY <1>1, <1>3, <1>4, SafeCutIsSafe
<1> HIDE DEF cut
<1>6. /\ piece \in Text /\ Len(piece) = cut /\ left \in Text /\ piece \o left = rest
  BY <1>1, <1>3, <1>5, CutInTwo
<1> HIDE DEF piece, left
<1>7. Len(piece) <= limit
  BY <1>5, <1>6
<1>8. /\ blocks' \in Seq(Block)
      /\ TextOf(blocks') = TextOf(blocks) \o (lead \o piece)
      /\ Of("section", blocks')
           = Of("section", blocks) + (IF kind = "section" THEN 1 ELSE 0)
      /\ Of("section", blocks) \in Nat /\ Of("section", todo) \in Nat
      /\ \A i \in DOMAIN blocks' : Len(blocks'[i].text) <= SectionLimit \/ LabelGrows
  BY <1>1, <1>6, <1>7, PushedPiece, Zenon
<1>9. RenderTypeOK'
  <2>1. /\ item' \in Contents /\ english' \in BOOLEAN
        /\ \A en \in BOOLEAN : renders'[en].calls \in Seq(CallsOf(item'))
        /\ todo' \in Seq(CallsOf(item'))
        /\ lead' \in Text /\ rest' \in Text /\ kind' \in BlockTypes /\ limit' \in Nat
        /\ blocks' \in Seq(Block)
        /\ stage' \in {"calls", "split", "built", "skipped", "stored", "refused", "posted", "shown"}
        /\ stored' \in Seq([english : BOOLEAN, blocks : Seq(Block)])
    BY <1>1, <1>2, <1>6, <1>8, EmptyText, Zenon DEF RenderTypeOK
  <2>2. QED
    BY <2>1, Zenon DEF RenderTypeOK
<1>10. SplitBounds'
  <2>1. Len(lead') + limit' <= SectionLimit
    <3>1. Len(<<>>) = 0
      OBVIOUS
    <3>2. QED
      BY <1>1, <1>4, <3>1
  <2>2. stage' # "split" => FALSE
    BY <1>1
  <2>3. QED
    BY <1>1, <1>4, <2>1, <2>2, Zenon DEF SplitBounds
<1>11. NothingDropped'
  <2>1. TextOf(blocks) \o lead \o rest \o TextOfCalls(todo) = TextOfCalls(renders[english].calls)
    BY <1>1, <1>2 DEF NothingDropped
  <2>2. PICK b \in Text : b = TextOf(blocks)
    BY <1>3
  <2>3. PICK t \in Text : t = TextOfCalls(todo)
    BY <1>3
  <2>4. PICK l \in Text : l = lead
    BY <1>3
  <2>5. PICK p \in Text : p = piece
    BY <1>6
  <2>6. PICK r \in Text : r = left
    BY <1>6
  <2>7. (b \o (l \o p)) \o <<>> \o r = b \o l \o (p \o r)
    <3>1. /\ l \o p \in Text /\ b \o (l \o p) \in Text
      BY ConcatText, Zenon
    <3>2. PICK x \in Text : x = b \o l
      BY ConcatText, Zenon
    <3>3. (b \o (l \o p)) \o <<>> = b \o (l \o p)
      BY <3>1, NothingAround, Zenon
    <3>4. b \o (l \o p) = x \o p
      <4>1. (b \o l) \o p = b \o (l \o p)
        BY Associative, Zenon
      <4>2. QED
        BY <3>2, <4>1, Zenon
    <3>5. (x \o p) \o r = x \o (p \o r)
      BY Associative, Zenon
    <3>6. QED
      BY <3>2, <3>3, <3>4, <3>5, Zenon
  <2>8. b \o l \o (p \o r) \o t = TextOfCalls(renders[english].calls)
    BY <1>6, <2>1, <2>2, <2>3, <2>4, <2>5, <2>6, Zenon
  <2>9. TextOf(blocks') \o <<>> \o left \o TextOfCalls(todo)
          = TextOfCalls(renders[english].calls)
    BY <1>8, <2>2, <2>3, <2>4, <2>5, <2>6, <2>7, <2>8, Zenon
  <2>10. QED
    BY <1>1, <2>9, Zenon DEF NothingDropped
<1>12. BlocksFit'
  BY <1>1, <1>8, Zenon DEF BlocksFit, LabelGrows
<1>13. SectionsCounted'
  <2>1. ASSUME "SECTION_SPLIT" \notin warnings'
        PROVE  kind # "section" /\ "SECTION_SPLIT" \notin warnings
    BY <1>1, <2>1
  <2>2. "SECTION_SPLIT" \notin warnings =>
          Of("section", renders[english].calls)
            = Of("section", blocks) + Of("section", todo)
                + (IF kind = "section" THEN 1 ELSE 0)
    BY <1>1, <1>2 DEF SectionsCounted
  <2>3. "SECTION_SPLIT" \notin warnings' =>
          Of("section", renders[english].calls)
            = Of("section", blocks') + Of("section", todo)
                + (IF kind = "section" THEN 1 ELSE 0)
    BY <1>8, <2>1, <2>2
  <2>4. QED
    BY <1>1, <2>3, Zenon DEF SectionsCounted
<1>14. BuiltIsComplete' /\ SentIsComplete'
  <2>1. stage' # "built"
    BY <1>1
  <2>2. QED
    BY <1>1, <1>2, <2>1, Zenon DEF BuiltIsComplete, SentIsComplete, Complete
<1>15. QED
  BY <1>9, <1>10, <1>11, <1>12, <1>13, <1>14 DEF RenderInv

LEMMA LastPieceInv ==
  ASSUME RenderInv, LastPiece
  PROVE  RenderInv'
<1>1. /\ stage = "split" /\ Len(rest) <= limit
      /\ Push(rest) /\ rest' = <<>> /\ lead' = <<>> /\ stage' = "calls"
      /\ warnings' = warnings
      /\ item' = item /\ english' = english /\ todo' = todo /\ kind' = kind
      /\ limit' = limit /\ stored' = stored /\ renders' = renders
  BY Zenon DEF LastPiece
<1>2. /\ RenderTypeOK /\ SplitBounds /\ NothingDropped /\ BlocksFit
      /\ SectionsCounted /\ SentIsComplete
  BY Zenon DEF RenderInv
<1>3. /\ rest \in Text /\ lead \in Text /\ limit \in Nat
      /\ TextOf(blocks) \in Text /\ TextOfCalls(todo) \in Text
  BY <1>2, TypedParts, Zenon DEF RenderTypeOK
<1>4. /\ blocks' \in Seq(Block)
      /\ TextOf(blocks') = TextOf(blocks) \o (lead \o rest)
      /\ Of("section", blocks')
           = Of("section", blocks) + (IF kind = "section" THEN 1 ELSE 0)
      /\ Of("section", blocks) \in Nat /\ Of("section", todo) \in Nat
      /\ \A i \in DOMAIN blocks' : Len(blocks'[i].text) <= SectionLimit \/ LabelGrows
  BY <1>1, <1>3, PushedPiece, Zenon
<1>5. RenderTypeOK'
  <2>1. /\ item' \in Contents /\ english' \in BOOLEAN
        /\ \A en \in BOOLEAN : renders'[en].calls \in Seq(CallsOf(item'))
        /\ todo' \in Seq(CallsOf(item'))
        /\ lead' \in Text /\ rest' \in Text /\ kind' \in BlockTypes /\ limit' \in Nat
        /\ blocks' \in Seq(Block)
        /\ stage' \in {"calls", "split", "built", "skipped", "stored", "refused", "posted", "shown"}
        /\ stored' \in Seq([english : BOOLEAN, blocks : Seq(Block)])
    BY <1>1, <1>2, <1>4, EmptyText, Zenon DEF RenderTypeOK
  <2>2. QED
    BY <2>1, Zenon DEF RenderTypeOK
<1>6. SplitBounds'
  BY <1>1 DEF SplitBounds
<1>7. NothingDropped'
  <2>1. TextOf(blocks) \o lead \o rest \o TextOfCalls(todo) = TextOfCalls(renders[english].calls)
    BY <1>1, <1>2 DEF NothingDropped
  <2>2. /\ lead \o rest \in Text
        /\ TextOf(blocks) \o (lead \o rest) \in Text
    BY <1>3, ConcatText, Zenon
  <2>3. TextOf(blocks) \o (lead \o rest) = TextOf(blocks) \o lead \o rest
    BY <1>3, Associative, Zenon
  <2>4. TextOf(blocks') \o <<>> \o <<>> = TextOf(blocks')
    BY <1>4, <2>2, NothingAround, Zenon
  <2>5. TextOf(blocks') \o <<>> \o <<>> \o TextOfCalls(todo)
          = TextOfCalls(renders[english].calls)
    BY <1>4, <2>1, <2>3, <2>4, Zenon
  <2>6. QED
    BY <1>1, <2>5, Zenon DEF NothingDropped
<1>8. BlocksFit'
  BY <1>1, <1>4, Zenon DEF BlocksFit, LabelGrows
<1>9. SectionsCounted'
  <2>1. "SECTION_SPLIT" \notin warnings =>
          Of("section", renders[english].calls)
            = Of("section", blocks) + Of("section", todo)
                + (IF kind = "section" THEN 1 ELSE 0)
    BY <1>1, <1>2 DEF SectionsCounted
  <2>2. "SECTION_SPLIT" \notin warnings =>
          Of("section", renders[english].calls) = Of("section", blocks') + Of("section", todo)
    BY <1>4, <2>1
  <2>3. Of("section", blocks') \in Nat
    BY <1>4
  <2>4. QED
    BY <1>1, <1>4, <2>2, <2>3 DEF SectionsCounted
<1>10. BuiltIsComplete' /\ SentIsComplete'
  <2>1. stage' # "built"
    BY <1>1
  <2>2. QED
    BY <1>1, <1>2, <2>1, Zenon DEF BuiltIsComplete, SentIsComplete, Complete
<1>11. QED
  BY <1>5, <1>6, <1>7, <1>8, <1>9, <1>10 DEF RenderInv

(* The blocks that are kept.                                                *)
LEMMA Kept ==
  ASSUME blocks \in Seq(Block)
  PROVE  LET n == Min({MaxBlocks, Len(blocks)}) IN
         /\ n \in 0..Len(blocks)
         /\ Len(blocks) <= MaxBlocks => n = Len(blocks)
         /\ SubSeq(blocks, 1, n) \in Seq(Block)
         /\ \A i \in DOMAIN SubSeq(blocks, 1, n) :
              i \in DOMAIN blocks /\ SubSeq(blocks, 1, n)[i] = blocks[i]
<1>1. MaxBlocks \in Nat /\ Len(blocks) \in Nat
  BY MessageAssumption
<1> DEFINE m == IF MaxBlocks <= Len(blocks) THEN MaxBlocks ELSE Len(blocks)
           n == Min({MaxBlocks, Len(blocks)})
<1>2. m \in {MaxBlocks, Len(blocks)} /\ \A y \in {MaxBlocks, Len(blocks)} : m <= y
  BY <1>1
<1>3. n \in {MaxBlocks, Len(blocks)} /\ \A y \in {MaxBlocks, Len(blocks)} : n <= y
  BY <1>2, Zenon DEF Min
<1> HIDE DEF n
<1>4. n \in 0..Len(blocks) /\ (Len(blocks) <= MaxBlocks => n = Len(blocks))
  BY <1>1, <1>3
<1>5. /\ SubSeq(blocks, 1, n) \in Seq(Block)
      /\ Len(SubSeq(blocks, 1, n)) = n
      /\ \A i \in 1..n : SubSeq(blocks, 1, n)[i] = blocks[i]
  BY <1>1, <1>4, SubSeqProperties
<1>6. \A i \in DOMAIN SubSeq(blocks, 1, n) :
        i \in DOMAIN blocks /\ SubSeq(blocks, 1, n)[i] = blocks[i]
  BY <1>1, <1>4, <1>5
<1>7. QED
  BY <1>4, <1>5, <1>6, Zenon DEF n

LEMMA BuildInv ==
  ASSUME RenderInv, build
  PROVE  RenderInv'
<1> DEFINE n == Min({MaxBlocks, Len(blocks)})
           kept == SubSeq(blocks, 1, n)
<1>1. /\ stage = "calls" /\ todo = <<>> /\ stage' = "built"
      /\ blocks' = kept
      /\ warnings' = warnings
           \cup {w \in {"BLOCK_COUNT"} : Len(blocks) > MaxBlocks}
           \cup {w \in {"SOFT_BUDGET"} : visible > SoftBudget}
      /\ item' = item /\ english' = english /\ todo' = todo /\ lead' = lead /\ rest' = rest
      /\ kind' = kind /\ limit' = limit /\ stored' = stored /\ renders' = renders
  BY Zenon DEF build
<1>2. /\ RenderTypeOK /\ SplitBounds /\ NothingDropped /\ BlocksFit
      /\ SectionsCounted /\ SentIsComplete
  BY Zenon DEF RenderInv
<1>3. blocks \in Seq(Block) /\ TextOf(blocks) \in Text
  BY <1>2, TypedParts, Zenon DEF RenderTypeOK
<1>4. /\ kept \in Seq(Block)
      /\ \A i \in DOMAIN kept : i \in DOMAIN blocks /\ kept[i] = blocks[i]
      /\ Len(blocks) <= MaxBlocks => n = Len(blocks)
  BY <1>3, Kept, Zenon
<1>5. Len(blocks) <= MaxBlocks => kept = blocks
  BY <1>3, <1>4, SubSeqFull, Zenon
<1> HIDE DEF kept, n
<1>6. RenderTypeOK'
  <2>1. /\ item' \in Contents /\ english' \in BOOLEAN
        /\ \A en \in BOOLEAN : renders'[en].calls \in Seq(CallsOf(item'))
        /\ todo' \in Seq(CallsOf(item'))
        /\ lead' \in Text /\ rest' \in Text /\ kind' \in BlockTypes /\ limit' \in Nat
        /\ blocks' \in Seq(Block)
        /\ stored' \in Seq([english : BOOLEAN, blocks : Seq(Block)])
    BY <1>1, <1>2, <1>4, Zenon DEF RenderTypeOK
  <2>2. QED
    BY <1>1, <2>1, Zenon DEF RenderTypeOK
<1>7. SplitBounds'
  BY <1>1, <1>2 DEF SplitBounds
<1>8. NothingDropped' /\ SectionsCounted'
  BY <1>1 DEF NothingDropped, SectionsCounted
<1>9. BlocksFit'
  BY <1>1, <1>2, <1>4, Zenon DEF BlocksFit, LabelGrows
<1>10. BuiltIsComplete'
  <2>1. SUFFICES ASSUME ~Blocked'
                 PROVE  Complete(english, blocks)' 
    BY Zenon DEF BuiltIsComplete
  <2>2. "BLOCK_COUNT" \notin warnings' /\ "SECTION_SPLIT" \notin warnings'
    BY <2>1, Zenon DEF Blocked, SEND_BLOCKING_WARNINGS
  <2>3. ~(Len(blocks) > MaxBlocks) /\ "SECTION_SPLIT" \notin warnings
    BY <1>1, <2>2, Zenon
  <2>4. Len(blocks) <= MaxBlocks
    <3>1. Len(blocks) \in Nat /\ MaxBlocks \in Nat /\ ~(Len(blocks) > MaxBlocks)
      BY <1>3, <2>3, MessageAssumption
    <3>2. QED
      BY ONLY <3>1
  <2>5. blocks' = blocks
    BY <1>1, <1>5, <2>4, Zenon
  <2>6. TextOf(blocks) = TextOfCalls(renders[english].calls)
    <3>1. lead = <<>> /\ rest = <<>>
      BY <1>1, <1>2 DEF SplitBounds
    <3>2. TextOf(blocks) \o lead \o rest \o TextOfCalls(todo)
            = TextOfCalls(renders[english].calls)
      BY <1>1, <1>2 DEF NothingDropped
    <3>3. TextOf(blocks) \o <<>> = TextOf(blocks)
      BY <1>3, NothingAround, Zenon
    <3>4. QED
      BY <1>1, <3>1, <3>2, <3>3, TextsOfNothing, Zenon
  <2>7. Of("section", blocks) = Of("section", renders[english].calls)
    <3>1. /\ Of("section", todo) = 0
          /\ Of("section", blocks) \in Nat
      BY <1>1, <1>3, OfNothing, SomeCount
    <3>2. Of("section", renders[english].calls)
            = Of("section", blocks) + Of("section", todo) + 0
      BY <1>1, <1>2, <2>3 DEF SectionsCounted
    <3>3. QED
      BY <3>1, <3>2
  <2>8. QED
    BY <1>1, <2>5, <2>6, <2>7, Zenon DEF Complete
<1>11. SentIsComplete'
  BY <1>1, <1>2, Zenon DEF SentIsComplete, Complete
<1>12. QED
  BY <1>6, <1>7, <1>8, <1>9, <1>10, <1>11 DEF RenderInv

(* The render at hand stays as it was; nothing is rendered any longer.      *)
LEMMA EndedInv ==
  ASSUME RenderInv, UNCHANGED <<item, english, builder, renders>>,
         stage' \in {"skipped", "stored", "refused", "posted", "shown"},
         stage = "built",
         stored' \in Seq([english : BOOLEAN, blocks : Seq(Block)]),
         SentIsComplete'
  PROVE  RenderInv'
<1>1. /\ item' = item /\ english' = english /\ renders' = renders
      /\ todo' = todo /\ lead' = lead /\ rest' = rest /\ kind' = kind /\ limit' = limit
      /\ blocks' = blocks /\ warnings' = warnings
  BY Zenon DEF builder
<1>2. RenderTypeOK /\ SplitBounds /\ BlocksFit
  BY Zenon DEF RenderInv
<1>3. stage' # "calls" /\ stage' # "split" /\ stage' # "built"
  OBVIOUS
<1>4. RenderTypeOK'
  <2>1. stage' \in {"calls", "split", "built", "skipped", "stored", "refused", "posted", "shown"}
    OBVIOUS
  <2>2. QED
    BY <1>1, <1>2, <2>1, Zenon DEF RenderTypeOK
<1>5. SplitBounds'
  <2>1. lead = <<>> /\ rest = <<>>
    BY <1>2 DEF SplitBounds
  <2>2. QED
    BY <1>1, <1>3, <2>1, Zenon DEF SplitBounds
<1>6. NothingDropped' /\ SectionsCounted' /\ BuiltIsComplete'
  BY <1>3 DEF NothingDropped, SectionsCounted, BuiltIsComplete
<1>7. BlocksFit'
  BY <1>1, <1>2, Zenon DEF BlocksFit, LabelGrows
<1>8. QED
  BY <1>4, <1>5, <1>6, <1>7 DEF RenderInv

(* What is stored or posted is complete, when nothing blocks it.            *)
LEMMA CompleteMessage ==
  ASSUME RenderInv, stage = "built"
  PROVE  /\ Message \in [english : BOOLEAN, blocks : Seq(Block)]
         /\ <<Message>> \in Seq([english : BOOLEAN, blocks : Seq(Block)])
         /\ ~Blocked => Complete(<<Message>>[1].english, <<Message>>[1].blocks)
<1>1. english \in BOOLEAN /\ blocks \in Seq(Block)
  BY Zenon DEF RenderInv, RenderTypeOK
<1>2. /\ Message \in [english : BOOLEAN, blocks : Seq(Block)]
      /\ Message.english = english /\ Message.blocks = blocks
  BY <1>1 DEF Message
<1>3. <<Message>>[1] = Message
  OBVIOUS
<1>4. ~Blocked => Complete(english, blocks)
  BY Zenon DEF RenderInv, BuiltIsComplete
<1>5. QED
  BY <1>2, <1>3, <1>4, SingletonSeq, Zenon

LEMMA EndInv ==
  ASSUME RenderInv, stage = "built", SkipRun \/ RefuseInstant \/ Preview
  PROVE  RenderInv'
<1>1. /\ stage' \in {"skipped", "stored", "refused", "posted", "shown"}
      /\ UNCHANGED <<item, english, builder, renders>> /\ stored' = stored
  BY DEF SkipRun, RefuseInstant, Preview, End
<1>2. /\ stored' \in Seq([english : BOOLEAN, blocks : Seq(Block)])
      /\ SentIsComplete'
  BY <1>1, Zenon DEF RenderInv, RenderTypeOK, SentIsComplete, Complete
<1>3. QED
  BY <1>1, <1>2, EndedInv

LEMMA RenderEnglishInv ==
  ASSUME RenderInv, RenderEnglish
  PROVE  RenderInv'
<1>1. /\ stage = "built" /\ stage' = "calls" /\ ~Blocked
      /\ stored' = <<Message>> /\ english' = TRUE /\ todo' = renders[TRUE].calls
      /\ blocks' = <<>> /\ warnings' = renders[TRUE].warnings
      /\ item' = item /\ lead' = lead /\ rest' = rest /\ kind' = kind /\ limit' = limit
      /\ renders' = renders
  BY Zenon DEF RenderEnglish
<1>2. RenderTypeOK /\ SplitBounds
  BY Zenon DEF RenderInv
<1>3. /\ item \in Contents /\ TRUE \in BOOLEAN
      /\ renders[TRUE].calls \in Seq(CallsOf(item))
  BY <1>2, Zenon DEF RenderTypeOK
<1>4. lead = <<>> /\ rest = <<>>
  BY <1>1, <1>2 DEF SplitBounds
<1>5. RenderTypeOK'
  <2>1. /\ item' \in Contents /\ english' \in BOOLEAN
        /\ \A en \in BOOLEAN : renders'[en].calls \in Seq(CallsOf(item'))
        /\ todo' \in Seq(CallsOf(item'))
        /\ lead' \in Text /\ rest' \in Text /\ kind' \in BlockTypes /\ limit' \in Nat
        /\ blocks' \in Seq(Block)
        /\ stored' \in Seq([english : BOOLEAN, blocks : Seq(Block)])
    BY <1>1, <1>2, <1>3, CompleteMessage, EmptySeq, Zenon DEF RenderTypeOK
  <2>2. QED
    BY <1>1, <2>1, Zenon DEF RenderTypeOK
<1>6. SplitBounds'
  BY <1>1, <1>4 DEF SplitBounds
<1>7. NothingDropped'
  <2>1. TextOfCalls(renders[TRUE].calls) \in Text
    BY <1>3, TextOfCallsTyped, Zenon
  <2>2. TextOf(<<>>) \o <<>> \o <<>> \o TextOfCalls(renders[TRUE].calls)
          = TextOfCalls(renders[TRUE].calls)
    BY <2>1, TextsOfNothing, EmptyText, NothingAround, Zenon
  <2>3. QED
    BY <1>1, <1>4, <2>2, Zenon DEF NothingDropped
<1>8. BlocksFit'
  BY <1>1 DEF BlocksFit
<1>9. SectionsCounted'
  <2>1. /\ Of("section", <<>>) = 0
        /\ Of("section", renders[TRUE].calls) \in Nat
    BY <1>3, OfNothing, SomeCount
  <2>2. Of("section", renders[TRUE].calls)
          = Of("section", <<>>) + Of("section", renders[TRUE].calls) + 0
    <3>1. PICK k \in Nat : k = Of("section", renders[TRUE].calls)
      BY <2>1
    <3>2. k = 0 + k + 0
      OBVIOUS
    <3>3. QED
      BY <2>1, <3>1, <3>2, Zenon
  <2>3. ~(stage' = "split" /\ kind' = "section")
    BY <1>1
  <2>4. QED
    BY <1>1, <2>2, <2>3, Zenon DEF SectionsCounted
<1>10. BuiltIsComplete'
  BY <1>1 DEF BuiltIsComplete
<1>11. SentIsComplete'
  BY <1>1, CompleteMessage, Zenon DEF SentIsComplete, Complete
<1>12. QED
  BY <1>5, <1>6, <1>7, <1>8, <1>9, <1>10, <1>11 DEF RenderInv

LEMMA CreateRunInv ==
  ASSUME RenderInv, CreateRun
  PROVE  RenderInv'
<1>1. /\ stage = "built" /\ stored # <<>> /\ stored' = Append(stored, Message)
      /\ stage' = "stored"
      /\ UNCHANGED <<item, english, builder, renders>> /\ renders' = renders
  BY DEF CreateRun
<1>2. stored \in Seq([english : BOOLEAN, blocks : Seq(Block)]) /\ SentIsComplete
  BY Zenon DEF RenderInv, RenderTypeOK
<1>3. /\ stored' \in Seq([english : BOOLEAN, blocks : Seq(Block)])
      /\ stored'[1] = stored[1]
  <2>1. Message \in [english : BOOLEAN, blocks : Seq(Block)]
    BY <1>1, CompleteMessage
  <2>2. 1 \in 1..Len(stored)
    BY <1>1, <1>2
  <2>3. QED
    BY <1>1, <1>2, <2>1, <2>2, AppendProperties
<1>4. SentIsComplete'
  BY <1>1, <1>2, <1>3, Zenon DEF SentIsComplete, Complete
<1>5. stage' \in {"skipped", "stored", "refused", "posted", "shown"}
  BY <1>1
<1>6. QED
  BY <1>1, <1>3, <1>4, <1>5, EndedInv

LEMMA PostInstantInv ==
  ASSUME RenderInv, PostInstant
  PROVE  RenderInv'
<1>1. /\ stage = "built" /\ ~Blocked /\ stored' = <<Message>> /\ stage' = "posted"
      /\ UNCHANGED <<item, english, builder, renders>> /\ renders' = renders
  BY DEF PostInstant
<1>2. stored' \in Seq([english : BOOLEAN, blocks : Seq(Block)])
  BY <1>1, CompleteMessage, Zenon
<1>3. SentIsComplete'
  BY <1>1, CompleteMessage, Zenon DEF SentIsComplete, Complete
<1>4. stage' \in {"skipped", "stored", "refused", "posted", "shown"}
  BY <1>1
<1>5. QED
  BY <1>1, <1>2, <1>3, <1>4, EndedInv

LEMMA RenderStutterInv ==
  ASSUME RenderInv, UNCHANGED renderVars
  PROVE  RenderInv'
<1>1. /\ item' = item /\ english' = english /\ renders' = renders /\ stage' = stage
      /\ todo' = todo /\ lead' = lead /\ rest' = rest /\ kind' = kind /\ limit' = limit
      /\ blocks' = blocks /\ warnings' = warnings /\ stored' = stored
  BY Zenon DEF renderVars, builder
<1>2. /\ RenderTypeOK /\ SplitBounds /\ NothingDropped /\ BlocksFit
      /\ SectionsCounted /\ BuiltIsComplete /\ SentIsComplete
  BY Zenon DEF RenderInv
<1>3. RenderTypeOK'
  BY <1>1, <1>2, Zenon DEF RenderTypeOK
<1>4. SplitBounds' /\ BlocksFit'
  BY <1>1, <1>2, Zenon DEF SplitBounds, BlocksFit, LabelGrows
<1>5. NothingDropped' /\ SectionsCounted'
  BY <1>1, <1>2, Zenon DEF NothingDropped, SectionsCounted
<1>6. BuiltIsComplete' /\ SentIsComplete'
  BY <1>1, <1>2, Zenon DEF BuiltIsComplete, SentIsComplete, Complete, Blocked
<1>7. QED
  BY <1>3, <1>4, <1>5, <1>6 DEF RenderInv

LEMMA RenderStepInv == RenderInv /\ [RenderNext]_renderVars => RenderInv'
<1> SUFFICES ASSUME RenderInv, [RenderNext]_renderVars PROVE RenderInv'
  OBVIOUS
<1>1. CASE StartCall
  BY <1>1, StartCallInv
<1>2. CASE Split
  BY <1>2, SplitInv
<1>3. CASE LastPiece
  BY <1>3, LastPieceInv
<1>4. CASE build
  BY <1>4, BuildInv
<1>5. CASE SkipRun \/ RefuseInstant \/ Preview
  <2>1. stage = "built"
    BY <1>5 DEF SkipRun, RefuseInstant, Preview
  <2>2. QED
    BY <1>5, <2>1, EndInv
<1>6. CASE RenderEnglish
  BY <1>6, RenderEnglishInv
<1>7. CASE CreateRun
  BY <1>7, CreateRunInv
<1>8. CASE PostInstant
  BY <1>8, PostInstantInv
<1>9. CASE UNCHANGED renderVars
  BY <1>9, RenderStutterInv
<1>10. QED
  BY <1>1, <1>2, <1>3, <1>4, <1>5, <1>6, <1>7, <1>8, <1>9, Zenon DEF RenderNext

(* Every render keeps the invariant: its values have their types, a piece   *)
(* and the label before it have room in a block, and what has been emitted, *)
(* what is at hand and what is to come is the message, section by section.  *)
THEOREM RenderInvariant == RenderSpec => []RenderInv
<1>1. RenderInit => RenderInv
  BY RenderInitInv
<1>2. RenderInv /\ [RenderNext]_renderVars => RenderInv'
  BY RenderStepInv
<1>3. QED
  BY <1>1, <1>2, PTL DEF RenderSpec

(* Whatever the texts and wherever they are cut, splitting a message into   *)
(* blocks drops no character of it, adds none and keeps their order.        *)
THEOREM NothingIsDropped == RenderSpec => []NothingDropped
<1>1. RenderInv => NothingDropped
  BY Zenon DEF RenderInv
<1>2. QED
  BY <1>1, RenderInvariant, PTL

(* For pieces of any size, a turn of the loop cuts off at least one         *)
(* character and no more than fit (src/slack/renderers/slack-text.ts): the  *)
(* rest gets shorter, so the loop ends.                                     *)
THEOREM SplittingAdvances == RenderSpec => []SplitAdvances
<1>1. ASSUME RenderInv, NEW n \in 1..(Len(rest) - 1)
      PROVE  SafeCut(rest, n) \in 1..n
  <2> DEFINE w == SubSeq(rest, 1, n)
             cut == findBreakpoint(w)
  <2>1. rest \in Text /\ Len(rest) \in Nat
    BY <1>1, Zenon, TextLength DEF RenderInv, RenderTypeOK
  <2>2. n \in Nat /\ n > 0 /\ n <= Len(rest)
    BY <2>1
  <2>3. w \in Text /\ Len(w) = n
    BY <2>1, <2>2, SubSeqProperties DEF Text
  <2>4. cut \in 0..n
    BY <2>2, <2>3, BreakpointInWindow, Zenon
  <2>5. SafeCut(rest, n) = IF cut > 0 THEN cut ELSE n
    BY Zenon DEF SafeCut
  <2> HIDE DEF cut
  <2>6. QED
    BY <2>2, <2>4, <2>5
<1>2. RenderInv => SplitAdvances
  BY <1>1, Zenon DEF SplitAdvances
<1>3. QED
  BY <1>2, RenderInvariant, PTL

(* No block is longer than Slack allows, for any limit that has room for a  *)
(* label and an entity, unless escaping makes the label longer.             *)
THEOREM BlocksFitSlack == RenderSpec => []BlocksFit
<1>1. RenderInv => BlocksFit
  BY Zenon DEF RenderInv
<1>2. QED
  BY <1>1, RenderInvariant, PTL

(* A run's canonical message and an instant command's are the whole render, *)
(* with as many sections as it asks for.                                    *)
THEOREM SentMessageIsComplete == RenderSpec => []SentIsComplete
<1>1. RenderInv => SentIsComplete
  BY Zenon DEF RenderInv
<1>2. QED
  BY <1>1, RenderInvariant, PTL

(* What a step of the split loop that leaves a rest cuts off.               *)
LEMMA SplitCut ==
  ASSUME RenderInv, [RenderNext]_renderVars, stage = "split", rest' # <<>>,
         ~UNCHANGED renderVars
  PROVE  \E cut \in 1..limit :
           /\ rest \in Text /\ limit \in Nat /\ limit < Len(rest)
           /\ cut = Len(rest) - Len(rest')
           /\ rest' = SubSeq(rest, cut + 1, Len(rest))
           /\ ~Divides(rest, cut)
           /\ \/ rest[cut] \in Whitespace
              \/ \A i \in 2..limit : rest[i] \notin Whitespace
<1>1. Split
  <2>1. ~LastPiece
    BY Zenon DEF LastPiece
  <2>2. stage # "calls" /\ stage # "built"
    OBVIOUS
  <2>3. ~StartCall /\ ~build /\ ~SkipRun /\ ~RenderEnglish /\ ~CreateRun
        /\ ~RefuseInstant /\ ~PostInstant /\ ~Preview
    BY <2>2, Zenon DEF StartCall, build, SkipRun, RenderEnglish, CreateRun, RefuseInstant,
                       PostInstant, Preview
  <2>4. QED
    BY <2>1, <2>3, Zenon DEF RenderNext
<1> DEFINE c == SafeCut(rest, limit)
<1>2. Len(rest) > limit /\ rest' = SubSeq(rest, c + 1, Len(rest))
  BY <1>1, Zenon DEF Split
<1>3. rest \in Text /\ limit \in Nat
  BY Zenon DEF RenderInv, RenderTypeOK
<1>4. limit >= 5
  BY DEF RenderInv, SplitBounds
<1>5. /\ c \in 1..limit
      /\ ~Divides(rest, c)
      /\ rest[c] \in Whitespace \/ \A i \in 2..limit : rest[i] \notin Whitespace
  BY <1>2, <1>3, <1>4, SafeCutIsSafe
<1> HIDE DEF c
<1>6. Len(rest') = Len(rest) - c
  BY <1>2, <1>3, <1>5, CutInTwo
<1>7. Len(rest) \in Nat
  BY <1>3, TextLength
<1>8. c = Len(rest) - Len(rest') /\ limit < Len(rest)
  BY <1>2, <1>3, <1>5, <1>6, <1>7
<1>9. QED
  BY <1>2, <1>3, <1>5, <1>8, Zenon

(* No turn of the loop cuts an entity in two, for any text and any limit.   *)
THEOREM EntitiesStayWhole == RenderSpec => EntitiesWhole
<1> DEFINE A == stage = "split" /\ rest' # <<>> => ~Divides(rest, Len(rest) - Len(rest'))
<1>1. RenderInv /\ [RenderNext]_renderVars => A \/ UNCHANGED renderVars
  <2> SUFFICES ASSUME RenderInv, [RenderNext]_renderVars, stage = "split", rest' # <<>>
               PROVE  ~Divides(rest, Len(rest) - Len(rest')) \/ UNCHANGED renderVars
    OBVIOUS
  <2>1. QED
    BY SplitCut, Zenon
<1>2. QED
  BY <1>1, RenderInvariant, PTL DEF RenderSpec, EntitiesWhole

(* Nor a word, where there is whitespace to cut after.                      *)
THEOREM WordsStayWhole == RenderSpec => WordsWhole
<1> DEFINE A == /\ stage = "split"
                /\ rest' # <<>>
                /\ rest'[1] \notin Whitespace
                => LET piece == SubSeq(rest, 1, Len(rest) - Len(rest')) IN
                   \/ piece[Len(piece)] \in Whitespace
                   \/ \A i \in 2..limit : rest[i] \notin Whitespace
<1>1. RenderInv /\ [RenderNext]_renderVars => A \/ UNCHANGED renderVars
  <2> SUFFICES ASSUME RenderInv, [RenderNext]_renderVars, stage = "split", rest' # <<>>,
                      ~UNCHANGED renderVars
               PROVE  LET piece == SubSeq(rest, 1, Len(rest) - Len(rest')) IN
                      \/ piece[Len(piece)] \in Whitespace
                      \/ \A i \in 2..limit : rest[i] \notin Whitespace
    OBVIOUS
  <2>2. PICK cut \in 1..limit :
          /\ rest \in Text /\ limit \in Nat /\ limit < Len(rest)
          /\ cut = Len(rest) - Len(rest')
          /\ \/ rest[cut] \in Whitespace
             \/ \A i \in 2..limit : rest[i] \notin Whitespace
    BY SplitCut, Zenon
  <2>3. /\ Len(SubSeq(rest, 1, cut)) = cut
        /\ SubSeq(rest, 1, cut)[cut] = rest[cut]
    <3>1. Len(rest) \in Nat
      BY <2>2, TextLength
    <3>2. 1 \in 1..(Len(rest) + 1) /\ cut \in 0..Len(rest) /\ cut \in 1..Len(rest)
      BY <2>2, <3>1
    <3>3. QED
      BY <2>2, <3>1, <3>2, SubSeqProperties DEF Text
  <2>4. QED
    BY <2>2, <2>3, Zenon
<1>2. QED
  BY <1>1, RenderInvariant, PTL DEF RenderSpec, WordsWhole

-----------------------------------------------------------------------------
(* The selection.                                                           *)

(* The place k further than m's successor in a rotation of n places.        *)
Place(m, k, n) == ((m + k) % n) + 1

LEMMA Within ==
  ASSUME NEW n \in Nat, NEW q \in Nat, q < n
  PROVE  q % n = q
OBVIOUS

LEMMA Round ==
  ASSUME NEW n \in Nat, NEW q \in Nat, q < n
  PROVE  (q + n) % n = q
OBVIOUS

(* From the place after m the rotation visits every place, m the last.      *)
LEMMA RoundTrip ==
  ASSUME NEW n \in Nat, NEW m \in 1..n
  PROVE  /\ \A k \in 0..(n - 1) : /\ Place(m, k, n) \in 1..n
                                  /\ Place(m, k, n) = m => k = n - 1
         /\ \A p \in 1..n : \E k \in 0..(n - 1) : Place(m, k, n) = p
<1>1. ASSUME NEW k \in 0..(n - 1)
      PROVE  /\ Place(m, k, n) \in 1..n
             /\ Place(m, k, n) = m => k = n - 1
  <2>1. CASE m + k < n
    <3>1. m + k \in Nat
      OBVIOUS
    <3>2. (m + k) % n = m + k
      BY <2>1, <3>1, Within
    <3>3. Place(m, k, n) = m + k + 1
      BY <3>2 DEF Place
    <3>4. QED
      BY <2>1, <3>3
  <2>2. CASE ~(m + k < n)
    <3>1. PICK q \in Nat : q = m + k - n
      BY <2>2
    <3>2. q < n /\ q + n = m + k
      BY <3>1
    <3>3. (q + n) % n = q
      BY <3>2, Round
    <3>4. Place(m, k, n) = q + 1
      BY <3>2, <3>3 DEF Place
    <3>5. QED
      BY <3>1, <3>2, <3>4
  <2>3. QED
    BY <2>1, <2>2
<1>2. ASSUME NEW p \in 1..n
      PROVE  \E k \in 0..(n - 1) : Place(m, k, n) = p
  <2>1. PICK q \in Nat : q = p - 1
    OBVIOUS
  <2>2. q < n /\ q + 1 = p
    BY <2>1
  <2>3. CASE q >= m
    <3>1. PICK k \in 0..(n - 1) : m + k = q
      <4>1. q - m \in 0..(n - 1) /\ m + (q - m) = q
        BY <2>2, <2>3
      <4>2. QED
        BY <4>1
    <3>2. q % n = q
      BY <2>2, Within
    <3>3. QED
      BY <2>2, <3>1, <3>2 DEF Place
  <2>4. CASE ~(q >= m)
    <3>1. PICK k \in 0..(n - 1) : m + k = q + n
      <4>1. q + n - m \in 0..(n - 1) /\ m + (q + n - m) = q + n
        BY <2>2, <2>4
      <4>2. QED
        BY <4>1
    <3>2. (q + n) % n = q
      BY <2>2, Round
    <3>3. QED
      BY <2>2, <3>1, <3>2 DEF Place
  <2>5. QED
    BY <2>3, <2>4
<1>3. QED
  BY <1>1, <1>2

USE RotationAssumption DEF RotationAssumption

(* Every strategy selects from the pool, if there is anything in it.        *)
LEMMA SelectType ==
  ASSUME strategy \in Strategies, NEW pool \in SUBSET Items,
         NEW i \in select(pool)
  PROVE  i \in pool \cup {None}
<1>1. CASE pool = {}
  BY <1>1 DEF select
<1>2. CASE pool # {} /\ strategy = "RANDOM_WITHOUT_REPLACEMENT"
  BY <1>2 DEF select, selectRandomWithoutReplacement
<1>3. CASE pool # {} /\ strategy = "ALTERNATE_BY_TYPE"
  <2>1. i \in selectAlternateByType(pool)
    BY <1>3 DEF select
  <2>2. PICK type : i \in selectLeastRecentlySent(PoolOf(type, pool))
    BY <2>1 DEF selectAlternateByType
  <2>3. QED
    BY <2>2 DEF selectLeastRecentlySent, PoolOf
<1>4. CASE pool # {} /\ strategy = "LEAST_RECENTLY_SENT"
  BY <1>4 DEF select, selectLeastRecentlySent
<1>5. QED
  BY <1>1, <1>2, <1>3, <1>4

(* What a strategy selects may be used next.                                *)
LEMMA SelectFair ==
  ASSUME strategy \in Strategies, approved \subseteq Items,
         NEW i \in select(approved), i # None
  PROVE  MayBeNext(i)
<1> SUFFICES ASSUME Used(i), NEW j \in Rivals(i)
             PROVE  IF strategy = "RANDOM_WITHOUT_REPLACEMENT"
                    THEN Used(j) ELSE LaterThan(j, i)
  BY DEF MayBeNext
<1>1. /\ j \in approved \ {i}
      /\ strategy = "ALTERNATE_BY_TYPE" => Type[j] = Type[i]
  BY DEF Rivals, Standing
<1>2. approved # {}
  BY <1>1
<1>3. CASE strategy = "RANDOM_WITHOUT_REPLACEMENT"
  <2>1. i \in selectRandomWithoutReplacement(approved)
    BY <1>2, <1>3 DEF select
  <2>2. QED
    BY <1>1, <1>3, <2>1 DEF selectRandomWithoutReplacement
<1>4. CASE strategy = "ALTERNATE_BY_TYPE"
  <2>1. i \in selectAlternateByType(approved)
    BY <1>2, <1>4 DEF select
  <2>2. PICK type : i \in selectLeastRecentlySent(PoolOf(type, approved))
    BY <2>1 DEF selectAlternateByType
  <2>3. j \in PoolOf(type, approved) \ {i}
    BY <1>1, <1>4, <2>2 DEF PoolOf, selectLeastRecentlySent
  <2>4. Precedes(i, j)
    BY <2>2, <2>3 DEF selectLeastRecentlySent
  <2>5. QED
    BY <1>4, <2>4 DEF Precedes
<1>5. CASE strategy = "LEAST_RECENTLY_SENT"
  <2>1. i \in selectLeastRecentlySent(approved)
    BY <1>2, <1>5 DEF select
  <2>2. Precedes(i, j)
    BY <1>1, <2>1 DEF selectLeastRecentlySent
  <2>3. QED
    BY <1>5, <2>2 DEF Precedes
<1>6. QED
  BY <1>3, <1>4, <1>5

(* Every type that content can have has its place in the rotation.          *)
LEMMA TypePlace ==
  ASSUME NEW i \in Items
  PROVE  \E p \in 1..Len(Types) : Types[p] = Type[i]
<1>1. Type[i] \in {Types[k] : k \in 1..Len(Types)}
  OBVIOUS
<1>2. QED
  BY <1>1, Zenon

LEMMA RotationLength == Len(Types) \in Nat
<1> DEFINE S == {Types[k] : k \in 1..Len(Types)}
<1>1. Types \in Seq(S)
  OBVIOUS
<1> HIDE DEF S
<1>2. QED
  BY <1>1

(* ALTERNATE_BY_TYPE selects another type than the latest run's, if the     *)
(* pool has one.                                                            *)
LEMMA SelectAlternates ==
  ASSUME TypeOK, NEW e \in Dates, Latest(e),
         NEW pool \in SUBSET Items,
         NEW j \in pool, Type[j] # Type[run[e].item],
         NEW i \in selectAlternateByType(pool)
  PROVE  Type[i] # Type[run[e].item]
<1> DEFINE n == Len(Types)
           T == Type[run[e].item]
           last == {m \in 1..n : Types[m] = lastSelectedType}
           due == CHOOSE m \in last : TRUE
           stocked == {k \in 0..(n - 1) : PoolOf(DueType(k), pool) # {}}
           first == CHOOSE k \in stocked : \A l \in stocked : k <= l
<1>1. lastSelectedType = T
  <2>1. e \in Selected /\ \A f \in Selected : f <= e
    BY DEF Latest
  <2>2. \A f \in Selected : f \in Int
    BY DEF Selected, Dates
  <2>3. \A d \in Selected : (\A f \in Selected : f <= d) => d = e
    BY <2>1, <2>2
  <2>4. (CHOOSE d \in Selected : \A f \in Selected : f <= d) = e
    BY <2>1, <2>3
  <2>5. Selected # {}
    BY <2>1
  <2>6. QED
    BY <2>4, <2>5 DEF lastSelectedType
<1>2. run[e].item \in Items
  BY DEF TypeOK, Run, Latest, Selected
<1>3. due \in last /\ last # {}
  <2>1. \E m \in 1..n : Types[m] = T
    BY <1>2, TypePlace
  <2>2. last # {}
    BY <1>1, <2>1
  <2>3. QED
    BY <2>2
<1>4. n \in Nat /\ due \in 1..n /\ Types[due] = T
  BY <1>1, <1>3, RotationLength
<1>5. \A k : DueType(k) = Types[Place(due, k, n)]
  BY <1>3 DEF DueType, Place
<1>6. i \in selectLeastRecentlySent(PoolOf(DueType(first), pool))
  BY DEF selectAlternateByType
<1> HIDE DEF n, last, due, stocked, first
<1>7. Type[i] = DueType(first)
  BY <1>6 DEF selectLeastRecentlySent, PoolOf
<1>8. PICK k \in 0..(n - 1) : DueType(k) = Type[j]
  <2>1. PICK p \in 1..n : Types[p] = Type[j]
    BY TypePlace DEF n
  <2>2. PICK k \in 0..(n - 1) : Place(due, k, n) = p
    BY <1>4, RoundTrip
  <2>3. QED
    BY <1>5, <2>1, <2>2
<1>9. k \in stocked
  BY <1>8 DEF stocked, PoolOf
<1>10. first \in stocked /\ first <= k
  <2>1. stocked \in SUBSET Nat
    BY DEF stocked
  <2>2. \E f \in stocked : \A l \in stocked : f <= l
    BY <1>9, <2>1, LeastOf
  <2>3. QED
    BY <1>9, <2>2 DEF first
<1>11. first \in 0..(n - 1)
  BY <1>10 DEF stocked
<1>12. SUFFICES ASSUME DueType(first) = T PROVE FALSE
  BY <1>7
<1>13. /\ Place(due, first, n) \in 1..n
       /\ Types[Place(due, first, n)] = Types[due]
  <2>1. Place(due, first, n) \in 1..n
    BY <1>4, <1>11, RoundTrip
  <2>2. QED
    BY <1>4, <1>5, <1>12, <2>1
<1>14. Place(due, first, n) = due
  BY <1>4, <1>13 DEF n
<1>15. first = n - 1 /\ n \in Nat
  BY <1>4, <1>11, <1>14, RoundTrip
<1>16. k = first
  <2>1. first <= k
    BY <1>10
  <2>2. QED
    BY <1>15, <2>1
<1>17. QED
  BY <1>8, <1>12, <1>16

(* What is selected may follow what was.                                    *)
LEMMA SelectFollows ==
  ASSUME TypeOK, NEW i \in select(approved), i # None, strategy = "ALTERNATE_BY_TYPE"
  PROVE  MayFollow(i)
<1> SUFFICES ASSUME NEW e \in Dates, Latest(e), NEW j \in Items, Standing(j),
                    Type[j] # Type[run[e].item]
             PROVE  Type[i] # Type[run[e].item]
  BY DEF MayFollow
<1>1. j \in approved /\ approved \in SUBSET Items
  BY DEF Standing, TypeOK
<1>2. i \in selectAlternateByType(approved)
  BY <1>1 DEF select
<1>3. QED
  BY <1>1, <1>2, SelectAlternates

(* Every step keeps every variable in its type.                             *)
LEMMA InitTypeOK == Init => TypeOK
BY DEF Init, TypeOK, Run, NoRun, Dates

LEMMA TypeStep == TypeOK /\ [Next]_vars => TypeOK'
<1> SUFFICES ASSUME TypeOK, [Next]_vars PROVE TypeOK'
  OBVIOUS
<1> USE DEF TypeOK, content, call
<1>1. ASSUME NEW c \in Callers, NEW d \in Current, Existing(c, d) PROVE TypeOK'
  <2>1. d \in Dates
    BY DEF Current
  <2>2. served' \in [Dates -> SUBSET Items]
    BY <1>1, <2>1 DEF Existing, Deliver
  <2>3. QED
    BY <1>1, <2>2 DEF Existing
<1>2. ASSUME NEW c \in Callers, NEW d \in Current, Select(c, d) PROVE TypeOK'
  <2>1. PICK i \in select(approved) : choice' = [choice EXCEPT ![c] = i]
    BY <1>2 DEF Select
  <2>2. i \in Items \cup {None}
    BY SelectType
  <2>3. d \in Dates
    BY DEF Current
  <2>4. QED
    BY <1>2, <2>1, <2>2, <2>3 DEF Select
<1>3. ASSUME NEW c \in Callers, Commit(c) PROVE TypeOK'
  <2>1. date[c] \in Dates /\ choice[c] \in Items \cup {None}
    BY <1>3 DEF Commit
  <2>2. /\ NewRun(choice[c]) \in Run
        /\ NewRun(choice[c]).status = "SENT" => NewRun(choice[c]).item \in Items
    BY <2>1 DEF NewRun, Run
  <2>3. /\ run' \in [Dates -> Run]
        /\ \A d \in Dates : run'[d].status = "SENT" => run'[d].item \in Items
    BY <1>3, <2>1, <2>2 DEF Commit
  <2>4. served' \in [Dates -> SUBSET Items]
    BY <1>3, <2>1, <2>2 DEF Commit, Deliver
  <2>5. QED
    BY <1>3, <2>3, <2>4 DEF Commit, Finish
<1>4. ASSUME NEW c \in Callers, Conflict(c) \/ Throw(c) PROVE TypeOK'
  BY <1>4 DEF Conflict, Throw
<1>5. ASSUME NEW c \in Callers, Reread(c) PROVE TypeOK'
  <2>1. date[c] \in Dates
    BY <1>5 DEF Reread
  <2>2. served' \in [Dates -> SUBSET Items]
    BY <1>5, <2>1 DEF Reread, Deliver
  <2>3. QED
    BY <1>5, <2>2 DEF Reread, Finish
<1>6. ASSUME NEW c \in Callers, Abandon(c) PROVE TypeOK'
  BY <1>6 DEF Abandon, Finish
<1>7. ASSUME NEW i \in Items, Approve(i) \/ Archive(i) PROVE TypeOK'
  BY <1>7 DEF Approve, Archive
<1>8. CASE NextDay \/ UNCHANGED vars
  BY <1>8 DEF NextDay, vars
<1>9. QED
  BY <1>1, <1>2, <1>3, <1>4, <1>5, <1>6, <1>7, <1>8 DEF Next, CallStep

(* A run, once it exists, is never written again; a subscriber is sent the  *)
(* item of a run that exists, and of no other.                              *)
LEMMA ItemStep == TypeOK /\ OneItemPerDate /\ [Next]_vars => OneItemPerDate'
<1> SUFFICES ASSUME TypeOK, OneItemPerDate, [Next]_vars PROVE OneItemPerDate'
  OBVIOUS
<1> USE DEF OneItemPerDate
<1>1. ASSUME NEW c \in Callers, NEW d \in Current, Existing(c, d)
      PROVE OneItemPerDate'
  BY <1>1 DEF Existing, Deliver, Current, TypeOK
<1>2. ASSUME NEW c \in Callers, Commit(c) PROVE OneItemPerDate'
  <2>1. date[c] \in Dates /\ ~Exists(date[c])
    BY <1>2 DEF Commit, TypeOK, Serializable
  <2>2. served[date[c]] = {}
    BY <2>1 DEF Exists
  <2>3. /\ run' = [run EXCEPT ![date[c]] = NewRun(choice[c])]
        /\ served' = [served EXCEPT ![date[c]] =
                        IF NewRun(choice[c]).status = "SENT"
                        THEN served[date[c]] \cup {NewRun(choice[c]).item}
                        ELSE served[date[c]]]
    BY <1>2 DEF Commit, Deliver
  <2>4. QED
    BY <2>1, <2>2, <2>3 DEF TypeOK
<1>3. ASSUME NEW c \in Callers, Reread(c) PROVE OneItemPerDate'
  BY <1>3 DEF Reread, Deliver, TypeOK
<1>4. CASE UNCHANGED <<run, served>>
  BY <1>4
<1>5. QED
  BY <1>1, <1>2, <1>3, <1>4
  DEF Next, CallStep, Select, Conflict, Throw, Abandon, Approve, Archive,
      NextDay, vars

(* Whether an item may be next depends on the runs, and gets no harder as   *)
(* long as no run is committed: what is approved meanwhile is not Standing. *)
LEMMA StandsStill ==
  ASSUME TypeOK, NEW i \in Items, MayBeNext(i),
         UNCHANGED <<run, runs, strategy>>,
         \A j \in Items : Standing(j)' => Standing(j)
  PROVE  /\ MayBeNext(i)'
         /\ MayFollow(i) => MayFollow(i)'
<1>1. Rivals(i)' \subseteq Rivals(i)
  BY DEF Rivals
<1>2. /\ Used(i)' <=> Used(i)
      /\ \A j \in Items : (Used(j)' <=> Used(j)) /\ (LaterThan(j, i)' <=> LaterThan(j, i))
  BY DEF Used, LaterThan, Selected
<1>3. MayBeNext(i)'
  BY <1>1, <1>2 DEF MayBeNext, Rivals
<1>4. MayFollow(i) => MayFollow(i)'
  <2>1. \A e \in Dates : Latest(e)' <=> Latest(e)
    BY DEF Latest, Selected
  <2>2. QED
    BY <2>1 DEF MayFollow
<1>5. QED
  BY <1>3, <1>4

LEMMA StandingShrinks ==
  ASSUME TypeOK, [Next]_vars, runs' = runs
  PROVE  \A j \in Items : Standing(j)' => Standing(j)
<1>1. CASE UNCHANGED content
  BY <1>1 DEF content, Standing
<1>2. ASSUME NEW i \in Items, Approve(i) \/ Archive(i)
      PROVE \A j \in Items : Standing(j)' => Standing(j)
  <2>1. since \in [Items -> Nat] /\ runs \in Nat
    BY DEF TypeOK
  <2>2. CASE Approve(i)
    BY <2>1, <2>2 DEF Approve, Standing
  <2>3. CASE Archive(i)
    BY <2>1, <2>3 DEF Archive, Standing
  <2>4. QED
    BY <1>2, <2>2, <2>3
<1>3. ASSUME NEW c \in Callers, CallStep(c) PROVE UNCHANGED content
  BY <1>3 DEF CallStep, Existing, Select, Commit, Conflict, Reread, Throw, Abandon
<1>4. QED
  BY <1>1, <1>2, <1>3 DEF Next, NextDay, vars

LEMMA ChoiceStep == RotationInv /\ [Next]_vars => ChoicesStand'
<1> SUFFICES ASSUME RotationInv, [Next]_vars PROVE ChoicesStand'
  OBVIOUS
<1> USE DEF RotationInv
<1>1. ASSUME NEW b \in Callers, Commit(b) PROVE ChoicesStand'
  <2>1. /\ runs' = runs + 1 /\ runs \in Nat
        /\ seen' = [seen EXCEPT ![b] = 0]
        /\ at' = [at EXCEPT ![b] = "idle"]
    BY <1>1 DEF Commit, Finish, TypeOK
  <2>2. \A c \in Callers : seen'[c] < runs'
    BY <2>1 DEF ChoicesStand, TypeOK
  <2>3. QED
    BY <2>1, <2>2 DEF ChoicesStand, TypeOK
<1>2. ASSUME UNCHANGED <<run, runs, strategy>>,
             \A c \in Callers :
               \/ at'[c] = at[c] /\ choice'[c] = choice[c] /\ seen'[c] = seen[c]
               \/ at'[c] # "commit" /\ seen'[c] \in {0, seen[c]}
               \/ /\ seen'[c] = runs /\ choice'[c] \in select(approved)
      PROVE  ChoicesStand'
  <2>1. ASSUME NEW c \in Callers PROVE seen'[c] <= runs'
    <3>1. runs \in Nat /\ seen[c] <= runs /\ runs' = runs
      BY <1>2 DEF ChoicesStand, TypeOK
    <3>2. seen'[c] \in {0, seen[c], runs}
      BY <1>2
    <3>3. QED
      BY <3>1, <3>2
  <2>2. ASSUME NEW c \in Callers,
               at'[c] = "commit", choice'[c] # None, seen'[c] = runs'
        PROVE  /\ MayBeNext(choice[c])'
               /\ strategy' = "ALTERNATE_BY_TYPE" => MayFollow(choice[c])'
    <3>1. PICK i \in Items : /\ i = choice'[c]
                             /\ MayBeNext(i)
                             /\ strategy = "ALTERNATE_BY_TYPE" => MayFollow(i)
      <4>1. CASE at'[c] = at[c] /\ choice'[c] = choice[c] /\ seen'[c] = seen[c]
        BY <1>2, <2>2, <4>1 DEF ChoicesStand, TypeOK
      <4>2. CASE choice'[c] \in select(approved)
        BY <2>2, <4>2, SelectFair, SelectFollows, SelectType DEF TypeOK
      <4>3. QED
        BY <1>2, <2>2, <4>1, <4>2
    <3>2. \A j \in Items : Standing(j)' => Standing(j)
      BY <1>2, StandingShrinks
    <3>3. MayBeNext(i)' /\ (strategy' = "ALTERNATE_BY_TYPE" => MayFollow(i)')
      BY <1>2, <3>1, <3>2, StandsStill
    <3>4. choice[c]' = i
      BY <3>1
    <3>5. QED
      BY <3>3, <3>4 DEF MayBeNext, MayFollow, Rivals, Used, LaterThan
  <2>3. QED
    BY <2>1, <2>2 DEF ChoicesStand
<1>3. ASSUME NEW b \in Callers, NEW d \in Current, Select(b, d)
      PROVE  ChoicesStand'
  BY <1>2, <1>3 DEF Select, TypeOK
<1>4. ASSUME NEW b \in Callers, Reread(b) \/ Abandon(b) PROVE ChoicesStand'
  BY <1>2, <1>4 DEF Reread, Abandon, Finish, TypeOK
<1>5. ASSUME NEW b \in Callers, Conflict(b) \/ Throw(b) PROVE ChoicesStand'
  BY <1>2, <1>5 DEF Conflict, Throw, TypeOK
<1>6. CASE UNCHANGED <<strategy, run, runs, call>>
  BY <1>2, <1>6 DEF call
<1>7. QED
  BY <1>1, <1>3, <1>4, <1>5, <1>6
  DEF Next, CallStep, Existing, Approve, Archive, NextDay, vars

LEMMA InitInv == Init => RotationInv
BY InitTypeOK DEF RotationInv, Init, OneItemPerDate, ChoicesStand, NoRun

(* The inductive invariant of Rotation.                                     *)
THEOREM RotationInvariant == Spec => []RotationInv
<1>1. RotationInv /\ [Next]_vars => RotationInv'
  BY TypeStep, ItemStep, ChoiceStep DEF RotationInv
<1>2. QED
  BY <1>1, InitInv, PTL DEF Spec

(* PLAN.md 11.5: all the subscribers who reach a date get the same item.    *)
THEOREM SameItem == Spec => []OneItemPerDate
<1>1. RotationInv => OneItemPerDate
  BY DEF RotationInv
<1>2. QED
  BY <1>1, RotationInvariant, PTL

(* PLAN.md 5.14: no item is used again too early, however calls overlap.    *)
THEOREM FairRotation == Spec => NoEarlyRepeat
<1>1. RotationInv /\ [Next]_vars
        => [\A i \in Items : NewlySelected(i) => MayBeNext(i)]_vars
  <2> SUFFICES ASSUME RotationInv, Next, NEW i \in Items, NewlySelected(i)
               PROVE  MayBeNext(i)
    OBVIOUS
  <2>1. PICK d \in Dates : ~Exists(d) /\ run'[d].status # "NONE" /\ run'[d].item = i
    BY DEF NewlySelected
  <2>2. run' # run
    BY <2>1 DEF Exists
  <2>3. PICK c \in Callers : Commit(c)
    BY <2>2 DEF Next, CallStep, Existing, Select, Conflict, Reread, Throw,
                Abandon, Approve, Archive, NextDay
  <2>4. date[c] = d /\ i = choice[c]
    BY <2>1, <2>3 DEF Commit, RotationInv, TypeOK, Exists, NewRun
  <2>5. i # None /\ seen[c] = runs /\ at[c] = "commit"
    BY <2>3, <2>4 DEF Commit, Serializable
  <2>6. QED
    BY <2>4, <2>5 DEF RotationInv, ChoicesStand
<1>2. QED
  BY <1>1, RotationInvariant, PTL DEF Spec, NoEarlyRepeat

(* content-selection.service.ts:124: as long as dates are reserved in their *)
(* order, no two cycles in a row have the same type while another type has  *)
(* something to send, however calls overlap.                                *)
THEOREM TypesTakeTurns == Spec => TypesAlternate
<1>1. RotationInv /\ [Next]_vars
        => [\A d, e \in Dates :
              /\ strategy = "ALTERNATE_BY_TYPE"
              /\ Latest(e) /\ e < d
              /\ ~Exists(d) /\ run'[d].item # None
              /\ \E j \in Items : Standing(j) /\ Type[j] # Type[run[e].item]
              => Type[run'[d].item] # Type[run[e].item]]_vars
  <2> SUFFICES ASSUME RotationInv, Next, NEW d \in Dates, NEW e \in Dates,
                      strategy = "ALTERNATE_BY_TYPE", Latest(e), e < d,
                      ~Exists(d), run'[d].item # None,
                      \E j \in Items : Standing(j) /\ Type[j] # Type[run[e].item]
               PROVE  Type[run'[d].item] # Type[run[e].item]
    OBVIOUS
  <2>1. d \notin Selected
    BY DEF Latest, Dates
  <2>2. run' # run
    BY <2>1 DEF Selected
  <2>3. PICK c \in Callers : Commit(c)
    BY <2>2 DEF Next, CallStep, Existing, Select, Conflict, Reread, Throw,
                Abandon, Approve, Archive, NextDay
  <2>4. date[c] = d /\ run'[d].item = choice[c]
    BY <2>1, <2>3 DEF Commit, RotationInv, TypeOK, Selected, NewRun
  <2>5. choice[c] # None /\ seen[c] = runs /\ at[c] = "commit"
    BY <2>3, <2>4 DEF Commit, Serializable
  <2>6. MayFollow(choice[c])
    BY <2>5 DEF RotationInv, ChoicesStand
  <2>7. QED
    BY <2>4, <2>6 DEF MayFollow
<1>2. QED
  BY <1>1, RotationInvariant, PTL DEF Spec, TypesAlternate
=============================================================================
