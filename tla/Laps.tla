-------------------------------- MODULE Laps --------------------------------
(***************************************************************************)
(* Rings of S cells, as the drivers use them: the cells from one index up  *)
(* to another are a sequence.  The lemmas say what a message more, or k    *)
(* messages less, do to it; RingBufRefinement and CanRxRingProofs rest     *)
(* on them.                                                                *)
(***************************************************************************)
EXTENDS Integers, Sequences, SequenceTheorems, TLAPS

Sizes    == Nat \ {0, 1}
Cells(S) == 0 .. S - 1

\* How many cells there are from f up to t.
Apart(S, f, t) == (S + t - f) % S

\* The n cells from f on, as a sequence.
Lap(S, c, f, n) == [i \in 1 .. n |-> c[(f + i - 1) % S]]

LEMMA Remains ==
  ASSUME NEW S \in Sizes
  PROVE  \A x \in 0 .. 2 * S - 1 :
           x % S = (IF x < S THEN x ELSE x - S) /\ x % S \in Cells(S)
BY SMT DEF Sizes, Cells

LEMMA ApartIs ==
  ASSUME NEW S \in Sizes, NEW f \in Cells(S), NEW t \in Cells(S)
  PROVE  /\ Apart(S, f, t) = IF t >= f THEN t - f ELSE S + t - f
         /\ Apart(S, f, t) \in Cells(S)
<1> S \in Nat /\ S > 1 /\ f \in 0 .. S - 1 /\ t \in 0 .. S - 1
  BY DEF Sizes, Cells
<1> DEFINE x == S + t - f
<1>1. x \in 0 .. 2 * S - 1 /\ (x < S <=> t < f) /\ x - S = t - f
  OBVIOUS
<1> HIDE DEF x
<1>2. x % S = (IF x < S THEN x ELSE x - S) /\ x % S \in Cells(S)
  BY <1>1, Remains
<1>3. Apart(S, f, t) = (IF x < S THEN x ELSE x - S) /\ Apart(S, f, t) \in Cells(S)
  BY <1>2 DEF Apart, x
<1>4. QED
  BY <1>1, <1>3 DEF x

LEMMA CellAfter ==
  ASSUME NEW S \in Sizes, NEW f \in Cells(S), NEW k \in 0 .. S - 1
  PROVE  /\ (f + k) % S = IF f + k < S THEN f + k ELSE f + k - S
         /\ (f + k) % S \in Cells(S)
<1>1. f + k \in 0 .. 2 * S - 1
  BY DEF Sizes, Cells
<1>2. PICK x \in 0 .. 2 * S - 1 : x = f + k
  BY <1>1
<1>3. x % S = (IF x < S THEN x ELSE x - S) /\ x % S \in Cells(S)
  BY Remains
<1>4. x % S = (f + k) % S
  BY <1>2
<1>5. (IF x < S THEN x ELSE x - S) = IF f + k < S THEN f + k ELSE f + k - S
  BY <1>2 DEF Sizes, Cells
<1>6. QED
  BY <1>3, <1>4, <1>5, Zenon

LEMMA CellNext ==
  ASSUME NEW S \in Sizes, NEW f \in Cells(S)
  PROVE  (f + 1) % S = (IF f + 1 = S THEN 0 ELSE f + 1) /\ (f + 1) % S \in Cells(S)
<1>1. 1 \in 0 .. S - 1 /\ f \in 0 .. S - 1 /\ S \in Nat
  BY DEF Sizes, Cells
<1>2. QED
  BY <1>1, CellAfter

LEMMA LapIs ==
  ASSUME NEW S \in Sizes, NEW c \in [Cells(S) -> Nat], NEW f \in Cells(S), NEW n \in 0 .. S
  PROVE  /\ Lap(S, c, f, n) \in Seq(Nat) /\ Len(Lap(S, c, f, n)) = n
         /\ \A i \in 1 .. n :
              /\ Lap(S, c, f, n)[i] = c[IF f + i - 1 < S THEN f + i - 1 ELSE f + i - 1 - S]
              /\ (IF f + i - 1 < S THEN f + i - 1 ELSE f + i - 1 - S) \in Cells(S)
<1> S \in Nat /\ f \in Nat /\ f < S
  BY DEF Sizes, Cells
<1>1. ASSUME NEW i \in 1 .. n
      PROVE  /\ Lap(S, c, f, n)[i] = c[IF f + i - 1 < S THEN f + i - 1 ELSE f + i - 1 - S]
             /\ (IF f + i - 1 < S THEN f + i - 1 ELSE f + i - 1 - S) \in Cells(S)
             /\ Lap(S, c, f, n)[i] \in Nat
  <2>1. PICK k \in 0 .. S - 1 : k = i - 1
    OBVIOUS
  <2>2. (f + k) % S = (IF f + k < S THEN f + k ELSE f + k - S)
        /\ (f + k) % S \in Cells(S)
    BY CellAfter
  <2>3. f + k = f + i - 1
    BY <2>1
  <2>4. Lap(S, c, f, n)[i] = c[(f + k) % S]
    BY <2>3 DEF Lap
  <2>5. QED
    BY <2>2, <2>3, <2>4
<1>2. Lap(S, c, f, n) \in [1 .. n -> Nat]
  BY <1>1 DEF Lap
<1>3. Lap(S, c, f, n) \in Seq(Nat) /\ Len(Lap(S, c, f, n)) = n
  BY <1>2
<1>4. QED
  BY <1>1, <1>3

\* The element e is written to the cell tl, which is the one n cells after f.
Writes(S, c, d, tl, e) ==
  /\ c \in [Cells(S) -> Nat] /\ d \in [Cells(S) -> Nat] /\ tl \in Cells(S) /\ e \in Nat
  /\ d[tl] = e /\ \A x \in Cells(S) : x # tl => d[x] = c[x]

Ends(S, f, n, tl) ==
  /\ f \in Cells(S) /\ n \in 0 .. S - 1
  /\ tl = IF f + n < S THEN f + n ELSE f + n - S

\* A cell more at the end, and k cells less at the beginning.
LEMMA LapAppend ==
  ASSUME NEW S \in Sizes, NEW c, NEW d, NEW tl, NEW e, Writes(S, c, d, tl, e),
         NEW f, NEW n, Ends(S, f, n, tl)
  PROVE  Lap(S, d, f, n + 1) = Append(Lap(S, c, f, n), e)
<1>1. /\ c \in [Cells(S) -> Nat] /\ d \in [Cells(S) -> Nat] /\ tl \in Cells(S) /\ e \in Nat
      /\ d[tl] = e /\ \A x \in Cells(S) : x # tl => d[x] = c[x]
  BY DEF Writes
<1> f \in Cells(S) /\ n \in 0 .. S - 1 /\ tl = IF f + n < S THEN f + n ELSE f + n - S
  BY DEF Ends
<1> DEFINE s == Lap(S, c, f, n)
<1> S \in Nat /\ f \in Nat /\ f < S /\ n \in 0 .. S /\ n + 1 \in 0 .. S
  BY DEF Sizes, Cells
<1>2. /\ s \in Seq(Nat) /\ Len(s) = n
      /\ \A i \in 1 .. n :
           s[i] = c[IF f + i - 1 < S THEN f + i - 1 ELSE f + i - 1 - S]
  BY <1>1, LapIs
<1> HIDE DEF s
<1>3. Lap(S, d, f, n + 1) \in Seq(Nat) /\ Len(Lap(S, d, f, n + 1)) = n + 1
  BY <1>1, LapIs
<1> DEFINE q == Append(s, e)
<1>4. /\ q \in Seq(Nat) /\ Len(q) = n + 1
      /\ \A i \in 1 .. n : q[i] = s[i]
      /\ q[n + 1] = e
  <2>1. s \in Seq(Nat) /\ Len(s) = n /\ e \in Nat
    BY <1>1, <1>2
  <2>2. q \in Seq(Nat) /\ Len(q) = Len(s) + 1
    BY <2>1, AppendProperties
  <2>3. (\A i \in 1 .. Len(s) : q[i] = s[i]) /\ q[Len(s) + 1] = e
    BY <2>1, AppendProperties
  <2> HIDE DEF q
  <2>4. QED BY <2>1, <2>2, <2>3
<1> HIDE DEF q
<1>5. ASSUME NEW i \in 1 .. n + 1
      PROVE  Lap(S, d, f, n + 1)[i] = q[i]
  <2> DEFINE x == IF f + i - 1 < S THEN f + i - 1 ELSE f + i - 1 - S
  <2>1. Lap(S, d, f, n + 1)[i] = d[x] /\ x \in Cells(S)
    BY <1>1, LapIs
  <2>2. (i = n + 1 => x = tl) /\ (i \in 1 .. n => x # tl /\ s[i] = c[x])
    BY <1>2
  <2> HIDE DEF x
  <2>3. CASE i = n + 1
    BY <1>1, <1>4, <2>1, <2>2, <2>3
  <2>4. CASE i \in 1 .. n
    BY <1>1, <1>4, <2>1, <2>2, <2>4
  <2>5. QED BY <2>3, <2>4
<1>6. Lap(S, d, f, n + 1) = q
  BY <1>3, <1>4, <1>5, SeqEqual
<1>7. QED
  BY <1>6 DEF s, q

LEMMA LapDrop ==
  ASSUME NEW S \in Sizes, NEW c \in [Cells(S) -> Nat], NEW f \in Cells(S), NEW n \in 0 .. S - 1,
         NEW k \in Nat, k <= n
  PROVE  Lap(S, c, (f + k) % S, n - k) = SubSeq(Lap(S, c, f, n), k + 1, n)
<1> DEFINE g == (f + k) % S
<1> DEFINE s == Lap(S, c, f, n)
<1> DEFINE r == SubSeq(s, k + 1, n)
<1> S \in Nat /\ f \in Nat /\ f < S /\ n \in 0 .. S /\ n - k \in 0 .. S
  BY DEF Sizes, Cells
<1>1. g = (IF f + k < S THEN f + k ELSE f + k - S) /\ g \in Cells(S)
  <2>1. k \in 0 .. S - 1
    OBVIOUS
  <2>2. QED BY <2>1, CellAfter
<1> HIDE DEF g
<1>2. /\ s \in Seq(Nat) /\ Len(s) = n
      /\ \A i \in 1 .. n :
           s[i] = c[IF f + i - 1 < S THEN f + i - 1 ELSE f + i - 1 - S]
  BY LapIs
<1>3. /\ Lap(S, c, g, n - k) \in Seq(Nat) /\ Len(Lap(S, c, g, n - k)) = n - k
      /\ \A i \in 1 .. n - k :
           Lap(S, c, g, n - k)[i] = c[IF g + i - 1 < S THEN g + i - 1 ELSE g + i - 1 - S]
  BY <1>1, LapIs
<1> HIDE DEF s
<1>4. /\ r \in Seq(Nat) /\ Len(r) = n - k
      /\ \A i \in 1 .. n - k : r[i] = s[k + i]
  <2>1. \A i \in k + 1 .. n : s[i] \in Nat
    BY <1>2
  <2>2. /\ r \in Seq(Nat)
        /\ Len(r) = IF k + 1 <= n THEN n - (k + 1) + 1 ELSE 0
        /\ \A i \in 1 .. n - (k + 1) + 1 : r[i] = s[(k + 1) + i - 1]
    BY <2>1, SubSeqProperties
  <2>3. n - (k + 1) + 1 = n - k /\ \A i \in 1 .. n - k : (k + 1) + i - 1 = k + i
    OBVIOUS
  <2> HIDE DEF r
  <2>4. QED
    BY <2>2, <2>3
<1>5. ASSUME NEW i \in 1 .. n - k
      PROVE  Lap(S, c, g, n - k)[i] = r[i]
  <2>1. k + i \in 1 .. n
    OBVIOUS
  <2>2. (IF g + i - 1 < S THEN g + i - 1 ELSE g + i - 1 - S)
          = (IF f + (k + i) - 1 < S THEN f + (k + i) - 1 ELSE f + (k + i) - 1 - S)
    BY <1>1, <2>1, SMTT(30)
  <2>3. QED
    BY <1>2, <1>3, <1>4, <2>1, <2>2, ZenonT(30)
<1> HIDE DEF r
<1>6. Lap(S, c, g, n - k) = r
  BY <1>3, <1>4, <1>5, SeqEqual
<1>7. QED
  BY <1>6 DEF g, s, r

\* A full lap that gives up its first cell for one more.
LEMMA LapTurn ==
  ASSUME NEW S \in Sizes, NEW c, NEW d, NEW tl, NEW e, Writes(S, c, d, tl, e),
         NEW f \in Cells(S), Apart(S, f, tl) = S - 1, NEW g, g = (f + 1) % S
  PROVE  Lap(S, d, g, S - 1) = Append(Tail(Lap(S, c, f, S - 1)), e)
<1>0. c \in [Cells(S) -> Nat] /\ tl \in Cells(S)
  BY DEF Writes
<1>1. S \in Nat /\ S >= 2 /\ f \in 0 .. S - 1 /\ tl \in 0 .. S - 1
  BY <1>0 DEF Sizes, Cells
<1> DEFINE n == S - 2
<1>2. n \in 0 .. S - 1 /\ n = S - 2
  BY <1>1
<1> HIDE DEF n
<1>3. n + 1 = S - 1 /\ n = (S - 1) - 1 /\ S - 1 \in 0 .. S - 1
      /\ 1 \in Nat /\ 1 <= S - 1 /\ 1 + 1 = 2 /\ S - 1 \in 0 .. S /\ S - 1 # 0
  BY <1>1, <1>2
<1>4. Ends(S, g, n, tl)
  <2>1. S - 1 = IF tl >= f THEN tl - f ELSE S + tl - f
    BY <1>0, ApartIs
  <2>2. g \in Cells(S) /\ g = IF f + 1 = S THEN 0 ELSE f + 1
    BY CellNext
  <2>3. tl = IF g + n < S THEN g + n ELSE g + n - S
    BY <1>1, <1>2, <2>1, <2>2
  <2>4. QED
    BY <1>2, <2>2, <2>3 DEF Ends
<1>5. Lap(S, d, g, n + 1) = Append(Lap(S, c, g, n), e)
  BY <1>4, LapAppend
<1>6. Lap(S, c, (f + 1) % S, (S - 1) - 1) = SubSeq(Lap(S, c, f, S - 1), 1 + 1, S - 1)
  BY <1>0, <1>3, LapDrop
<1>7. Tail(Lap(S, c, f, S - 1)) = SubSeq(Lap(S, c, f, S - 1), 2, S - 1)
  <2>1. Lap(S, c, f, S - 1) \in Seq(Nat) /\ Len(Lap(S, c, f, S - 1)) = S - 1
    BY <1>0, <1>3, LapIs
  <2>2. Lap(S, c, f, S - 1) # <<>>
    BY <1>3, <2>1
  <2>3. QED
    BY <2>1, <2>2, TailIsSubSeq
<1>8. QED
  BY <1>3, <1>5, <1>6, <1>7

\* What the queue promises, for a ring whose contents are a lap: a message comes
\* behind the others and pushes out the first when there is no room, or k go.
LEMMA LapArrives ==
  ASSUME NEW S \in Sizes, NEW c, NEW d, NEW tl, NEW e, Writes(S, c, d, tl, e),
         NEW f \in Cells(S), NEW g,
         g = IF Apart(S, f, tl) = S - 1 THEN (f + 1) % S ELSE f
  PROVE  LET q == Lap(S, c, f, Apart(S, f, tl))
         IN  Lap(S, d, g, Apart(S, g, (tl + 1) % S))
               = Append(IF Len(q) = S - 1 THEN Tail(q) ELSE q, e)
<1> DEFINE n == Apart(S, f, tl)
<1> DEFINE q == Lap(S, c, f, n)
<1> DEFINE next == (tl + 1) % S
<1>1. S \in Nat /\ S >= 2 /\ f \in 0 .. S - 1
  BY DEF Sizes, Cells
<1>2. c \in [Cells(S) -> Nat] /\ tl \in Cells(S) /\ tl \in 0 .. S - 1
  BY DEF Writes, Cells
<1>3. n = (IF tl >= f THEN tl - f ELSE S + tl - f) /\ n \in 0 .. S - 1 /\ n \in 0 .. S
  <2>1. n = (IF tl >= f THEN tl - f ELSE S + tl - f) /\ n \in Cells(S)
    BY <1>2, ApartIs
  <2> HIDE DEF n
  <2>2. QED
    BY <1>1, <2>1 DEF Cells
<1>4. next = (IF tl + 1 = S THEN 0 ELSE tl + 1) /\ next \in Cells(S)
  BY <1>2, CellNext
<1> HIDE DEF next, n
<1>5. Len(q) = n
  BY <1>2, <1>3, LapIs
<1>6. CASE n # S - 1
  <2>1. g = f
    BY <1>6 DEF n
  <2>2. Apart(S, f, next) = IF next >= f THEN next - f ELSE S + next - f
    BY <1>4, ApartIs
  <2>3. Apart(S, f, next) = n + 1
    BY <1>1, <1>2, <1>3, <1>4, <1>6, <2>2
  <2>4. Ends(S, f, n, tl)
    BY <1>1, <1>2, <1>3 DEF Ends
  <2>5. Lap(S, d, f, n + 1) = Append(q, e)
    BY <2>4, LapAppend
  <2>6. QED
    BY <1>5, <1>6, <2>1, <2>3, <2>5 DEF n, next
<1>7. CASE n = S - 1
  <2>1. g = (f + 1) % S
    BY <1>7 DEF n
  <2>2. g = (IF f + 1 = S THEN 0 ELSE f + 1) /\ g \in Cells(S)
    BY <2>1, CellNext
  <2>3. Apart(S, g, next) = IF next >= g THEN next - g ELSE S + next - g
    BY <1>4, <2>2, ApartIs
  <2>4. Apart(S, g, next) = S - 1
    BY <1>1, <1>2, <1>3, <1>4, <1>7, <2>2, <2>3
  <2>5. Apart(S, f, tl) = S - 1
    BY <1>7 DEF n
  <2>6. Lap(S, d, g, S - 1) = Append(Tail(Lap(S, c, f, S - 1)), e)
    BY <2>1, <2>5, LapTurn
  <2>7. QED
    BY <1>5, <1>7, <2>4, <2>6 DEF n, next
<1>8. QED
  BY <1>6, <1>7

\* The lap from g is what is left of the one from f when its first go.
LEMMA LapKeeps ==
  ASSUME NEW S \in Sizes, NEW c \in [Cells(S) -> Nat], NEW f \in Cells(S), NEW t \in Cells(S),
         NEW g \in Cells(S), Apart(S, g, t) <= Apart(S, f, t)
  PROVE  LET q == Lap(S, c, f, Apart(S, f, t))
         IN  \E k \in 0 .. Len(q) :
               /\ k = Apart(S, f, t) - Apart(S, g, t)
               /\ Lap(S, c, g, Apart(S, g, t)) = SubSeq(q, k + 1, Len(q))
<1> DEFINE n == Apart(S, f, t)
<1> DEFINE l == Apart(S, g, t)
<1> DEFINE k == n - l
<1> DEFINE h == (f + k) % S
<1>1. S \in Nat /\ S >= 2 /\ f \in 0 .. S - 1 /\ g \in 0 .. S - 1 /\ t \in 0 .. S - 1
  BY DEF Sizes, Cells
<1>2. /\ n = (IF t >= f THEN t - f ELSE S + t - f) /\ n \in 0 .. S - 1
      /\ l = (IF t >= g THEN t - g ELSE S + t - g) /\ l \in 0 .. S - 1
  BY <1>1, ApartIs DEF Cells
<1> HIDE DEF n, l
<1>3. l <= n
  BY DEF n, l
<1>4. k \in 0 .. n /\ k \in Nat /\ k <= n /\ k \in 0 .. S - 1 /\ n - k = l
  BY <1>1, <1>2, <1>3
<1>5. h = IF f + k < S THEN f + k ELSE f + k - S
  BY <1>4, CellAfter
<1>6. h = g
  BY <1>1, <1>2, <1>3, <1>5
<1>7. Lap(S, c, h, n - k) = SubSeq(Lap(S, c, f, n), k + 1, n)
  <2>1. n \in 0 .. S - 1 /\ k \in Nat /\ k <= n
    BY <1>2, <1>4
  <2> HIDE DEF k
  <2>2. QED
    BY <2>1, LapDrop
<1>8. Len(Lap(S, c, f, n)) = n
  <2>1. n \in 0 .. S
    BY <1>1, <1>2
  <2>2. QED
    BY <2>1, LapIs
<1>9. QED
  BY <1>4, <1>6, <1>7, <1>8 DEF n, l
=============================================================================
