-------------------------- MODULE FrameLinkProofs --------------------------
(***************************************************************************)
(* Proofs about FrameLink, for every capacity, message size, time-out,     *)
(* frame and noise, any number of frames, polls and losses, in the         *)
(* application and in the bootloader.                                      *)
(***************************************************************************)
EXTENDS FrameLink, SequenceTheorems, WellFoundedInduction, TLAPS

----------------------------------------------------------------------------
(* Induction, for sets of numbers *)

LEMMA LeastOf ==
  ASSUME NEW T, T \subseteq Nat, T # {}
  PROVE  \E x \in T : \A y \in T : x <= y
<1> DEFINE R == {ss \in Nat \X Nat : ss[1] < ss[2]}
<1>1. IsWellFoundedOn(R, Nat)
  BY NatLessThanWellFounded DEF OpToRel
<1>2. PICK x \in T : \A y \in T : ~(<<y, x>> \in R)
  <2> HIDE DEF R
  <2> QED BY <1>1, WFMin
<1>3. ASSUME NEW y \in T PROVE x <= y
  <2>1. x \in Nat /\ y \in Nat
    OBVIOUS
  <2>2. <<y, x>> \in Nat \X Nat => ~(y < x)
    BY <1>2
  <2>3. QED BY <2>1, <2>2
<1>4. QED BY <1>3

LEMMA Induction ==
  ASSUME NEW T, 0 \in T, \A n \in Nat : n \in T => n + 1 \in T
  PROVE  Nat \subseteq T
<1> SUFFICES ASSUME Nat \ T # {} PROVE FALSE
  OBVIOUS
<1>1. PICK x \in Nat \ T : \A y \in Nat \ T : x <= y
  BY LeastOf
<1>2. x # 0 /\ x - 1 \in Nat /\ x - 1 \in T
  BY <1>1
<1>3. (x - 1) + 1 \in T
  BY <1>2
<1>4. QED BY <1>3

----------------------------------------------------------------------------
(* The recursive functions of FrameLink *)

\* A sum of bytes modulo BYTE is a byte.
LEMMA SumIsByte ==
  ASSUME NEW b \in Bytes
  PROVE  Sum(b) \in 0 .. BYTE - 1
<1> DEFINE N == Len(b)
           F(g, n) == IF n = 0 THEN 0 ELSE (g[n - 1] + b[n]) % BYTE
           sum == CHOOSE g : g = [n \in 0 .. N |-> F(g, n)]
           T == {n \in Nat : n <= N => \E g : g = [m \in 0 .. n |-> F(g, m)]}
           U == {n \in Nat : n <= N => sum[n] \in 0 .. BYTE - 1}
<1>1. N \in Nat /\ BYTE \in Nat /\ BYTE > 0 /\ \A n \in 1 .. N : b[n] \in 0 .. BYTE - 1
  BY LinkAssumption, ElementOfSeq DEF Bytes
<1>2. 0 \in T
  <2>1. [m \in 0 .. 0 |-> 0] = [m \in 0 .. 0 |-> F([k \in 0 .. 0 |-> 0], m)]
    OBVIOUS
  <2>2. QED BY <2>1
<1>3. ASSUME NEW n \in Nat, n \in T PROVE n + 1 \in T
  <2> SUFFICES ASSUME n + 1 <= N
               PROVE  \E g : g = [m \in 0 .. n + 1 |-> F(g, m)]
    OBVIOUS
  <2>1. PICK g : g = [m \in 0 .. n |-> F(g, m)]
    BY <1>1, <1>3
  <2> DEFINE h == [m \in 0 .. n + 1 |-> IF m <= n THEN g[m] ELSE F(g, m)]
  <2>2. ASSUME NEW m \in 0 .. n + 1 PROVE h[m] = F(h, m)
    <3>1. m # 0 => h[m - 1] = g[m - 1]
      OBVIOUS
    <3>2. F(h, m) = F(g, m)
      BY <3>1
    <3>3. m <= n => g[m] = F(g, m)
      BY <2>1
    <3>4. QED BY <3>2, <3>3
  <2>3. h = [m \in 0 .. n + 1 |-> F(h, m)]
    BY <2>2
  <2>4. QED BY <2>3
<1>4. sum = [n \in 0 .. N |-> F(sum, n)]
  <2>1. Nat \subseteq T
    <3> HIDE DEF T
    <3> QED BY <1>2, <1>3, Induction
  <2>2. \E g : g = [n \in 0 .. N |-> F(g, n)]
    BY <1>1, <2>1
  <2>3. QED BY <2>2
<1>5. Sum(b) = sum[N]
  BY DEF Sum
<1> HIDE DEF sum
<1>6. 0 \in U
  BY <1>1, <1>4
<1>7. ASSUME NEW n \in Nat, n \in U PROVE n + 1 \in U
  <2> SUFFICES ASSUME n + 1 <= N PROVE sum[n + 1] \in 0 .. BYTE - 1
    OBVIOUS
  <2>1. sum[n] \in Nat /\ b[n + 1] \in Nat
    BY <1>1, <1>7
  <2>2. sum[n + 1] = (sum[n] + b[n + 1]) % BYTE
    BY <1>1, <1>4
  <2>3. QED BY <1>1, <2>1, <2>2
<1>8. Nat \subseteq U
  <2> HIDE DEF U
  <2> QED BY <1>6, <1>7, Induction
<1>9. QED BY <1>1, <1>5, <1>8

----------------------------------------------------------------------------
(* FlattenSeq of the community modules, unfolded at either end *)

\* f[i] is the first i sequences of q, put together.
Flattens(f, q) == f = [i \in 1 .. Len(q) |-> IF i = 1 THEN q[i] ELSE f[i - 1] \o q[i]]

LEMMA FlattenExists ==
  ASSUME NEW S, NEW q \in Seq(Seq(S)), q # <<>>
  PROVE  \E f : Flattens(f, q) /\ FlattenSeq(q) = f[Len(q)]
<1> DEFINE N == Len(q)
           F(g, i) == IF i = 1 THEN q[i] ELSE g[i - 1] \o q[i]
           flatten == CHOOSE g : g = [i \in 1 .. N |-> F(g, i)]
           T == {n \in Nat : n <= N => \E g : g = [i \in 1 .. n |-> F(g, i)]}
<1>1. N \in Nat \ {0}
  BY EmptySeq
<1>2. ASSUME NEW g, NEW h, NEW i, i # 1 => g[i - 1] = h[i - 1]
      PROVE  F(g, i) = F(h, i)
  BY <1>2
<1>3. FlattenSeq(q) = flatten[N]
  BY <1>1 DEF FlattenSeq
<1>4. ASSUME NEW f, f = [i \in 1 .. N |-> F(f, i)] PROVE Flattens(f, q)
  BY <1>4 DEF Flattens
<1> HIDE DEF F
<1>5. 0 \in T
  <2>1. [i \in 1 .. 0 |-> 0] = [i \in 1 .. 0 |-> F([k \in 1 .. 0 |-> 0], i)]
    OBVIOUS
  <2>2. QED BY <2>1
<1>6. ASSUME NEW n \in Nat, n \in T PROVE n + 1 \in T
  <2> SUFFICES ASSUME n + 1 <= N
               PROVE  \E g : g = [i \in 1 .. n + 1 |-> F(g, i)]
    OBVIOUS
  <2>1. PICK g : g = [i \in 1 .. n |-> F(g, i)]
    BY <1>1, <1>6
  <2> DEFINE h == [i \in 1 .. n + 1 |-> IF i <= n THEN g[i] ELSE F(g, i)]
  <2>2. ASSUME NEW i \in 1 .. n + 1 PROVE h[i] = F(h, i)
    <3>1. i # 1 => g[i - 1] = h[i - 1]
      OBVIOUS
    <3>2. F(g, i) = F(h, i)
      <4> HIDE DEF h
      <4> QED BY <1>2, <3>1
    <3>3. ASSUME i <= n PROVE g[i] = F(g, i)
      <4>1. i \in 1 .. n
        BY <3>3
      <4>2. QED BY <2>1, <4>1, Zenon
    <3>4. QED BY <3>2, <3>3
  <2>3. h = [i \in 1 .. n + 1 |-> F(h, i)]
    BY <2>2
  <2>4. QED BY <2>3
<1>7. flatten = [i \in 1 .. N |-> F(flatten, i)]
  <2>1. Nat \subseteq T
    <3> HIDE DEF T
    <3> QED BY <1>5, <1>6, Induction
  <2>2. N \in T /\ N <= N
    <3> HIDE DEF T
    <3> QED BY <1>1, <2>1
  <2>3. \E g : g = [i \in 1 .. N |-> F(g, i)]
    BY <2>2, Zenon
  <2>4. QED BY <2>3
<1> HIDE DEF flatten
<1>8. QED BY <1>3, <1>4, <1>7

\* And it can be unfolded from its first element on.
Unfolds(f, q, S) ==
  /\ 1 \in 1 .. Len(q) /\ f[1] = q[1]
  /\ \A i \in 1 .. Len(q) : f[i] \in Seq(S)
  /\ \A i \in 2 .. Len(q) : f[i] = f[i - 1] \o q[i]

LEMMA FlattenStep ==
  ASSUME NEW S, NEW q \in Seq(Seq(S)), NEW f, Flattens(f, q), q # <<>>
  PROVE  Unfolds(f, q, S)
<1> DEFINE T == {n \in Nat : n + 1 <= Len(q) => f[n + 1] \in Seq(S)}
<1>1. Len(q) \in Nat \ {0} /\ \A i \in 1 .. Len(q) : q[i] \in Seq(S)
  BY EmptySeq, ElementOfSeq
<1>2. f[1] = q[1] /\ \A i \in 2 .. Len(q) : f[i] = f[i - 1] \o q[i]
  <2>1. 1 \in 1 .. Len(q) /\ \A i \in 2 .. Len(q) : i \in 1 .. Len(q) /\ i # 1
    BY <1>1
  <2>2. \A i \in 1 .. Len(q) : f[i] = IF i = 1 THEN q[i] ELSE f[i - 1] \o q[i]
    BY Zenon DEF Flattens
  <2>3. QED BY <2>1, <2>2, Zenon
<1>3. 0 \in T
  BY <1>1, <1>2
<1>4. ASSUME NEW n \in Nat, n \in T PROVE n + 1 \in T
  <2> SUFFICES ASSUME (n + 1) + 1 <= Len(q) PROVE f[(n + 1) + 1] \in Seq(S)
    OBVIOUS
  <2>1. f[n + 1] \in Seq(S) /\ q[(n + 1) + 1] \in Seq(S)
    BY <1>1, <1>4
  <2>2. f[(n + 1) + 1] = f[n + 1] \o q[(n + 1) + 1]
    <3>1. (n + 1) + 1 \in 2 .. Len(q) /\ ((n + 1) + 1) - 1 = n + 1
      BY <1>1
    <3>2. QED BY <1>2, <3>1, Zenon
  <2>3. QED BY <2>1, <2>2, ConcatProperties
<1>5. Nat \subseteq T
  <2> HIDE DEF T
  <2> QED BY <1>3, <1>4, Induction
<1>6. ASSUME NEW i \in 1 .. Len(q) PROVE f[i] \in Seq(S)
  <2>1. i - 1 \in T /\ (i - 1) + 1 = i /\ i <= Len(q)
    <3> HIDE DEF T
    <3> QED BY <1>1, <1>5
  <2>2. QED BY <2>1, Zenon
<1>7. 1 \in 1 .. Len(q)
  BY <1>1
<1>8. QED BY <1>2, <1>6, <1>7, Zenon DEF Unfolds

LEMMA FlattenType ==
  ASSUME NEW S, NEW q \in Seq(Seq(S))
  PROVE  FlattenSeq(q) \in Seq(S) /\ FlattenSeq(<<>>) = <<>>
<1>1. FlattenSeq(<<>>) = <<>>
  BY DEF FlattenSeq
<1>2. CASE q = <<>>
  BY <1>1, <1>2, EmptySeq
<1>3. CASE q # <<>>
  <2>1. PICK f : Flattens(f, q) /\ FlattenSeq(q) = f[Len(q)]
    BY <1>3, FlattenExists
  <2>2. Len(q) \in 1 .. Len(q)
    BY <1>3, EmptySeq
  <2>3. f[Len(q)] \in Seq(S)
    BY <1>3, <2>1, <2>2, FlattenStep, Zenon DEF Unfolds
  <2>4. QED BY <1>1, <2>1, <2>3
<1>4. QED BY <1>2, <1>3

\* The last sequence comes last.
LEMMA FlattenAppend ==
  ASSUME NEW S, NEW q \in Seq(Seq(S)), NEW e \in Seq(S)
  PROVE  FlattenSeq(Append(q, e)) = FlattenSeq(q) \o e
<1> DEFINE r == Append(q, e)
           N == Len(q)
<1>1. /\ r \in Seq(Seq(S)) /\ r # <<>> /\ Len(r) = N + 1 /\ N \in Nat
      /\ r[N + 1] = e /\ \A i \in 1 .. N : r[i] = q[i]
  BY AppendProperties
<1>2. PICK g : Flattens(g, r) /\ FlattenSeq(r) = g[Len(r)]
  <2> HIDE DEF r
  <2> QED BY <1>1, FlattenExists
<1> HIDE DEF r
<1>3. g[1] = r[1] /\ \A i \in 2 .. N + 1 : g[i] = g[i - 1] \o r[i]
  <2>1. Flattens(g, r)
    BY <1>2
  <2>2. /\ 1 \in 1 .. Len(r) /\ g[1] = r[1]
        /\ \A i \in 1 .. Len(r) : g[i] \in Seq(S)
        /\ \A i \in 2 .. Len(r) : g[i] = g[i - 1] \o r[i]
    <3>1. Unfolds(g, r, S)
      BY <1>1, <2>1, FlattenStep, Zenon
    <3>2. QED BY <3>1 DEF Unfolds
  <2>3. QED BY <1>1, <2>2, Zenon
<1>4. CASE q = <<>>
  <2>1. N = 0 /\ N + 1 = 1
    BY <1>4
  <2>2. FlattenSeq(r) = e
    BY <1>1, <1>2, <1>3, <2>1, Zenon
  <2>3. <<>> \o e = e
    BY ConcatEmptySeq
  <2>4. QED BY <1>4, <2>2, <2>3, FlattenType DEF r
<1>5. CASE q # <<>>
  <2>1. PICK f : Flattens(f, q) /\ FlattenSeq(q) = f[N]
    BY <1>5, FlattenExists
  <2>2. 1 \in 1 .. N /\ f[1] = q[1] /\ \A i \in 2 .. N : f[i] = f[i - 1] \o q[i]
    <3>1. Flattens(f, q)
      BY <2>1
    <3>2. /\ 1 \in 1 .. Len(q) /\ f[1] = q[1]
          /\ \A i \in 1 .. Len(q) : f[i] \in Seq(S)
          /\ \A i \in 2 .. Len(q) : f[i] = f[i - 1] \o q[i]
      <4>1. Unfolds(f, q, S)
        BY <1>5, <3>1, FlattenStep, Zenon
      <4>2. QED BY <4>1 DEF Unfolds
    <3>3. QED BY <3>2, Zenon
  <2> DEFINE T == {n \in Nat : n + 1 <= N => g[n + 1] = f[n + 1]}
  <2>3. 0 \in T
    BY <1>1, <1>3, <2>2
  <2>4. ASSUME NEW n \in Nat, n \in T PROVE n + 1 \in T
    <3> SUFFICES ASSUME (n + 1) + 1 <= N PROVE g[(n + 1) + 1] = f[(n + 1) + 1]
      OBVIOUS
    <3>1. g[n + 1] = f[n + 1]
      BY <1>1, <2>4
    <3>2. /\ (n + 1) + 1 \in 1 .. N /\ (n + 1) + 1 \in 2 .. N
          /\ (n + 1) + 1 \in 2 .. N + 1 /\ ((n + 1) + 1) - 1 = n + 1
      BY <1>1
    <3>3. /\ g[(n + 1) + 1] = g[n + 1] \o r[(n + 1) + 1]
          /\ f[(n + 1) + 1] = f[n + 1] \o q[(n + 1) + 1]
          /\ r[(n + 1) + 1] = q[(n + 1) + 1]
      BY <1>1, <1>3, <2>2, <3>2, Zenon
    <3>4. QED BY <3>1, <3>3, Zenon
  <2>5. Nat \subseteq T
    <3> HIDE DEF T
    <3> QED BY <2>3, <2>4, Induction
  <2>6. g[N] = f[N]
    <3>1. N - 1 \in T /\ (N - 1) + 1 = N /\ N <= N
      <4> HIDE DEF T
      <4> QED BY <1>1, <2>2, <2>5
    <3>2. QED BY <3>1, Zenon
  <2>7. g[N + 1] = g[N] \o e
    <3>1. N + 1 \in 2 .. N + 1 /\ (N + 1) - 1 = N
      BY <1>1, <2>2
    <3>2. QED BY <1>1, <1>3, <3>1, Zenon
  <2>8. QED BY <1>1, <1>2, <2>1, <2>6, <2>7, Zenon DEF r
<1>6. QED BY <1>4, <1>5

\* The first sequence comes first.
LEMMA FlattenHead ==
  ASSUME NEW S, NEW q \in Seq(Seq(S)), q # <<>>
  PROVE  FlattenSeq(q) = Head(q) \o FlattenSeq(Tail(q))
<1> DEFINE t == Tail(q)
           N == Len(q)
<1>1. /\ t \in Seq(Seq(S)) /\ Len(t) = N - 1 /\ N \in Nat \ {0}
      /\ Head(q) = q[1] /\ Head(q) \in Seq(S)
      /\ \A i \in 1 .. N - 1 : t[i] = q[i + 1] /\ t[i] \in Seq(S)
  <2>1. N \in Nat \ {0} /\ Head(q) = q[1]
    BY EmptySeq
  <2>2. t \in Seq(Seq(S)) /\ Len(t) = N - 1 /\ Head(q) \in Seq(S)
    BY HeadTailProperties
  <2>3. \A i \in 1 .. N - 1 : t[i] = q[i + 1]
    BY <2>2, HeadTailProperties, Zenon
  <2>4. \A i \in 1 .. N - 1 : t[i] \in Seq(S)
    BY <2>2, ElementOfSeq, Zenon
  <2>5. QED BY <2>1, <2>2, <2>3, <2>4
<1>2. PICK f : Flattens(f, q) /\ FlattenSeq(q) = f[N]
  BY FlattenExists
<1>3. f[1] = q[1] /\ \A i \in 2 .. N : f[i] = f[i - 1] \o q[i]
  <2>1. Flattens(f, q)
    BY <1>2
  <2>2. /\ 1 \in 1 .. Len(q) /\ f[1] = q[1]
        /\ \A i \in 1 .. Len(q) : f[i] \in Seq(S)
        /\ \A i \in 2 .. Len(q) : f[i] = f[i - 1] \o q[i]
    <3>1. Unfolds(f, q, S)
      BY <2>1, FlattenStep, Zenon
    <3>2. QED BY <3>1 DEF Unfolds
  <2>3. QED BY <2>2, Zenon
<1> HIDE DEF t
<1>4. CASE t = <<>>
  <2>1. N = 1
    BY <1>1, <1>4, EmptySeq
  <2>2. FlattenSeq(q) = Head(q)
    BY <1>1, <1>2, <1>3, <2>1, Zenon
  <2>3. Head(q) \o <<>> = Head(q)
    BY <1>1, ConcatEmptySeq
  <2>4. QED BY <1>4, <2>2, <2>3, FlattenType DEF t
<1>5. CASE t # <<>>
  <2>1. PICK g : Flattens(g, t) /\ FlattenSeq(t) = g[Len(t)]
    BY <1>1, <1>5, FlattenExists
  <2>2. /\ 1 \in 1 .. N - 1 /\ 2 \in 2 .. N /\ 2 - 1 = 1 /\ 0 + 2 = 2 /\ 0 + 1 = 1
        /\ g[1] = t[1]
        /\ \A i \in 1 .. N - 1 : g[i] \in Seq(S)
        /\ \A i \in 2 .. N - 1 : g[i] = g[i - 1] \o t[i]
    <3>1. Flattens(g, t) /\ t \in Seq(Seq(S)) /\ t # <<>>
      BY <1>1, <1>5, <2>1
    <3>2. /\ 1 \in 1 .. Len(t) /\ g[1] = t[1]
          /\ \A i \in 1 .. Len(t) : g[i] \in Seq(S)
          /\ \A i \in 2 .. Len(t) : g[i] = g[i - 1] \o t[i]
      <4>1. Unfolds(g, t, S)
        BY <3>1, FlattenStep, Zenon
      <4>2. QED BY <4>1 DEF Unfolds
    <3>3. 1 \in 1 .. N - 1
      BY <1>1, <3>2, Zenon
    <3>4. 2 \in 2 .. N /\ 2 - 1 = 1 /\ 0 + 2 = 2 /\ 0 + 1 = 1
      BY <1>1, <3>3
    <3>5. QED BY <1>1, <3>2, <3>3, <3>4, Zenon
  <2> DEFINE T == {n \in Nat : n + 1 <= N - 1 => f[n + 2] = Head(q) \o g[n + 1]}
  <2>3. 0 \in T
    <3>1. f[2] = f[1] \o q[2]
      BY <1>3, <2>2, Zenon
    <3>2. t[1] = q[2]
      BY <1>1, <2>2
    <3>3. f[2] = Head(q) \o g[1]
      BY <1>1, <1>3, <2>2, <3>1, <3>2, Zenon
    <3>4. QED BY <2>2, <3>3
  <2>4. ASSUME NEW n \in Nat, n \in T PROVE n + 1 \in T
    <3>1. ASSUME (n + 1) + 1 <= N - 1
          PROVE  f[(n + 1) + 2] = Head(q) \o g[(n + 1) + 1]
      <4>1. n + 1 <= N - 1
        BY <1>1, <3>1
      <4>2. f[n + 2] = Head(q) \o g[n + 1]
        BY <2>4, <4>1, Zenon
      <4>3. /\ n + 1 \in 1 .. N - 1 /\ n + 2 \in 1 .. N - 1 /\ n + 2 \in 2 .. N - 1
            /\ n + 3 \in 2 .. N /\ (n + 3) - 1 = n + 2 /\ (n + 2) - 1 = n + 1
            /\ (n + 2) + 1 = n + 3
        BY <1>1, <3>1
      <4>4. t[n + 2] = q[n + 3] /\ t[n + 2] \in Seq(S) /\ g[n + 1] \in Seq(S)
        BY <1>1, <2>2, <4>3, Zenon
      <4>5. f[n + 3] = f[n + 2] \o q[n + 3]
        BY <1>3, <4>3, Zenon
      <4>6. g[n + 2] = g[n + 1] \o t[n + 2]
        BY <2>2, <4>3, Zenon
      <4>7. (Head(q) \o g[n + 1]) \o t[n + 2] = Head(q) \o (g[n + 1] \o t[n + 2])
        <5>1. Head(q) \in Seq(S) /\ g[n + 1] \in Seq(S) /\ t[n + 2] \in Seq(S)
          BY <1>1, <4>4
        <5>2. \A u, v, w \in Seq(S) : (u \o v) \o w = u \o (v \o w)
          BY ConcatAssociative, SMTT(30)
        <5>3. QED BY <5>1, <5>2, Zenon
      <4>8. f[n + 3] = Head(q) \o g[n + 2]
        BY <4>2, <4>4, <4>5, <4>6, <4>7, Zenon
      <4>9. (n + 1) + 2 = n + 3 /\ (n + 1) + 1 = n + 2
        OBVIOUS
      <4>10. QED BY <4>8, <4>9, Zenon
    <3>2. n + 1 \in Nat
      OBVIOUS
    <3>3. QED BY <3>1, <3>2, Zenon
  <2>5. Nat \subseteq T
    <3> HIDE DEF T
    <3> QED BY <2>3, <2>4, Induction
  <2>6. f[N] = Head(q) \o g[N - 1]
    <3>1. /\ N - 2 \in T /\ (N - 2) + 1 = N - 1 /\ (N - 2) + 2 = N
          /\ N - 1 <= N - 1
      <4> HIDE DEF T
      <4> QED BY <1>1, <2>2, <2>5
    <3>2. QED BY <3>1, Zenon
  <2>7. QED BY <1>1, <1>2, <2>1, <2>6, Zenon DEF t
<1>6. QED BY <1>4, <1>5

----------------------------------------------------------------------------
(* Frames, one and many *)

LEMMA PayloadBytes ==
  ASSUME NEW p \in Payloads
  PROVE  p \in Bytes /\ Len(p) \in Nat /\ Len(p) + 4 \in MIN .. MAX
BY LinkAssumption DEF Bytes

LEMMA BytesEqual ==
  ASSUME NEW s \in Bytes, NEW t \in Bytes, Len(s) = Len(t),
         \A i \in 1 .. Len(s) : s[i] = t[i]
  PROVE  s = t
<1> DEFINE B == 0 .. BYTE - 1
<1>1. s \in Seq(B) /\ t \in Seq(B)
  BY DEF Bytes
<1> HIDE DEF B
<1>2. QED BY <1>1, SeqEqual

LEMMA BytesConcat ==
  ASSUME NEW s \in Bytes, NEW t \in Bytes
  PROVE  /\ s \o t \in Bytes
         /\ Len(s) \in Nat /\ Len(t) \in Nat /\ Len(s \o t) = Len(s) + Len(t)
         /\ \A i \in 1 .. Len(s) : (s \o t)[i] = s[i]
         /\ \A i \in 1 .. Len(t) : (s \o t)[Len(s) + i] = t[i]
<1> DEFINE B == 0 .. BYTE - 1
<1>1. s \in Seq(B) /\ t \in Seq(B) /\ Bytes = Seq(B)
  BY DEF Bytes
<1> HIDE DEF B
<1>2. QED BY <1>1

LEMMA BytesSub ==
  ASSUME NEW s \in Bytes, NEW m \in 1 .. Len(s) + 1, NEW n \in m - 1 .. Len(s)
  PROVE  /\ SubSeq(s, m, n) \in Bytes
         /\ Len(SubSeq(s, m, n)) = n - m + 1
         /\ \A i \in 1 .. n - m + 1 : SubSeq(s, m, n)[i] = s[m + i - 1]
<1> DEFINE B == 0 .. BYTE - 1
<1>1. s \in Seq(B) /\ Bytes = Seq(B) /\ Len(s) \in Nat
  BY DEF Bytes
<1> HIDE DEF B
<1>2. m \in Int /\ n \in Int /\ \A i \in m .. n : s[i] \in B
  BY <1>1, ElementOfSeq
<1>3. /\ SubSeq(s, m, n) \in Seq(B)
      /\ Len(SubSeq(s, m, n)) = IF m <= n THEN n - m + 1 ELSE 0
      /\ \A i \in 1 .. n - m + 1 : SubSeq(s, m, n)[i] = s[m + i - 1]
  BY <1>2, SubSeqProperties
<1>4. (IF m <= n THEN n - m + 1 ELSE 0) = n - m + 1
  BY <1>1
<1>5. QED BY <1>1, <1>3, <1>4

LEMMA FrameBytes ==
  ASSUME NEW p \in Payloads
  PROVE  /\ Frame(p) \in Bytes
         /\ Len(Frame(p)) = Len(p) + 4
         /\ Frame(p)[1] = HEAD /\ Frame(p)[2] = Len(p) + 4 /\ Frame(p)[Len(p) + 4] = TAIL
         /\ Frame(p)[Len(p) + 3] = Sum(SubSeq(Frame(p), 2, Len(p) + 2))
<1> DEFINE body == <<Len(p) + 4>> \o p
           front == <<HEAD>> \o body
           end == <<Sum(body), TAIL>>
           N == Len(p)
<1>1. N \in Nat /\ p \in Bytes /\ N + 4 \in 0 .. BYTE - 1 /\ HEAD \in 0 .. BYTE - 1 /\ TAIL \in 0 .. BYTE - 1
  BY PayloadBytes, LinkAssumption
<1>2. <<N + 4>> \in Bytes /\ <<HEAD>> \in Bytes
  BY <1>1 DEF Bytes
<1>3. /\ body \in Bytes /\ Len(body) = N + 1 /\ body[1] = N + 4
  BY <1>1, <1>2, ConcatProperties DEF Bytes
<1> HIDE DEF body
<1>4. end \in Bytes /\ Len(end) = 2 /\ end[1] = Sum(body) /\ end[2] = TAIL
  BY <1>1, <1>3, SumIsByte DEF Bytes
<1>5. /\ front \in Bytes /\ Len(front) = N + 2 /\ front[1] = HEAD
      /\ \A i \in 1 .. N + 1 : front[i + 1] = body[i]
  BY <1>1, <1>2, <1>3, ConcatProperties DEF Bytes
<1> HIDE DEF front, end
<1>6. Frame(p) = front \o end
  BY DEF Frame, front, body, end
<1>7. /\ Frame(p) \in Bytes /\ Len(Frame(p)) = N + 4
      /\ \A i \in 1 .. N + 2 : Frame(p)[i] = front[i]
      /\ Frame(p)[N + 3] = end[1] /\ Frame(p)[N + 4] = end[2]
  <2>1. /\ front \o end \in Bytes /\ Len(front \o end) = (N + 2) + 2
        /\ \A i \in 1 .. (N + 2) + 2 :
             (front \o end)[i] = IF i <= N + 2 THEN front[i] ELSE end[i - (N + 2)]
    <3>1. /\ front \o end \in Bytes /\ Len(front \o end) = (N + 2) + 2
          /\ \A i \in 1 .. N + 2 : (front \o end)[i] = front[i]
          /\ \A i \in 1 .. 2 : (front \o end)[(N + 2) + i] = end[i]
      <4>1. /\ front \o end \in Bytes
            /\ Len(front \o end) = Len(front) + Len(end)
            /\ \A i \in 1 .. Len(front) : (front \o end)[i] = front[i]
            /\ \A i \in 1 .. Len(end) : (front \o end)[Len(front) + i] = end[i]
        <5>1. front \in Bytes /\ end \in Bytes
          BY <1>4, <1>5
        <5>2. QED BY <5>1, BytesConcat
      <4>2. QED BY <1>4, <1>5, <4>1, Zenon
    <3>2. ASSUME NEW i \in 1 .. (N + 2) + 2, ~(i <= N + 2)
          PROVE  (front \o end)[i] = end[i - (N + 2)]
      <4>1. i - (N + 2) \in 1 .. 2 /\ (N + 2) + (i - (N + 2)) = i
        BY <1>1, <3>2
      <4>2. QED BY <3>1, <4>1, Zenon
    <3>3. ASSUME NEW i \in 1 .. (N + 2) + 2, i <= N + 2
          PROVE  (front \o end)[i] = front[i]
      BY <1>1, <3>1, <3>3
    <3>4. QED BY <3>1, <3>2, <3>3
  <2>2. /\ (N + 2) + 2 = N + 4 /\ N + 3 \in 1 .. (N + 2) + 2 /\ N + 4 \in 1 .. (N + 2) + 2
        /\ ~(N + 3 <= N + 2) /\ ~(N + 4 <= N + 2)
        /\ (N + 3) - (N + 2) = 1 /\ (N + 4) - (N + 2) = 2
        /\ \A i \in 1 .. N + 2 : i \in 1 .. (N + 2) + 2 /\ i <= N + 2
    BY <1>1
  <2>3. QED BY <1>6, <2>1, <2>2, Zenon
<1>8. SubSeq(Frame(p), 2, N + 2) = body
  <2>1. /\ SubSeq(Frame(p), 2, N + 2) \in Bytes
        /\ Len(SubSeq(Frame(p), 2, N + 2)) = N + 1
        /\ \A i \in 1 .. N + 1 : SubSeq(Frame(p), 2, N + 2)[i] = Frame(p)[i + 1]
    <3>1. 2 \in 1 .. Len(Frame(p)) + 1 /\ N + 2 \in 2 - 1 .. Len(Frame(p))
      BY <1>1, <1>7
    <3>2. /\ SubSeq(Frame(p), 2, N + 2) \in Bytes
          /\ Len(SubSeq(Frame(p), 2, N + 2)) = (N + 2) - 2 + 1
          /\ \A i \in 1 .. (N + 2) - 2 + 1 :
               SubSeq(Frame(p), 2, N + 2)[i] = Frame(p)[2 + i - 1]
      BY <1>7, <3>1, BytesSub
    <3>3. (N + 2) - 2 + 1 = N + 1 /\ \A i \in 1 .. N + 1 : 2 + i - 1 = i + 1
      BY <1>1
    <3>4. QED BY <3>2, <3>3, Zenon
  <2>2. ASSUME NEW i \in 1 .. N + 1 PROVE SubSeq(Frame(p), 2, N + 2)[i] = body[i]
    <3>1. i + 1 \in 1 .. N + 2
      BY <1>1
    <3>2. QED BY <1>5, <1>7, <2>1, <3>1, Zenon
  <2>3. Len(SubSeq(Frame(p), 2, N + 2)) = Len(body)
    BY <1>3, <2>1
  <2>4. \A i \in 1 .. Len(SubSeq(Frame(p), 2, N + 2)) : SubSeq(Frame(p), 2, N + 2)[i] = body[i]
    BY <2>1, <2>2, Zenon
  <2>5. SubSeq(Frame(p), 2, N + 2) \in Bytes /\ body \in Bytes
    BY <1>3, <2>1
  <2>6. QED BY <2>3, <2>4, <2>5, BytesEqual
<1>9. /\ 1 \in 1 .. N + 1 /\ 1 + 1 = 2 /\ 1 \in 1 .. N + 2 /\ 2 \in 1 .. N + 2
  BY <1>1
<1>10. Frame(p)[1] = HEAD /\ Frame(p)[2] = N + 4
  BY <1>3, <1>5, <1>7, <1>9, Zenon
<1>11. Frame(p)[N + 4] = TAIL /\ Frame(p)[N + 3] = Sum(SubSeq(Frame(p), 2, N + 2))
  BY <1>4, <1>7, <1>8, Zenon
<1>12. QED BY <1>7, <1>10, <1>11

Frames(d) == [n \in DOMAIN d |-> Frame(d[n])]

\* The bytes of the frames with the payloads d.
Stream(d) == FlattenSeq(Frames(d))

LEMMA FramesType ==
  ASSUME NEW d \in Seq(Payloads)
  PROVE  Frames(d) \in Seq(Bytes) /\ Len(Frames(d)) = Len(d)
<1>1. Len(d) \in Nat /\ DOMAIN d = 1 .. Len(d) /\ \A n \in 1 .. Len(d) : d[n] \in Payloads
  BY ElementOfSeq
<1>2. \A n \in 1 .. Len(d) : Frame(d[n]) \in Bytes
  BY <1>1, FrameBytes
<1>3. QED BY <1>1, <1>2 DEF Frames

LEMMA StreamEmpty ==
  Stream(<<>>) = <<>>
<1>1. Frames(<<>>) = <<>>
  BY DEF Frames
<1>2. QED BY <1>1 DEF Stream, FlattenSeq

LEMMA StreamType ==
  ASSUME NEW d \in Seq(Payloads)
  PROVE  Stream(d) \in Bytes
BY FramesType, FlattenType DEF Stream, Bytes

LEMMA StreamAppend ==
  ASSUME NEW d \in Seq(Payloads), NEW p \in Payloads
  PROVE  Stream(Append(d, p)) = Stream(d) \o Frame(p)
<1>1. Frames(Append(d, p)) = Append(Frames(d), Frame(p))
  <2>1. /\ Append(d, p) \in Seq(Payloads) /\ Len(d) \in Nat
        /\ Len(Append(d, p)) = Len(d) + 1
        /\ DOMAIN d = 1 .. Len(d) /\ DOMAIN Append(d, p) = 1 .. Len(d) + 1
    OBVIOUS
  <2>2. /\ Frames(d) \in Seq(Bytes) /\ Len(Frames(d)) = Len(d) /\ Frame(p) \in Bytes
        /\ Frames(Append(d, p)) \in Seq(Bytes)
        /\ Len(Frames(Append(d, p))) = Len(d) + 1
    BY <2>1, FramesType, FrameBytes
  <2>3. ASSUME NEW n \in 1 .. Len(d) + 1
        PROVE  Frames(Append(d, p))[n] = Append(Frames(d), Frame(p))[n]
    <3>1. Frames(Append(d, p))[n] = Frame(Append(d, p)[n])
      BY <2>1 DEF Frames
    <3>2. CASE n = Len(d) + 1
      <4>1. Append(d, p)[n] = p /\ Append(Frames(d), Frame(p))[n] = Frame(p)
        BY <2>2, <3>2
      <4>2. QED BY <3>1, <4>1
    <3>3. CASE n \in 1 .. Len(d)
      <4>1. Append(d, p)[n] = d[n] /\ Append(Frames(d), Frame(p))[n] = Frames(d)[n]
        BY <2>2, <3>3
      <4>2. Frames(d)[n] = Frame(d[n])
        BY <2>1, <3>3 DEF Frames
      <4>3. QED BY <3>1, <4>1, <4>2, Zenon
    <3>4. n = Len(d) + 1 \/ n \in 1 .. Len(d)
      OBVIOUS
    <3>5. QED BY <3>2, <3>3, <3>4
  <2>4. /\ Append(Frames(d), Frame(p)) \in Seq(Bytes)
        /\ Len(Append(Frames(d), Frame(p))) = Len(d) + 1
    BY <2>2
  <2>5. QED BY <2>2, <2>3, <2>4, SeqEqual
<1>2. Frames(d) \in Seq(Bytes) /\ Frame(p) \in Bytes
  BY FramesType, FrameBytes
<1>3. QED BY <1>1, <1>2, FlattenAppend DEF Stream, Bytes

LEMMA StreamHead ==
  ASSUME NEW d \in Seq(Payloads), d # <<>>
  PROVE  /\ Head(d) \in Payloads /\ Tail(d) \in Seq(Payloads)
         /\ Stream(d) = Frame(Head(d)) \o Stream(Tail(d))
<1>1. /\ Head(d) \in Payloads /\ Tail(d) \in Seq(Payloads)
      /\ Len(d) \in Nat \ {0} /\ Len(Tail(d)) = Len(d) - 1 /\ Head(d) = d[1]
      /\ DOMAIN d = 1 .. Len(d) /\ DOMAIN Tail(d) = 1 .. Len(d) - 1
      /\ \A n \in 1 .. Len(d) - 1 : Tail(d)[n] = d[n + 1]
  BY HeadTailProperties, EmptySeq
<1>2. /\ Frames(d) \in Seq(Bytes) /\ Len(Frames(d)) = Len(d) /\ Frames(d) # <<>>
      /\ Frames(Tail(d)) \in Seq(Bytes) /\ Len(Frames(Tail(d))) = Len(d) - 1
  BY <1>1, FramesType, EmptySeq
<1>3. Head(Frames(d)) = Frame(Head(d))
  <2>1. Frames(d)[1] = Frame(d[1])
    BY <1>1 DEF Frames
  <2>2. QED BY <1>1, <1>2, <2>1
<1>4. Tail(Frames(d)) = Frames(Tail(d))
  <2>1. /\ Tail(Frames(d)) \in Seq(Bytes) /\ Len(Tail(Frames(d))) = Len(d) - 1
        /\ \A n \in 1 .. Len(d) - 1 : Tail(Frames(d))[n] = Frames(d)[n + 1]
    BY <1>2, HeadTailProperties
  <2>2. ASSUME NEW n \in 1 .. Len(d) - 1
        PROVE  Tail(Frames(d))[n] = Frames(Tail(d))[n]
    <3>1. n + 1 \in 1 .. Len(d)
      BY <1>1
    <3>2. Frames(d)[n + 1] = Frame(d[n + 1]) /\ Frames(Tail(d))[n] = Frame(Tail(d)[n])
      BY <1>1, <3>1 DEF Frames
    <3>3. QED BY <1>1, <2>1, <3>2
  <2>3. QED BY <1>2, <2>1, <2>2, SeqEqual
<1>5. QED BY <1>1, <1>2, <1>3, <1>4, FlattenHead DEF Stream, Bytes

----------------------------------------------------------------------------
(* Parts of sequences of bytes *)

LEMMA PrefixElements ==
  ASSUME NEW s \in Bytes, NEW t \in Bytes
  PROVE  IsPrefix(s, t) <=> Len(s) <= Len(t) /\ \A i \in 1 .. Len(s) : s[i] = t[i]
<1>1. Len(s) \in Nat /\ Len(t) \in Nat
  BY DEF Bytes
<1>2. CASE Len(s) <= Len(t)
  <2> DEFINE a == SubSeq(s, 1, Len(s))
             b == SubSeq(t, 1, Len(s))
  <2>1. /\ a \in Bytes /\ Len(a) = Len(s) - 1 + 1
        /\ \A i \in 1 .. Len(s) - 1 + 1 : a[i] = s[1 + i - 1]
    BY <1>1, BytesSub
  <2>2. /\ b \in Bytes /\ Len(b) = Len(s) - 1 + 1
        /\ \A i \in 1 .. Len(s) - 1 + 1 : b[i] = t[1 + i - 1]
    BY <1>1, <1>2, BytesSub
  <2> HIDE DEF a, b
  <2>3. Len(s) - 1 + 1 = Len(s) /\ \A i \in 1 .. Len(s) : 1 + i - 1 = i
    BY <1>1
  <2>4. /\ Len(a) = Len(s) /\ Len(b) = Len(s)
        /\ \A i \in 1 .. Len(s) : a[i] = s[i] /\ b[i] = t[i]
    BY <2>1, <2>2, <2>3, Zenon
  <2>5. ASSUME a = b, NEW i \in 1 .. Len(s) PROVE s[i] = t[i]
    BY <2>4, <2>5, Zenon
  <2>6. ASSUME \A i \in 1 .. Len(s) : s[i] = t[i] PROVE a = b
    <3>1. Len(a) = Len(b) /\ \A i \in 1 .. Len(a) : a[i] = b[i]
      BY <2>4, <2>6, Zenon
    <3>2. QED BY <2>1, <2>2, <3>1, BytesEqual
  <2>7. IsPrefix(s, t) <=> a = b
    BY <1>2 DEF IsPrefix, a, b
  <2>8. QED BY <1>2, <2>5, <2>6, <2>7, Zenon
<1>3. CASE ~(Len(s) <= Len(t))
  BY <1>3 DEF IsPrefix
<1>4. QED BY <1>2, <1>3

LEMMA PrefixOfLonger ==
  ASSUME NEW s \in Bytes, NEW t \in Bytes, NEW u \in Bytes, IsPrefix(s, t)
  PROVE  IsPrefix(s, t \o u)
<1>1. Len(s) <= Len(t) /\ \A i \in 1 .. Len(s) : s[i] = t[i]
  BY PrefixElements
<1>2. /\ t \o u \in Bytes /\ Len(t) \in Nat /\ Len(u) \in Nat /\ Len(s) \in Nat
      /\ Len(t \o u) = Len(t) + Len(u) /\ \A i \in 1 .. Len(t) : (t \o u)[i] = t[i]
  BY BytesConcat
<1>3. /\ Len(s) <= Len(t \o u)
      /\ \A i \in 1 .. Len(s) : i \in 1 .. Len(t)
  BY <1>1, <1>2
<1>4. \A i \in 1 .. Len(s) : s[i] = (t \o u)[i]
  BY <1>1, <1>2, <1>3, Zenon
<1>5. QED BY <1>2, <1>3, <1>4, PrefixElements

LEMMA PrefixOfItself ==
  ASSUME NEW s \in Bytes
  PROVE  IsPrefix(s, s)
<1>1. Len(s) \in Nat
  BY DEF Bytes
<1>2. QED BY <1>1, PrefixElements

LEMMA LesserIs ==
  ASSUME NEW m \in Nat, NEW n \in Nat
  PROVE  /\ Lesser(m, n) \in Nat /\ Lesser(m, n) <= m /\ Lesser(m, n) <= n
         /\ Lesser(m, n) \in 0 .. m /\ Lesser(m, n) \in 0 .. n
         /\ m <= n => Lesser(m, n) = m
         /\ n <= m => Lesser(m, n) = n
BY DEF Lesser

LEMMA DropIs ==
  ASSUME NEW q \in Bytes, NEW n \in 0 .. Len(q)
  PROVE  /\ Drop(q, n) \in Bytes
         /\ Len(Drop(q, n)) = Len(q) - n
         /\ \A i \in 1 .. Len(q) - n : Drop(q, n)[i] = q[n + i]
<1>1. Len(q) \in Nat
  BY DEF Bytes
<1>2. /\ Drop(q, n) \in Bytes
      /\ Len(Drop(q, n)) = Len(q) - (n + 1) + 1
      /\ \A i \in 1 .. Len(q) - (n + 1) + 1 : Drop(q, n)[i] = q[(n + 1) + i - 1]
  BY <1>1, BytesSub DEF Drop
<1>3. /\ Len(q) - (n + 1) + 1 = Len(q) - n
      /\ \A i \in 1 .. Len(q) - n : (n + 1) + i - 1 = n + i
  BY <1>1
<1>4. QED BY <1>2, <1>3, Zenon

\* What a message carries moves from the one sequence to the other.
LEMMA MoveKeeps ==
  ASSUME NEW s \in Bytes, NEW t \in Bytes, NEW n \in 0 .. Len(t)
  PROVE  /\ SubSeq(t, 1, n) \in Bytes /\ Len(SubSeq(t, 1, n)) = n
         /\ (s \o SubSeq(t, 1, n)) \o Drop(t, n) = s \o t
<1> DEFINE B == 0 .. BYTE - 1
<1>1. Len(t) \in Nat /\ s \in Seq(B) /\ t \in Seq(B) /\ Bytes = Seq(B)
  BY DEF Bytes
<1> HIDE DEF B
<1>2. SubSeq(t, 1, n) \in Bytes /\ Len(SubSeq(t, 1, n)) = n
  <2>1. 1 \in 1 .. Len(t) + 1 /\ n \in 1 - 1 .. Len(t) /\ n - 1 + 1 = n
    BY <1>1
  <2>2. QED BY <2>1, BytesSub
<1>3. SubSeq(t, 1, n) \o Drop(t, n) = t
  <2>1. 1 \in 1 .. Len(t) + 1 /\ n \in 1 - 1 .. Len(t) /\ Len(t) \in n .. Len(t)
    BY <1>1
  <2>2. SubSeq(t, 1, n) \o SubSeq(t, n + 1, Len(t)) = SubSeq(t, 1, Len(t))
    BY <1>1, <2>1, ConcatAdjacentSubSeq
  <2>3. SubSeq(t, 1, Len(t)) = t
    BY <1>1, SubSeqFull
  <2>4. QED BY <2>2, <2>3 DEF Drop
<1>4. (s \o SubSeq(t, 1, n)) \o Drop(t, n) = s \o (SubSeq(t, 1, n) \o Drop(t, n))
  <2>1. SubSeq(t, 1, n) \in Seq(B) /\ Drop(t, n) \in Seq(B)
    BY <1>1, <1>2, DropIs
  <2>2. \A u, v, w \in Seq(B) : (u \o v) \o w = u \o (v \o w)
    BY ConcatAssociative
  <2>3. QED BY <1>1, <2>1, <2>2, Zenon
<1>5. QED BY <1>2, <1>3, <1>4

\* What is left of the first of two sequences when what they begin with goes.
LEMMA DropFront ==
  ASSUME NEW s \in Bytes, NEW t \in Bytes, NEW f \in Bytes, NEW r \in Bytes,
         s \o t = f \o r, Len(f) <= Len(s)
  PROVE  Drop(s, Len(f)) \o t = r
<1> DEFINE n == Len(f)
           d == Drop(s, n)
<1>1. /\ Len(s) \in Nat /\ Len(t) \in Nat /\ n \in Nat /\ Len(r) \in Nat
      /\ Len(s) + Len(t) = n + Len(r)
      /\ \A i \in 1 .. Len(s) : (s \o t)[i] = s[i]
      /\ \A i \in 1 .. Len(t) : (s \o t)[Len(s) + i] = t[i]
      /\ \A i \in 1 .. Len(r) : (f \o r)[n + i] = r[i]
  <2>1. /\ Len(s) \in Nat /\ Len(t) \in Nat /\ Len(s \o t) = Len(s) + Len(t)
        /\ \A i \in 1 .. Len(s) : (s \o t)[i] = s[i]
        /\ \A i \in 1 .. Len(t) : (s \o t)[Len(s) + i] = t[i]
    BY BytesConcat
  <2>2. /\ n \in Nat /\ Len(r) \in Nat /\ Len(f \o r) = n + Len(r)
        /\ \A i \in 1 .. Len(r) : (f \o r)[n + i] = r[i]
    BY BytesConcat
  <2>3. QED BY <2>1, <2>2, Zenon
<1>2. /\ d \in Bytes /\ Len(d) = Len(s) - n /\ \A i \in 1 .. Len(s) - n : d[i] = s[n + i]
  BY <1>1, DropIs
<1> HIDE DEF d
<1>3. /\ d \o t \in Bytes /\ Len(d \o t) = Len(d) + Len(t)
      /\ \A i \in 1 .. Len(d) : (d \o t)[i] = d[i]
      /\ \A i \in 1 .. Len(t) : (d \o t)[Len(d) + i] = t[i]
  BY <1>2, BytesConcat
<1>4. Len(d \o t) = Len(r)
  BY <1>1, <1>2, <1>3
<1>5. ASSUME NEW i \in 1 .. Len(r) PROVE (d \o t)[i] = r[i]
  <2>1. (s \o t)[n + i] = r[i]
    BY <1>1
  <2>2. CASE i <= Len(s) - n
    <3>1. i \in 1 .. Len(s) - n /\ n + i \in 1 .. Len(s)
      BY <1>1, <2>2
    <3>2. QED BY <1>1, <1>2, <1>3, <2>1, <3>1, Zenon
  <2>3. CASE ~(i <= Len(s) - n)
    <3> DEFINE j == i - (Len(s) - n)
    <3>1. j \in 1 .. Len(t) /\ (Len(s) - n) + j = i /\ Len(s) + j = n + i
      BY <1>1, <2>3
    <3> HIDE DEF j
    <3>2. (d \o t)[i] = t[j]
      BY <1>2, <1>3, <3>1, Zenon
    <3>3. t[j] = (s \o t)[n + i]
      BY <1>1, <3>1, Zenon
    <3>4. QED BY <2>1, <3>2, <3>3
  <2>4. QED BY <2>2, <2>3
<1>6. QED BY <1>3, <1>4, <1>5, BytesEqual DEF d

LEMMA KeptIs ==
  ASSUME NEW q \in Bytes
  PROVE  /\ Kept(q) \in Bytes /\ Len(Kept(q)) <= CAPACITY
         /\ q # <<>> => Kept(q) # <<>>
         /\ Len(q) <= CAPACITY => Kept(q) = q
<1>1. Len(q) \in Nat /\ CAPACITY \in Nat \ {0}
  BY LinkAssumption DEF Bytes
<1>2. CASE Len(q) > CAPACITY
  <2>1. Len(q) - CAPACITY \in 0 .. Len(q) /\ Len(q) - (Len(q) - CAPACITY) = CAPACITY
    BY <1>1, <1>2
  <2>2. Drop(q, Len(q) - CAPACITY) \in Bytes /\ Len(Drop(q, Len(q) - CAPACITY)) = CAPACITY
    BY <2>1, DropIs
  <2>3. QED BY <1>1, <1>2, <2>2 DEF Kept
<1>3. CASE ~(Len(q) > CAPACITY)
  BY <1>1, <1>3 DEF Kept
<1>4. QED BY <1>2, <1>3

----------------------------------------------------------------------------
(* The scan *)

\* The scan ends, at the latest at the end of the bytes.
LEMMA ScanEnds ==
  ASSUME NEW b \in Bytes, b # <<>>
  PROVE  /\ Skipped(b) \in 0 .. Len(b) /\ Stops(b, Skipped(b))
         /\ \A j \in 0 .. Skipped(b) - 1 : ~Stops(b, j)
<1> DEFINE T == {i \in 0 .. Len(b) : Stops(b, i)}
<1>1. Len(b) \in Nat \ {0} /\ MIN \in Nat /\ MIN >= 4
  BY LinkAssumption, EmptySeq DEF Bytes
<1>2. Stops(b, Len(b))
  BY <1>1 DEF Stops, Found, Strays
<1>3. PICK i \in T : \A j \in T : i <= j
  <2>1. T \subseteq Nat /\ Len(b) \in T
    BY <1>1, <1>2
  <2> HIDE DEF T
  <2>2. QED BY <2>1, LeastOf
<1>4. i \in 0 .. Len(b) /\ Stops(b, i) /\ \A j \in 0 .. i - 1 : ~Stops(b, j)
  BY <1>1, <1>3
<1>5. QED BY <1>4 DEF Skipped

\* A frame that the scan finds is received in whole.
LEMMA ValidFits ==
  ASSUME NEW b \in Bytes, NEW i \in Nat, Valid(b, i)
  PROVE  /\ i + 2 <= Len(b) /\ Length(b, i) \in MIN .. MAX /\ Length(b, i) \in Nat
         /\ i + Length(b, i) <= Len(b)
<1>1. i + 2 <= Len(b) /\ Length(b, i) \in MIN .. MAX /\ Len(b) - i >= Length(b, i)
  BY DEF Valid, Plausible, Complete
<1>2. Len(b) \in Nat /\ MIN \in Nat /\ MAX \in Nat
  BY LinkAssumption DEF Bytes
<1>3. QED BY <1>1, <1>2

\* Of the first bytes of a frame none is skipped, however few they are and
\* whatever follows the frame; and it is accepted when it is complete.
LEMMA FrameIsFound ==
  ASSUME NEW p \in Payloads, NEW r \in Bytes, NEW b \in Bytes, b # <<>>,
         IsPrefix(b, Frame(p) \o r)
  PROVE  /\ Outcome(b) \in {"accept", "wait"}
         /\ Outcome(b) = "accept" => Skipped(b) = 0
         /\ Outcome(b) = "accept" <=> Len(b) >= Len(Frame(p))
         /\ Valid(b, 0) => /\ Length(b, 0) = Len(Frame(p))
                           /\ SubSeq(b, 1, Length(b, 0)) = Frame(p)
<1> DEFINE f == Frame(p)
           N == Len(f)
<1>1. /\ f \in Bytes /\ N \in Nat /\ N \in MIN .. MAX /\ MIN \in Nat /\ MIN >= 4 /\ MAX \in Nat
      /\ f[1] = HEAD /\ f[2] = N /\ f[N] = TAIL
      /\ f[N - 1] = Sum(SubSeq(f, 2, N - 2))
  <2>1. /\ f \in Bytes /\ N = Len(p) + 4 /\ Len(p) \in Nat /\ Len(p) + 4 \in MIN .. MAX
        /\ f[1] = HEAD /\ f[2] = Len(p) + 4 /\ f[Len(p) + 4] = TAIL
        /\ f[Len(p) + 3] = Sum(SubSeq(f, 2, Len(p) + 2))
    BY FrameBytes, PayloadBytes
  <2>2. MIN \in Nat /\ MIN >= 4 /\ MAX \in Nat
    BY LinkAssumption
  <2>3. N - 1 = Len(p) + 3 /\ N - 2 = Len(p) + 2 /\ N \in Nat
    BY <2>1
  <2>4. QED BY <2>1, <2>2, <2>3, Zenon
<1> HIDE DEF f
<1>2. /\ Len(b) \in Nat \ {0}
      /\ \A i \in 1 .. Len(b) : i <= N => b[i] = f[i]
  <2>1. f \o r \in Bytes /\ \A i \in 1 .. N : (f \o r)[i] = f[i]
    BY <1>1, BytesConcat
  <2>2. \A i \in 1 .. Len(b) : b[i] = (f \o r)[i]
    BY <2>1, PrefixElements DEF f
  <2>3. Len(b) \in Nat \ {0}
    BY EmptySeq DEF Bytes
  <2>4. \A i \in 1 .. Len(b) : i <= N => i \in 1 .. N
    BY <1>1, <2>3
  <2>5. QED BY <2>1, <2>2, <2>3, <2>4, Zenon
<1>3. CASE Len(b) < MIN
  <2>1. Outcome(b) = "wait"
    BY <1>3 DEF Outcome
  <2>2. ~(Len(b) >= N)
    BY <1>1, <1>2, <1>3
  <2>3. ~Valid(b, 0)
    <3>1. ASSUME Valid(b, 0) PROVE FALSE
      <4>1. Length(b, 0) \in MIN .. MAX /\ 0 + Length(b, 0) <= Len(b)
        BY <3>1, ValidFits
      <4>2. QED BY <1>1, <1>2, <1>3, <4>1
    <3>2. QED BY <3>1
  <2>4. QED BY <2>1, <2>2, <2>3 DEF f
<1>4. CASE ~(Len(b) < MIN)
  <2>1. /\ 1 \in 1 .. Len(b) /\ 2 \in 1 .. Len(b) /\ 1 <= N /\ 2 <= N
        /\ 0 + 1 = 1 /\ 0 + 2 = 2 /\ 0 < Len(b) /\ 0 + 2 <= Len(b) /\ Len(b) - 0 = Len(b)
    BY <1>1, <1>2, <1>4
  <2>2. b[1] = HEAD /\ b[2] = N
    BY <1>1, <1>2, <2>1, Zenon
  <2>3. Length(b, 0) = N
    BY <2>1, <2>2, Zenon DEF Length
  <2>4. Plausible(b, 0)
    BY <1>1, <2>1, <2>2, <2>3, Zenon DEF Plausible, HeadAt
  <2>5. Complete(b, 0) <=> Len(b) >= N
    BY <2>1, <2>3, Zenon DEF Complete
  <2>6. ASSUME Len(b) >= N
        PROVE  Valid(b, 0) /\ SubSeq(b, 1, N) = f
    <3>1. /\ N \in 1 .. Len(b) /\ N - 1 \in 1 .. Len(b) /\ N <= N /\ N - 1 <= N
          /\ 0 + N = N /\ 0 + N - 1 = N - 1 /\ 0 + N - 2 = N - 2
      BY <1>1, <1>2, <2>6
    <3>2. b[N] = TAIL /\ b[N - 1] = f[N - 1]
      BY <1>1, <1>2, <3>1, Zenon
    <3>3. SubSeq(b, 2, N - 2) = SubSeq(f, 2, N - 2)
      <4>1. /\ 2 \in 1 .. Len(b) + 1 /\ N - 2 \in 2 - 1 .. Len(b)
            /\ 2 \in 1 .. Len(f) + 1 /\ N - 2 \in 2 - 1 .. Len(f)
        BY <1>1, <1>2, <2>6
      <4>2. /\ SubSeq(b, 2, N - 2) \in Bytes
            /\ Len(SubSeq(b, 2, N - 2)) = N - 2 - 2 + 1
            /\ \A i \in 1 .. N - 2 - 2 + 1 : SubSeq(b, 2, N - 2)[i] = b[2 + i - 1]
        BY <4>1, BytesSub
      <4>3. /\ SubSeq(f, 2, N - 2) \in Bytes
            /\ Len(SubSeq(f, 2, N - 2)) = N - 2 - 2 + 1
            /\ \A i \in 1 .. N - 2 - 2 + 1 : SubSeq(f, 2, N - 2)[i] = f[2 + i - 1]
        BY <1>1, <4>1, BytesSub
      <4>4. \A i \in 1 .. N - 2 - 2 + 1 : 2 + i - 1 \in 1 .. Len(b) /\ 2 + i - 1 <= N
        BY <1>1, <1>2, <2>6
      <4>5. /\ Len(SubSeq(b, 2, N - 2)) = Len(SubSeq(f, 2, N - 2))
            /\ \A i \in 1 .. Len(SubSeq(b, 2, N - 2)) :
                 SubSeq(b, 2, N - 2)[i] = SubSeq(f, 2, N - 2)[i]
        BY <1>2, <4>2, <4>3, <4>4, Zenon
      <4>6. QED BY <4>2, <4>3, <4>5, BytesEqual
    <3>4. b[0 + N] = TAIL /\ b[0 + N - 1] = Sum(SubSeq(b, 0 + 2, 0 + N - 2))
      BY <1>1, <2>1, <3>1, <3>2, <3>3, Zenon
    <3>5. Valid(b, 0)
      BY <2>3, <2>4, <2>5, <2>6, <3>4, Zenon DEF Valid
    <3>6. IsPrefix(f, b)
      <4>1. \A i \in 1 .. N : i \in 1 .. Len(b) /\ i <= N
        BY <1>1, <1>2, <2>6
      <4>2. N <= Len(b) /\ \A i \in 1 .. N : f[i] = b[i]
        BY <1>1, <1>2, <2>6, <4>1
      <4>3. QED BY <1>1, <4>2, PrefixElements
    <3>7. SubSeq(f, 1, N) = f
      <4> DEFINE B == 0 .. BYTE - 1
      <4>1. f \in Seq(B)
        BY <1>1 DEF Bytes
      <4> HIDE DEF B
      <4>2. QED BY <4>1, SubSeqFull
    <3>8. QED BY <3>5, <3>6, <3>7, Zenon DEF IsPrefix
  <2>7. Valid(b, 0) => Len(b) >= N
    BY <2>5, Zenon DEF Valid
  <2>8. Stops(b, 0)
    BY <2>4, <2>5, <2>6, Zenon DEF Stops
  <2>9. Skipped(b) = 0
    <3>1. Skipped(b) \in 0 .. Len(b) /\ \A j \in 0 .. Skipped(b) - 1 : ~Stops(b, j)
      BY ScanEnds
    <3>2. Skipped(b) # 0 => 0 \in 0 .. Skipped(b) - 1
      BY <1>2, <3>1
    <3>3. QED BY <2>8, <3>1, <3>2, Zenon
  <2>10. ~Strays(b, 0)
    BY DEF Strays
  <2>11. Outcome(b) = IF Valid(b, 0) THEN "accept" ELSE "wait"
    BY <1>4, <2>4, <2>9, <2>10, Zenon DEF Outcome
  <2>12. QED BY <2>3, <2>6, <2>7, <2>9, <2>11 DEF f
<1>5. QED BY <1>3, <1>4

----------------------------------------------------------------------------
(* The inductive invariant *)

LinkIInv == TypeOK /\ LinkInv

\* What has been sent and not delivered, and the oldest of it.
LEMMA OldestComesFirst ==
  ASSUME TypeOK, Aligned, intact, ring # <<>>
  PROVE  /\ due # <<>> /\ Head(due) \in Payloads /\ Tail(due) \in Seq(Payloads)
         /\ Stream(Tail(due)) \in Bytes
         /\ ring \o pending = Frame(Head(due)) \o Stream(Tail(due))
<1>1. ring \in Bytes /\ pending \in Bytes /\ due \in Seq(Payloads)
  BY DEF TypeOK
<1>2. ring \o pending = Stream(due)
  BY DEF Aligned, Stream, Frames
<1>3. due # <<>>
  <2>1. SUFFICES ASSUME due = <<>> PROVE FALSE
    OBVIOUS
  <2>2. ring \o pending = <<>>
    BY <1>2, <2>1, StreamEmpty
  <2>3. Len(ring \o pending) = Len(ring) + Len(pending) /\ Len(ring) \in Nat /\ Len(pending) \in Nat
    BY <1>1, BytesConcat
  <2>4. Len(ring) = 0
    BY <2>2, <2>3
  <2>5. QED BY <1>1, <2>4, EmptySeq DEF Bytes
<1>4. QED BY <1>1, <1>2, <1>3, StreamHead, StreamType

\* The parser looks at the beginning of the oldest frame.
LEMMA LooksAtOldest ==
  ASSUME TypeOK, LinkInv, intact, pc \in {"scan", "delete"}
  PROVE  /\ Head(due) \in Payloads /\ Tail(due) \in Seq(Payloads)
         /\ buf \in Bytes /\ buf # <<>> /\ Stream(Tail(due)) \in Bytes
         /\ IsPrefix(buf, Frame(Head(due)) \o Stream(Tail(due)))
<1>1. /\ ring # <<>> /\ buf # <<>> /\ ring \in Bytes /\ pending \in Bytes /\ buf \in Bytes
      /\ IsPrefix(buf, ring)
  BY DEF TypeOK, LinkInv, ScanInv, IntactInv
<1>2. /\ Head(due) \in Payloads /\ Tail(due) \in Seq(Payloads)
      /\ Stream(Tail(due)) \in Bytes
      /\ ring \o pending = Frame(Head(due)) \o Stream(Tail(due))
  BY <1>1, OldestComesFirst DEF LinkInv
<1>3. IsPrefix(buf, ring \o pending)
  BY <1>1, PrefixOfLonger
<1>4. QED BY <1>1, <1>2, <1>3

\* An accepted frame is in the parser's copy.
LEMMA AcceptedIsThere ==
  ASSUME TypeOK, ScanInv, pc = "delete"
  PROVE  /\ Length(buf, skip) \in Nat /\ skip \in Nat
         /\ skip + Length(buf, skip) \in Nat /\ skip + Length(buf, skip) <= Len(buf)
         /\ Lesser(Len(ring), skip + Length(buf, skip)) \in 0 .. Len(ring)
<1>1. buf \in Bytes /\ skip \in Nat /\ Valid(buf, skip) /\ Len(ring) \in Nat
  BY LinkAssumption DEF TypeOK, ScanInv, Bytes
<1>2. Length(buf, skip) \in Nat /\ skip + Length(buf, skip) <= Len(buf)
  BY <1>1, ValidFits
<1>3. skip + Length(buf, skip) \in Nat
  BY <1>1, <1>2
<1>4. QED BY <1>1, <1>2, <1>3, LesserIs

LEMMA SkippedIsNumber ==
  ASSUME TypeOK, ScanInv, pc = "scan"
  PROVE  /\ Skipped(buf) \in 0 .. CAPACITY /\ Skipped(buf) \in Nat
         /\ Lesser(Len(ring), Skipped(buf)) \in 0 .. Len(ring)
<1>1. buf \in Bytes /\ buf # <<>> /\ Len(buf) \in Nat /\ Len(buf) <= CAPACITY /\ Len(ring) \in Nat
  BY DEF TypeOK, ScanInv, Bytes
<1>2. Skipped(buf) \in 0 .. Len(buf)
  BY <1>1, ScanEnds
<1>3. Skipped(buf) \in Nat /\ CAPACITY \in Nat
  BY <1>1, <1>2, LinkAssumption
<1>4. QED BY <1>1, <1>2, <1>3, LesserIs

LEMMA LaterIs ==
  ASSUME NEW m \in 0 .. OUT + 1, NEW n \in 0 .. OUT + 1
  PROVE  /\ 0 \in 0 .. OUT + 1 /\ Later(m) \in 0 .. OUT + 1
         /\ m <= n => Later(m) <= Later(n)
BY LinkAssumption DEF Later, Lesser

LEMMA EmptyBytes ==
  <<>> \in Bytes /\ Len(<<>>) = 0 /\ 0 \in Nat /\ 0 <= CAPACITY /\ 0 \in 0 .. CAPACITY
BY LinkAssumption, EmptySeq DEF Bytes

LEMMA InitLink ==
  Init => LinkIInv
<1> SUFFICES ASSUME Init PROVE LinkIInv
  OBVIOUS
<1>1. 0 \in 0 .. OUT + 1 /\ 0 \in 0 .. CAPACITY /\ 0 <= CAPACITY /\ 0 <= MaxDue
  BY LinkAssumption
<1>2. TypeOK
  BY <1>1, EmptyBytes, EmptySeq DEF Init, TypeOK
<1>3. Aligned
  <2>1. <<>> \o <<>> = <<>>
    BY EmptyBytes, ConcatEmptySeq DEF Bytes
  <2>2. ring \o pending = Stream(due)
    BY <2>1, StreamEmpty DEF Init
  <2>3. QED BY <2>2 DEF Aligned, Stream, Frames
<1>4. ScanInv /\ IntactInv
  BY DEF Init, ScanInv, IntactInv
<1>5. QED BY <1>2, <1>3, <1>4 DEF LinkIInv, LinkInv

\* The bytes of a message go to the end of the buffer, or push out its oldest.
LEMMA TakesMessage ==
  ASSUME LinkIInv, TakeMessage
  PROVE  /\ ring' \in Bytes /\ Len(ring') <= CAPACITY /\ ring' # <<>> /\ pending' \in Bytes
         /\ due' \in Seq(Payloads) /\ Len(due') <= MaxDue /\ intact' \in BOOLEAN
         /\ Aligned'
         /\ intact' => intact /\ \A b \in Bytes : IsPrefix(b, ring) => IsPrefix(b, ring')
<1> DEFINE m == SubSeq(pending, 1, Part)
<1>1. /\ ring \in Bytes /\ pending \in Bytes /\ due \in Seq(Payloads) /\ Len(due) <= MaxDue
      /\ intact \in BOOLEAN /\ Len(ring) \in Nat /\ Len(pending) \in Nat \ {0}
      /\ pending # <<>>
  BY EmptySeq DEF LinkIInv, TypeOK, TakeMessage, Bytes
<1>2. Part \in 0 .. Len(pending) /\ Part # 0
  BY <1>1, LinkAssumption DEF Part, Lesser
<1>3. /\ m \in Bytes /\ Len(m) = Part
      /\ (ring \o m) \o Drop(pending, Part) = ring \o pending
  BY <1>1, <1>2, MoveKeeps
<1>4. pending' = Drop(pending, Part) /\ pending' \in Bytes
  BY <1>1, <1>2, DropIs DEF TakeMessage
<1>5. ring' = Kept(ring \o m)
  BY DEF TakeMessage
<1> HIDE DEF m
<1>6. ring \o m \in Bytes /\ Len(ring \o m) = Len(ring) + Part /\ ring \o m # <<>>
  <2>1. ring \o m \in Bytes /\ Len(ring \o m) = Len(ring) + Len(m)
    BY <1>1, <1>3, BytesConcat
  <2>2. Len(ring \o m) # 0
    BY <1>1, <1>2, <1>3, <2>1
  <2>3. QED BY <1>3, <2>1, <2>2, EmptyBytes
<1>7. /\ ring' \in Bytes /\ Len(ring') <= CAPACITY /\ ring' # <<>>
      /\ Len(ring) + Part <= CAPACITY => ring' = ring \o m
  BY <1>5, <1>6, KeptIs
<1>8. CASE Len(ring) + Part > CAPACITY
  <2>1. due' = <<>> /\ intact' = FALSE
    BY <1>8 DEF TakeMessage
  <2>2. <<>> \in Seq(Payloads) /\ Len(<<>>) <= MaxDue
    BY LinkAssumption, EmptySeq
  <2>3. QED BY <1>4, <1>7, <2>1, <2>2 DEF Aligned
<1>9. CASE ~(Len(ring) + Part > CAPACITY)
  <2>1. due' = due /\ intact' = intact /\ ring' = ring \o m
    <3>1. Len(ring) + Part <= CAPACITY
      BY <1>1, <1>2, <1>9, LinkAssumption
    <3>2. QED BY <1>7, <1>9, <3>1 DEF TakeMessage
  <2>2. ring' \o pending' = ring \o pending
    BY <1>3, <1>4, <2>1
  <2>3. Aligned'
    BY <2>1, <2>2 DEF LinkIInv, LinkInv, Aligned
  <2>4. ASSUME NEW b \in Bytes, IsPrefix(b, ring) PROVE IsPrefix(b, ring')
    BY <1>1, <1>3, <2>1, <2>4, PrefixOfLonger
  <2>5. QED BY <1>1, <1>4, <1>7, <2>1, <2>3, <2>4
<1>10. QED BY <1>8, <1>9

LEMMA ArriveLink ==
  ASSUME LinkIInv, Arrive PROVE LinkIInv'
<1>1. /\ ring' \in Bytes /\ Len(ring') <= CAPACITY /\ ring' # <<>> /\ pending' \in Bytes
      /\ due' \in Seq(Payloads) /\ Len(due') <= MaxDue /\ intact' \in BOOLEAN
      /\ Aligned'
      /\ intact' => intact /\ \A b \in Bytes : IsPrefix(b, ring) => IsPrefix(b, ring')
  BY TakesMessage DEF Arrive
<1>2. /\ UNCHANGED <<boot, buf, pc, skip, waited>>
      /\ age' = IF intact' THEN age ELSE 0
      /\ 0 \in 0 .. OUT + 1
  BY LinkAssumption DEF Arrive, parser
<1>3. TypeOK'
  BY <1>1, <1>2 DEF LinkIInv, TypeOK
<1>4. ScanInv'
  BY <1>1, <1>2 DEF LinkIInv, LinkInv, ScanInv, Valid, Plausible, HeadAt, Complete, Length
<1>5. IntactInv'
  <2>1. buf \in Bytes
    BY DEF LinkIInv, TypeOK
  <2>2. ASSUME intact' PROVE IntactInv'
    <3>1. intact /\ (IsPrefix(buf, ring) => IsPrefix(buf, ring')) /\ age' = age
      BY <1>1, <1>2, <2>1, <2>2
    <3>2. QED BY <1>2, <3>1 DEF LinkIInv, LinkInv, IntactInv
  <2>3. QED BY <2>2 DEF IntactInv
<1>6. QED BY <1>1, <1>3, <1>4, <1>5 DEF LinkIInv, LinkInv

LEMMA SendLink ==
  ASSUME LinkIInv, NEW p \in Payloads, Send(p) PROVE LinkIInv'
<1>1. /\ ring \in Bytes /\ due \in Seq(Payloads) /\ Len(due) \in Nat /\ Len(due) < MaxDue
      /\ pending = <<>> /\ pending' = Frame(p) /\ Frame(p) \in Bytes /\ intact \in BOOLEAN
      /\ UNCHANGED <<boot, ring, buf, pc, skip, waited, age>>
      /\ intact' = (intact \/ Quiet)
      /\ due' = IF Quiet THEN <<p>> ELSE IF intact THEN Append(due, p) ELSE <<>>
  BY FrameBytes DEF LinkIInv, TypeOK, Send, parser
<1>2. <<>> \in Seq(Payloads) /\ Append(<<>>, p) = <<p>>
  BY EmptySeq
<1>3. TypeOK'
  <2>1. /\ <<p>> \in Seq(Payloads) /\ Len(<<p>>) = 1 /\ Len(<<>>) = 0
        /\ Append(due, p) \in Seq(Payloads) /\ Len(Append(due, p)) = Len(due) + 1
    BY <1>1, AppendProperties
  <2>2. due' \in Seq(Payloads) /\ Len(due') <= MaxDue
    BY <1>1, <1>2, <2>1, LinkAssumption
  <2>3. QED BY <1>1, <2>2 DEF LinkIInv, TypeOK
<1>4. Aligned'
  <2> SUFFICES ASSUME intact' PROVE ring' \o pending' = Stream(due')
    BY DEF Aligned, Stream, Frames
  <2>1. CASE Quiet
    <3>1. Stream(<<p>>) = Stream(<<>>) \o Frame(p)
      BY <1>2, StreamAppend
    <3>2. QED BY <1>1, <2>1, <3>1, StreamEmpty DEF Quiet
  <2>2. CASE ~Quiet
    <3>1. ring \o pending = Stream(due)
      BY <1>1, <2>2 DEF LinkIInv, LinkInv, Aligned, Stream, Frames
    <3>2. ring \o pending = ring
      BY <1>1, ConcatEmptySeq DEF Bytes
    <3>3. Stream(due') = Stream(due) \o Frame(p)
      BY <1>1, <2>2, StreamAppend
    <3>4. QED BY <1>1, <3>1, <3>2, <3>3
  <2>3. QED BY <2>1, <2>2
<1>5. ScanInv'
  BY <1>1 DEF LinkIInv, LinkInv, ScanInv, Valid, Plausible, HeadAt, Complete, Length
<1>6. IntactInv'
  <2>1. CASE intact
    BY <1>1, <2>1 DEF LinkIInv, LinkInv, IntactInv
  <2>2. CASE Quiet
    <3>1. waited = 0 /\ pc = "look" /\ age \in Nat
      BY <2>2, LinkAssumption DEF LinkIInv, LinkInv, ScanInv, Quiet, TypeOK
    <3>2. QED BY <1>1, <3>1 DEF IntactInv
  <2>3. CASE ~intact /\ ~Quiet
    BY <1>1, <2>3 DEF IntactInv
  <2>4. QED BY <2>1, <2>2, <2>3
<1>7. QED BY <1>3, <1>4, <1>5, <1>6 DEF LinkIInv, LinkInv

\* A look copies what is in the buffer.
LEMMA ReadsBuf ==
  ASSUME LinkIInv, ReadBuf, Aligned',
         ring' \in Bytes, Len(ring') <= CAPACITY, pending' \in Bytes,
         due' \in Seq(Payloads), Len(due') <= MaxDue, intact' \in BOOLEAN, intact' => intact
  PROVE  LinkIInv'
<1>1. /\ waited \in 0 .. OUT + 1 /\ age \in 0 .. OUT + 1
      /\ intact => waited <= age
  BY DEF LinkIInv, LinkInv, TypeOK, IntactInv
<1>2. /\ 0 \in 0 .. OUT + 1 /\ Later(waited) \in 0 .. OUT + 1 /\ Later(age) \in 0 .. OUT + 1
      /\ waited <= age => Later(waited) <= Later(age)
  <2>1. waited \in 0 .. OUT + 1 /\ age \in 0 .. OUT + 1
    BY <1>1
  <2>2. /\ 0 \in 0 .. OUT + 1 /\ Later(waited) \in 0 .. OUT + 1
        /\ waited <= age => Later(waited) <= Later(age)
    BY <2>1, LaterIs
  <2>3. Later(age) \in 0 .. OUT + 1
    BY <2>1, LaterIs
  <2>4. QED BY <2>2, <2>3
<1>3. /\ buf' = ring' /\ boot' = boot /\ skip' = skip
      /\ ring' = <<>> => pc' = "look" /\ waited' = 0
      /\ ring' # <<>> => pc' = "scan" /\ waited' = Later(waited)
      /\ age' = IF intact' /\ ring' # <<>> THEN Later(age) ELSE 0
  BY DEF ReadBuf
<1>4. TypeOK'
  BY <1>2, <1>3 DEF LinkIInv, TypeOK
<1>5. ScanInv'
  BY <1>3 DEF ScanInv
<1>6. IntactInv'
  <2>1. IsPrefix(buf', ring')
    BY <1>3, PrefixOfItself
  <2>2. CASE ring' = <<>>
    BY <1>3, <2>1, <2>2 DEF IntactInv
  <2>3. CASE ring' # <<>>
    BY <1>1, <1>2, <1>3, <2>1, <2>3 DEF IntactInv
  <2>4. QED BY <2>2, <2>3
<1>7. QED BY <1>4, <1>5, <1>6 DEF LinkIInv, LinkInv

LEMMA LookLink ==
  ASSUME LinkIInv, Look PROVE LinkIInv'
<1>1. UNCHANGED <<ring, pending, due, intact>> /\ ReadBuf
  BY DEF Look
<1>2. /\ Aligned' /\ ring' \in Bytes /\ Len(ring') <= CAPACITY /\ pending' \in Bytes
      /\ due' \in Seq(Payloads) /\ Len(due') <= MaxDue /\ intact' \in BOOLEAN
      /\ intact' => intact
  BY <1>1 DEF LinkIInv, LinkInv, TypeOK, Aligned
<1>3. QED BY <1>1, <1>2, ReadsBuf

LEMMA PeriodicHandleLink ==
  ASSUME LinkIInv, PeriodicHandle PROVE LinkIInv'
<1>1. ReadBuf
  BY DEF PeriodicHandle
<1>2. /\ Aligned' /\ ring' \in Bytes /\ Len(ring') <= CAPACITY /\ pending' \in Bytes
      /\ due' \in Seq(Payloads) /\ Len(due') <= MaxDue /\ intact' \in BOOLEAN
      /\ intact' => intact
  <2>1. CASE TakeMessage
    BY <2>1, TakesMessage
  <2>2. CASE UNCHANGED <<ring, pending, due, intact>>
    BY <2>2 DEF LinkIInv, LinkInv, TypeOK, Aligned
  <2>3. QED BY <2>1, <2>2 DEF PeriodicHandle
<1>3. QED BY <1>1, <1>2, ReadsBuf

LEMMA DisturbLink ==
  ASSUME LinkIInv, Disturb PROVE LinkIInv'
<1>1. /\ due' = <<>> /\ intact' = FALSE /\ age' = 0 /\ boot' = boot
      /\ ring \in Bytes /\ Len(ring) <= CAPACITY /\ pending \in Bytes
      /\ <<>> \in Seq(Payloads) /\ Len(<<>>) <= MaxDue /\ 0 \in 0 .. OUT + 1
  BY LinkAssumption, EmptySeq DEF Disturb, LinkIInv, TypeOK
<1>2. Aligned' /\ IntactInv'
  BY <1>1 DEF Aligned, IntactInv
<1>3. CASE /\ pending # <<>> /\ pending' = Drop(pending, Part)
           /\ UNCHANGED <<ring, parser>>
  <2>1. pending' \in Bytes
    <3>1. Len(pending) \in Nat
      BY <1>1 DEF Bytes
    <3>2. Part \in 0 .. Len(pending)
      BY <3>1, LinkAssumption, LesserIs DEF Part
    <3>3. QED BY <1>1, <1>3, <3>2, DropIs
  <2>2. UNCHANGED <<ring, buf, pc, skip, waited>>
    BY <1>3 DEF parser
  <2>3. TypeOK'
    BY <1>1, <2>1, <2>2 DEF LinkIInv, TypeOK
  <2>4. ScanInv'
    BY <2>2 DEF LinkIInv, LinkInv, ScanInv, Valid, Plausible, HeadAt, Complete, Length
  <2>5. QED BY <1>2, <2>3, <2>4 DEF LinkIInv, LinkInv
<1>4. CASE /\ \E c \in Noise : ring' = Kept(ring \o c)
           /\ UNCHANGED pending
           /\ IF boot THEN ReadBuf ELSE UNCHANGED parser
  <2>1. PICK c \in Noise : ring' = Kept(ring \o c)
    BY <1>4
  <2>2. /\ c \in Bytes /\ ring \o c \in Bytes
        /\ ring # <<>> => ring \o c # <<>>
    <3>1. c \in Bytes
      BY LinkAssumption DEF Bytes
    <3>2. /\ ring \o c \in Bytes /\ Len(ring \o c) = Len(ring) + Len(c)
          /\ Len(ring) \in Nat /\ Len(c) \in Nat
      BY <1>1, <3>1, BytesConcat
    <3>3. ASSUME ring # <<>>, ring \o c = <<>> PROVE FALSE
      <4>1. Len(ring) \in Nat \ {0}
        BY <1>1, <3>3, EmptySeq DEF Bytes
      <4>2. Len(ring \o c) = 0
        BY <3>3, EmptyBytes
      <4>3. QED BY <3>2, <4>1, <4>2
    <3>4. QED BY <3>1, <3>2, <3>3
  <2>3. ring' \in Bytes /\ Len(ring') <= CAPACITY /\ (ring # <<>> => ring' # <<>>)
    BY <2>1, <2>2, KeptIs
  <2>4. CASE boot
    <3>1. pending' = pending /\ ReadBuf
      BY <1>4, <2>4
    <3>2. QED BY <1>1, <1>2, <2>3, <3>1, ReadsBuf
  <2>5. CASE ~boot
    <3>1. UNCHANGED <<pending, buf, pc, skip, waited>>
      BY <1>4, <2>5 DEF parser
    <3>2. TypeOK'
      BY <1>1, <2>3, <3>1 DEF LinkIInv, TypeOK
    <3>3. ScanInv'
      BY <2>3, <3>1 DEF LinkIInv, LinkInv, ScanInv, Valid, Plausible, HeadAt, Complete, Length
    <3>4. QED BY <1>2, <3>2, <3>3 DEF LinkIInv, LinkInv
  <2>6. QED BY <2>4, <2>5
<1>5. QED BY <1>3, <1>4 DEF Disturb

LEMMA AcceptLink ==
  ASSUME LinkIInv, Accept PROVE LinkIInv'
<1>1. /\ pc = "scan" /\ Outcome(buf) = "accept" /\ pc' = "delete" /\ skip' = Skipped(buf)
      /\ UNCHANGED <<boot, ring, buf, waited, pending, due, intact, age>>
  BY DEF Accept, history
<1>2. TypeOK'
  <2>1. Skipped(buf) \in 0 .. CAPACITY
    BY <1>1, SkippedIsNumber DEF LinkIInv, LinkInv
  <2>2. QED BY <1>1, <2>1 DEF LinkIInv, TypeOK
<1>3. Aligned'
  BY <1>1 DEF LinkIInv, LinkInv, Aligned
<1>4. ScanInv'
  <2>1. Valid(buf, Skipped(buf))
    BY <1>1 DEF Outcome
  <2>2. Valid(buf, skip)'
    BY <1>1, <2>1 DEF Valid, Plausible, HeadAt, Complete, Length
  <2>3. buf # <<>> /\ ring # <<>>
    BY <1>1 DEF LinkIInv, LinkInv, ScanInv
  <2>4. QED BY <1>1, <2>2, <2>3 DEF ScanInv
<1>5. IntactInv'
  <2> SUFFICES ASSUME intact PROVE IntactInv'
    BY <1>1 DEF IntactInv
  <2>1. Skipped(buf) = 0
    <3>1. /\ Head(due) \in Payloads /\ Stream(Tail(due)) \in Bytes
          /\ buf \in Bytes /\ buf # <<>>
          /\ IsPrefix(buf, Frame(Head(due)) \o Stream(Tail(due)))
      BY <1>1, LooksAtOldest DEF LinkIInv
    <3>2. QED BY <1>1, <3>1, FrameIsFound
  <2>2. IsPrefix(buf, ring) /\ waited <= age
    BY <1>1 DEF LinkIInv, LinkInv, IntactInv
  <2>3. QED BY <1>1, <2>1, <2>2 DEF IntactInv
<1>6. QED BY <1>2, <1>3, <1>4, <1>5 DEF LinkIInv, LinkInv

LEMMA DeleteLink ==
  ASSUME LinkIInv, Delete PROVE LinkIInv'
<1> DEFINE n == skip + Length(buf, skip)
<1>1. /\ pc = "delete" /\ pc' = "look"
      /\ ring' = Drop(ring, Lesser(Len(ring), n))
      /\ waited' = 0 /\ age' = 0 /\ buf' = <<>> /\ skip' = 0
      /\ due' = IF intact THEN Tail(due) ELSE due
      /\ UNCHANGED <<boot, pending, intact>>
  BY DEF Delete
<1>2. /\ n \in Nat /\ n <= Len(buf) /\ Lesser(Len(ring), n) \in 0 .. Len(ring)
  BY <1>1, AcceptedIsThere DEF LinkIInv, LinkInv
<1> HIDE DEF n
<1>3. /\ ring \in Bytes /\ Len(ring) \in Nat /\ Len(ring) <= CAPACITY /\ pending \in Bytes
      /\ buf \in Bytes /\ Len(buf) \in Nat
      /\ due \in Seq(Payloads) /\ Len(due) \in Nat /\ Len(due) <= MaxDue /\ MaxDue \in Nat
      /\ CAPACITY \in Nat
  BY LinkAssumption DEF LinkIInv, TypeOK, Bytes
<1>4. ring' \in Bytes /\ Len(ring') <= CAPACITY
  <2>1. ring' \in Bytes /\ Len(ring') = Len(ring) - Lesser(Len(ring), n)
    BY <1>1, <1>2, <1>3, DropIs
  <2>2. QED BY <1>2, <1>3, <2>1
<1>5. ASSUME intact PROVE Aligned' /\ due' \in Seq(Payloads) /\ Len(due') <= MaxDue
  <2>1. /\ Head(due) \in Payloads /\ Tail(due) \in Seq(Payloads)
        /\ buf # <<>> /\ Stream(Tail(due)) \in Bytes
        /\ IsPrefix(buf, Frame(Head(due)) \o Stream(Tail(due)))
    BY <1>1, <1>5, LooksAtOldest DEF LinkIInv
  <2>2. skip = 0 /\ Valid(buf, skip) /\ IsPrefix(buf, ring) /\ ring # <<>>
    BY <1>1, <1>5 DEF LinkIInv, LinkInv, ScanInv, IntactInv
  <2>3. n = Len(Frame(Head(due)))
    <3>1. Length(buf, 0) = Len(Frame(Head(due)))
      BY <1>3, <2>1, <2>2, FrameIsFound
    <3>2. Len(Frame(Head(due))) \in Nat
      BY <2>1, FrameBytes, PayloadBytes
    <3>3. QED BY <2>2, <3>1, <3>2 DEF n
  <2>4. Lesser(Len(ring), n) = n /\ n <= Len(ring)
    <3>1. Len(buf) <= Len(ring)
      BY <2>2 DEF IsPrefix
    <3>2. n <= Len(ring)
      BY <1>2, <1>3, <3>1
    <3>3. QED BY <1>2, <1>3, <3>2, LesserIs
  <2>5. /\ due # <<>>
        /\ ring \o pending = Frame(Head(due)) \o Stream(Tail(due))
    BY <1>5, <2>2, OldestComesFirst DEF LinkIInv, LinkInv
  <2>6. ring' \o pending' = Stream(due')
    <3>1. Frame(Head(due)) \in Bytes
      BY <2>1, FrameBytes
    <3>2. Drop(ring, n) \o pending = Stream(Tail(due))
      BY <1>3, <2>1, <2>3, <2>4, <2>5, <3>1, DropFront
    <3>3. QED BY <1>1, <1>5, <2>4, <3>2
  <2>7. due' \in Seq(Payloads) /\ Len(due') <= MaxDue
    <3>1. Len(Tail(due)) = Len(due) - 1
      BY <1>3, <2>5, HeadTailProperties
    <3>2. QED BY <1>1, <1>3, <1>5, <2>1, <3>1
  <2>8. Aligned'
    BY <2>6 DEF Aligned, Stream, Frames
  <2>9. QED BY <2>7, <2>8
<1>6. Aligned' /\ due' \in Seq(Payloads) /\ Len(due') <= MaxDue
  <2>1. CASE ~intact
    BY <1>1, <1>3, <2>1 DEF Aligned
  <2>2. QED BY <1>5, <2>1
<1>7. 0 \in 0 .. OUT + 1
  BY LinkAssumption
<1>8. TypeOK'
  BY <1>1, <1>4, <1>6, <1>7, EmptyBytes DEF LinkIInv, TypeOK
<1>9. ScanInv' /\ IntactInv'
  BY <1>1 DEF ScanInv, IntactInv
<1>10. QED BY <1>6, <1>8, <1>9 DEF LinkIInv, LinkInv

LEMMA RejectLink ==
  ASSUME LinkIInv, Reject PROVE LinkIInv'
<1>1. /\ pc = "scan" /\ pc' = "look"
      /\ ring' = Drop(ring, Lesser(Len(ring), Skipped(buf)))
      /\ waited' = 0 /\ age' = 0 /\ due' = <<>> /\ intact' = FALSE /\ buf' = <<>>
      /\ UNCHANGED <<boot, skip, pending>>
  BY DEF Reject
<1>2. Lesser(Len(ring), Skipped(buf)) \in 0 .. Len(ring)
  BY <1>1, SkippedIsNumber DEF LinkIInv, LinkInv
<1>3. ring' \in Bytes /\ Len(ring') <= CAPACITY
  <2>1. /\ ring \in Bytes /\ Len(ring) \in Nat /\ Len(ring) <= CAPACITY /\ CAPACITY \in Nat
    BY LinkAssumption DEF LinkIInv, TypeOK, Bytes
  <2>2. ring' \in Bytes /\ Len(ring') = Len(ring) - Lesser(Len(ring), Skipped(buf))
    BY <1>1, <1>2, <2>1, DropIs
  <2>3. QED BY <1>2, <2>1, <2>2
<1>4. <<>> \in Seq(Payloads) /\ Len(<<>>) <= MaxDue /\ 0 \in 0 .. OUT + 1
  BY LinkAssumption, EmptySeq
<1>5. TypeOK'
  BY <1>1, <1>3, <1>4, EmptyBytes DEF LinkIInv, TypeOK
<1>6. Aligned' /\ ScanInv' /\ IntactInv'
  BY <1>1 DEF Aligned, ScanInv, IntactInv
<1>7. QED BY <1>5, <1>6 DEF LinkIInv, LinkInv

LEMMA WaitLink ==
  ASSUME LinkIInv, Wait PROVE LinkIInv'
<1>1. /\ pc = "scan" /\ pc' = "look" /\ buf' = <<>>
      /\ UNCHANGED <<boot, ring, skip, waited, pending, due, intact, age>>
  BY DEF Wait, history
<1>2. TypeOK'
  BY <1>1, EmptyBytes DEF LinkIInv, TypeOK
<1>3. Aligned' /\ ScanInv' /\ IntactInv'
  BY <1>1 DEF LinkIInv, LinkInv, Aligned, ScanInv, IntactInv
<1>4. QED BY <1>2, <1>3 DEF LinkIInv, LinkInv

LEMMA TimeOutLink ==
  ASSUME LinkIInv, TimeOut PROVE LinkIInv'
<1>1. /\ pc' = "look" /\ ring' = <<>> /\ waited' = 0 /\ age' = 0
      /\ due' = <<>> /\ intact' = FALSE /\ buf' = <<>>
      /\ UNCHANGED <<boot, skip, pending>>
  BY DEF TimeOut
<1>2. <<>> \in Seq(Payloads) /\ Len(<<>>) <= MaxDue /\ 0 \in 0 .. OUT + 1
  BY LinkAssumption, EmptySeq
<1>3. TypeOK'
  BY <1>1, <1>2, EmptyBytes DEF LinkIInv, TypeOK
<1>4. Aligned' /\ ScanInv' /\ IntactInv'
  BY <1>1 DEF Aligned, ScanInv, IntactInv
<1>5. QED BY <1>3, <1>4 DEF LinkIInv, LinkInv

LEMMA BootTimeOutLink ==
  ASSUME LinkIInv, BootTimeOut PROVE LinkIInv'
<1>1. /\ pc = "scan" /\ pc' = "look" /\ waited' = 0 /\ buf' = <<>>
      /\ UNCHANGED <<boot, ring, skip>>
      /\ IF pending' = pending THEN UNCHANGED <<due, intact, age>>
                               ELSE due' = <<>> /\ intact' = FALSE /\ age' = 0
  BY DEF BootTimeOut, history
<1>2. pending' \in Bytes
  <2>1. /\ pending \in Bytes /\ Len(pending) \in Nat /\ CHUNK \in Nat
    BY LinkAssumption DEF LinkIInv, TypeOK, Bytes
  <2>2. PICK n \in 0 .. Len(pending) : pending' = Drop(pending, Lesser(n * CHUNK, Len(pending)))
    BY DEF BootTimeOut
  <2>3. n * CHUNK \in Nat
    BY <2>1
  <2>4. Lesser(n * CHUNK, Len(pending)) \in 0 .. Len(pending)
    BY <2>1, <2>3, LesserIs
  <2>5. QED BY <2>1, <2>2, <2>4, DropIs
<1>3. <<>> \in Seq(Payloads) /\ Len(<<>>) <= MaxDue /\ 0 \in 0 .. OUT + 1
  BY LinkAssumption, EmptySeq
<1>4. TypeOK'
  BY <1>1, <1>2, <1>3, EmptyBytes DEF LinkIInv, TypeOK
<1>5. Aligned'
  BY <1>1 DEF LinkIInv, LinkInv, Aligned
<1>6. ScanInv'
  BY <1>1 DEF LinkIInv, LinkInv, ScanInv
<1>7. IntactInv'
  <2>1. age \in Nat
    BY LinkAssumption DEF LinkIInv, TypeOK
  <2>2. intact' => age' = age
    BY <1>1
  <2>3. 0 <= age
    BY <2>1
  <2>4. QED BY <1>1, <2>2, <2>3 DEF IntactInv
<1>8. QED BY <1>4, <1>5, <1>6, <1>7 DEF LinkIInv, LinkInv

LEMMA GoAstrayLink ==
  ASSUME LinkIInv, GoAstray PROVE LinkIInv'
<1>1. /\ pc = "scan" /\ buf' = <<>> /\ UNCHANGED <<boot, skip, pending>>
  BY DEF GoAstray
<1>2. CASE /\ pc' = "look" /\ waited' = 0 /\ age' = 0
           /\ \E n \in Skipped(buf) .. CAPACITY : ring' = Drop(ring, Lesser(Len(ring), n))
           /\ due' = <<>> /\ intact' = FALSE
  <2>1. /\ ring \in Bytes /\ Len(ring) \in Nat /\ Len(ring) <= CAPACITY /\ CAPACITY \in Nat
        /\ Skipped(buf) \in Nat
    BY <1>1, SkippedIsNumber, LinkAssumption DEF LinkIInv, LinkInv, TypeOK, Bytes
  <2>2. PICK n \in Skipped(buf) .. CAPACITY : ring' = Drop(ring, Lesser(Len(ring), n))
    BY <1>2
  <2>3. Lesser(Len(ring), n) \in 0 .. Len(ring)
    BY <2>1, LesserIs
  <2>4. ring' \in Bytes /\ Len(ring') = Len(ring) - Lesser(Len(ring), n)
    BY <2>1, <2>2, <2>3, DropIs
  <2>5. Len(ring') <= CAPACITY
    BY <2>1, <2>3, <2>4
  <2>6. <<>> \in Seq(Payloads) /\ Len(<<>>) <= MaxDue /\ 0 \in 0 .. OUT + 1
    BY LinkAssumption, EmptySeq
  <2>7. TypeOK'
    BY <1>1, <1>2, <2>4, <2>5, <2>6, EmptyBytes DEF LinkIInv, TypeOK
  <2>8. Aligned' /\ ScanInv' /\ IntactInv'
    BY <1>2 DEF Aligned, ScanInv, IntactInv
  <2>9. QED BY <2>7, <2>8 DEF LinkIInv, LinkInv
<1>3. CASE pc' = "fault" /\ UNCHANGED <<ring, waited, history>>
  <2>1. UNCHANGED <<due, intact, age>>
    BY <1>3 DEF history
  <2>2. TypeOK'
    BY <1>1, <1>3, <2>1, EmptyBytes DEF LinkIInv, TypeOK
  <2>3. Aligned' /\ ScanInv' /\ IntactInv'
    BY <1>1, <1>3, <2>1 DEF LinkIInv, LinkInv, Aligned, ScanInv, IntactInv
  <2>4. QED BY <2>2, <2>3 DEF LinkIInv, LinkInv
<1>4. QED BY <1>2, <1>3 DEF GoAstray

LEMMA NextLink ==
  LinkIInv /\ [Next]_vars => LinkIInv'
<1> SUFFICES ASSUME LinkIInv, [Next]_vars PROVE LinkIInv'
  OBVIOUS
<1>1. CASE UNCHANGED vars
  BY <1>1 DEF vars, parser, history, LinkIInv, TypeOK, LinkInv, Aligned, ScanInv, IntactInv,
              Valid, Plausible, HeadAt, Complete, Length
<1>2. CASE HostStep
  BY <1>2, DisturbLink, SendLink DEF HostStep
<1>3. CASE ParserStep
  BY <1>3, LookLink, PeriodicHandleLink, AcceptLink, DeleteLink, RejectLink, WaitLink,
     TimeOutLink, BootTimeOutLink, GoAstrayLink DEF ParserStep
<1>4. CASE Arrive
  BY <1>4, ArriveLink
<1>5. QED BY <1>1, <1>2, <1>3, <1>4 DEF Next

----------------------------------------------------------------------------
(* What follows *)

\* Every variable keeps its type, and the invariant that explains the others
\* holds: of undisturbed frames the parser has the first bytes of the buffer and
\* skips none, and the time-out has run no longer than the oldest of them is
\* there (can500_protocol_anylise, protocol_anylise_process).
THEOREM LinkInvariant == Spec => [](TypeOK /\ LinkInv)
<1>1. Spec => []LinkIInv
  BY InitLink, NextLink, PTL DEF Spec
<1>2. QED BY <1>1 DEF LinkIInv

THEOREM LinkTypes == Spec => []TypeOK
BY LinkInvariant, PTL

\* However messages, polls and the handler interleave, and whatever was received
\* and lost before: from the first frame that finds the buffer empty on, and for
\* as long as nothing is lost and no other node comes in between, the bytes in
\* CAN_BUF500 and on their way are the frames not yet delivered, byte for byte.
THEOREM FramesAligned == Spec => []Aligned
<1>1. LinkInv => Aligned
  BY DEF LinkInv
<1>2. QED BY <1>1, LinkInvariant, PTL

\* The handler gets the oldest of the undisturbed frames, whole.
THEOREM OldestDelivered == Spec => []DeliversOldest
<1>1. TypeOK /\ LinkInv => DeliversOldest
  <2> SUFFICES ASSUME TypeOK, LinkInv, pc = "delete", intact
               PROVE  SubSeq(buf, skip + 1, skip + Length(buf, skip)) = Frame(Head(due))
    BY DEF DeliversOldest
  <2>1. /\ Head(due) \in Payloads /\ buf \in Bytes /\ buf # <<>>
        /\ Stream(Tail(due)) \in Bytes
        /\ IsPrefix(buf, Frame(Head(due)) \o Stream(Tail(due)))
    BY LooksAtOldest
  <2>2. skip = 0 /\ Valid(buf, skip)
    BY DEF LinkInv, ScanInv, IntactInv
  <2>3. Length(buf, 0) \in Nat /\ SubSeq(buf, 1, Length(buf, 0)) = Frame(Head(due))
    BY <2>1, <2>2, FrameIsFound, ValidFits
  <2>4. skip + 1 = 1 /\ skip + Length(buf, skip) = Length(buf, 0)
    BY <2>2, <2>3
  <2>5. QED BY <2>3, <2>4, Zenon
<1>2. QED BY <1>1, LinkInvariant, PTL

\* Undisturbed frames are never rejected, and the time-out clears them only when
\* the oldest of them, by itself, has been in the buffer for all of it.
THEOREM OnlySlowCleared == Spec => ClearsOnlySlow
<1> DEFINE A == intact /\ ~intact' /\ (Reject \/ TimeOut \/ BootTimeOut) => ~Reject /\ age > OUT
<1>1. TypeOK /\ LinkInv /\ [Next]_vars => [A]_vars
  <2> SUFFICES ASSUME TypeOK, LinkInv, intact, Reject \/ TimeOut \/ BootTimeOut
               PROVE  ~Reject /\ age > OUT
    OBVIOUS
  <2>1. pc = "scan"
    BY DEF Reject, TimeOut, BootTimeOut
  <2>2. ~Reject
    <3>1. /\ Head(due) \in Payloads /\ buf \in Bytes /\ buf # <<>>
          /\ Stream(Tail(due)) \in Bytes
          /\ IsPrefix(buf, Frame(Head(due)) \o Stream(Tail(due)))
      BY <2>1, LooksAtOldest
    <3>2. Outcome(buf) \in {"accept", "wait"}
      BY <3>1, FrameIsFound
    <3>3. QED BY <3>2 DEF Reject
  <2>3. waited > OUT
    BY <2>2 DEF TimeOut, BootTimeOut
  <2>4. waited <= age /\ waited \in Nat /\ age \in Nat /\ OUT \in Nat
    BY LinkAssumption DEF TypeOK, LinkInv, IntactInv
  <2>5. QED BY <2>2, <2>3, <2>4
<1> HIDE DEF A
<1>2. Spec => [][A]_vars
  BY <1>1, LinkInvariant, PTL DEF Spec
<1>3. QED BY <1>2 DEF A, ClearsOnlySlow
=============================================================================
