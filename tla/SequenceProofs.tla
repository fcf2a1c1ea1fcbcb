---------------------------- MODULE SequenceProofs ----------------------------
(***************************************************************************)
(* Induction over numbers and sequences, the functions defined by           *)
(* recursion over them, and what the operators of Arrays compute.           *)
(***************************************************************************)
EXTENDS Arrays, WellFoundedInduction, TLAPS

-----------------------------------------------------------------------------
(* Sequences.                                                              *)

\* A function on 1 .. n is a sequence.
LEMMA FunctionIsSeq ==
    ASSUME NEW T, NEW n \in Nat, NEW f \in [1 .. n -> T]
    PROVE  f \in Seq(T) /\ Len(f) = n
  OBVIOUS

\* A sequence is a function on 1 .. Len.
LEMMA SeqIsFunction ==
    ASSUME NEW T, NEW s \in Seq(T)
    PROVE  Len(s) \in Nat /\ DOMAIN s = 1 .. Len(s) /\ \A i \in 1 .. Len(s) : s[i] \in T
  OBVIOUS

\* One element is a sequence.
LEMMA OneElement ==
    ASSUME NEW T, NEW x \in T
    PROVE  <<x>> \in Seq(T)
  OBVIOUS

\* The elements of a concatenation.
LEMMA ConcatElement ==
    ASSUME NEW S, NEW s \in Seq(S), NEW t \in Seq(S)
    PROVE  /\ s \o t \in Seq(S) /\ Len(s \o t) = Len(s) + Len(t)
           /\ \A i \in 1 .. Len(s) : (s \o t)[i] = s[i]
           /\ \A i \in Len(s) + 1 .. Len(s) + Len(t) : (s \o t)[i] = t[i - Len(s)]
  OBVIOUS

\* A sequence that is not empty ends with an element.
LEMMA HasLast ==
    ASSUME NEW T, NEW s \in Seq(T), s # <<>>
    PROVE  \E t \in Seq(T), e \in T : s = Append(t, e) /\ Len(s) = Len(t) + 1
  <1> DEFINE n == Len(s)
             t == [i \in 1 .. n - 1 |-> s[i]]
             u == Append(t, s[n])
  <1>1. n \in Nat /\ n # 0 /\ s[n] \in T
    OBVIOUS
  <1>2. t \in Seq(T) /\ Len(t) = n - 1
    OBVIOUS
  <1>3. u \in Seq(T) /\ Len(u) = n /\ \A i \in 1 .. n : u[i] = s[i]
    BY <1>1, <1>2
  <1>4. s = u
    BY <1>3
  <1>5. Len(s) = Len(t) + 1
    BY <1>1, <1>2
  <1> HIDE DEF t
  <1> QED
    BY <1>1, <1>2, <1>4, <1>5, Zenon

-----------------------------------------------------------------------------
(* Induction.                                                              *)

\* A set of natural numbers has a least element.
LEMMA LeastElement ==
    ASSUME NEW T \in SUBSET Nat, T # {}
    PROVE  \E x \in T : \A y \in T : x <= y
  <1> DEFINE R == OpToRel(<, Nat)
  <1>1. IsWellFoundedOn(R, Nat)
    BY NatLessThanWellFounded, Zenon
  <1>2. \A x, y \in Nat : x < y => <<x, y>> \in R
    BY DEF OpToRel
  <1> HIDE DEF R
  <1>3. PICK x \in T : \A y \in T : <<y, x>> \notin R
    BY <1>1, WFMin, Zenon
  <1>4. \A y \in T : ~ (y < x)
    BY <1>2, <1>3, Zenon
  <1>5. \A y \in T : x <= y
    BY <1>4
  <1> QED
    BY <1>5, Zenon

\* A set that holds 0, and n + 1 with every n, holds all natural numbers.
LEMMA SetInduction ==
    ASSUME NEW S, 0 \in S, \A n \in Nat : n \in S => n + 1 \in S
    PROVE  Nat \subseteq S
  <1> DEFINE T == {n \in Nat : n \notin S}
  <1> SUFFICES ASSUME T # {} PROVE FALSE
    OBVIOUS
  <1>1. PICK x \in T : \A y \in T : x <= y
    <2>1. T \in SUBSET Nat
      OBVIOUS
    <2> HIDE DEF T
    <2> QED
      BY <2>1, LeastElement, Zenon
  <1>2. x - 1 \in Nat /\ x - 1 \in S /\ (x - 1) + 1 = x
    BY <1>1
  <1> QED
    BY <1>2

\* The same for the numbers from m up to n.
LEMMA IntervalInduction ==
    ASSUME NEW S, NEW m \in Int, NEW n \in Int, m <= n => m \in S,
           \A i \in m .. n - 1 : i \in S => i + 1 \in S
    PROVE  m .. n \subseteq S
  <1> DEFINE P == {k \in Nat : m + k <= n => m + k \in S}
  <1>1. 0 \in P
    OBVIOUS
  <1>2. \A k \in Nat : k \in P => k + 1 \in P
    <2> SUFFICES ASSUME NEW k \in Nat, k \in P, m + (k + 1) <= n
                 PROVE  m + (k + 1) \in S
      OBVIOUS
    <2>1. m + k \in m .. n - 1 /\ m + k \in S /\ (m + k) + 1 = m + (k + 1)
      OBVIOUS
    <2> QED
      BY <2>1
  <1>3. Nat \subseteq P
    <2> HIDE DEF P
    <2> QED
      BY <1>1, <1>2, SetInduction, Zenon
  <1> SUFFICES ASSUME NEW i \in m .. n PROVE i \in S
    OBVIOUS
  <1>4. i - m \in P /\ m + (i - m) = i
    BY <1>3
  <1> QED
    BY <1>4

\* Downwards.
LEMMA DownInduction ==
    ASSUME NEW S, NEW m \in Int, NEW n \in Int, m <= n => n \in S,
           \A i \in m + 1 .. n : i \in S => i - 1 \in S
    PROVE  m .. n \subseteq S
  <1> DEFINE P == {k \in Nat : n - k >= m => n - k \in S}
  <1>1. 0 \in P
    OBVIOUS
  <1>2. \A k \in Nat : k \in P => k + 1 \in P
    <2> SUFFICES ASSUME NEW k \in Nat, k \in P, n - (k + 1) >= m
                 PROVE  n - (k + 1) \in S
      OBVIOUS
    <2>1. n - k \in m + 1 .. n /\ n - k \in S /\ (n - k) - 1 = n - (k + 1)
      OBVIOUS
    <2> QED
      BY <2>1
  <1>3. Nat \subseteq P
    <2> HIDE DEF P
    <2> QED
      BY <1>1, <1>2, SetInduction, Zenon
  <1> SUFFICES ASSUME NEW i \in m .. n PROVE i \in S
    OBVIOUS
  <1>4. n - i \in Nat /\ n - (n - i) = i
    OBVIOUS
  <1>5. n - (n - i) >= m => n - (n - i) \in S
    BY <1>3, <1>4, Zenon
  <1> QED
    BY <1>4, <1>5

\* Min is the least element.
LEMMA MinIsLeast ==
    ASSUME NEW T \in SUBSET Nat, T # {}
    PROVE  Min(T) \in T /\ \A y \in T : Min(T) <= y
  BY LeastElement, Zenon DEF Min

\* Max is the greatest element.
LEMMA MaxIsGreatest ==
    ASSUME NEW n \in Nat, NEW T \in SUBSET (0 .. n), T # {}
    PROVE  Max(T) \in T /\ \A y \in T : y <= Max(T)
  <1> DEFINE U == {n - y : y \in T}
  <1>1. U \in SUBSET Nat /\ U # {}
    OBVIOUS
  <1>2. PICK u \in U : \A v \in U : u <= v
    <2> HIDE DEF U
    <2> QED
      BY <1>1, LeastElement, Zenon
  <1>3. \E x \in T : \A y \in T : x >= y
    <2>1. PICK x \in T : u = n - x
      BY <1>2
    <2>2. ASSUME NEW y \in T PROVE x >= y
      <3>1. n - x <= n - y
        BY <1>2, <2>1, Zenon
      <3> QED
        BY <3>1
    <2> QED
      BY <2>2, Zenon
  <1>4. Max(T) \in T /\ \A y \in T : Max(T) >= y
    BY <1>3, Zenon DEF Max
  <1> QED
    BY <1>4

-----------------------------------------------------------------------------

\* The value of f at i is computed from that at i - 1.
IsForward(f, n, base, step) ==
    /\ f = [i \in 1 .. n |-> f[i]]
    /\ \A i \in 1 .. n : f[i] = IF i = 1 THEN base ELSE step[i][f[i - 1]]

\* There is such a function.
LEMMA ForwardFunction ==
    ASSUME NEW n \in Nat, NEW base, NEW step
    PROVE  \E f : IsForward(f, n, base, step)
  <1> DEFINE G(f, i) == IF i = 1 THEN base ELSE step[i][f[i - 1]]
  <1>1. \A f, g, i : (i # 1 => f[i - 1] = g[i - 1]) => G(f, i) = G(g, i)
    BY Zenon
  <1> HIDE DEF G
  <1> DEFINE Upto(f, k) == /\ f = [i \in 1 .. n |-> f[i]]
                           /\ \A i \in 1 .. n : i <= k => f[i] = G(f, i)
             P == {k \in Nat : \E f : Upto(f, k)}
  <1>2. 0 \in P
    <2> DEFINE f == [i \in 1 .. n |-> 0]
    <2>1. f = [i \in 1 .. n |-> f[i]]
      BY Zenon
    <2>2. \A i \in 1 .. n : ~ (i <= 0)
      OBVIOUS
    <2> HIDE DEF f
    <2>3. Upto(f, 0)
      BY <2>1, <2>2, Zenon
    <2> QED
      BY <2>3, Zenon
  <1>3. \A k \in Nat : k \in P => k + 1 \in P
    <2> SUFFICES ASSUME NEW k \in Nat, NEW f, Upto(f, k) PROVE \E g : Upto(g, k + 1)
      <3>1. \A k \in Nat : k + 1 \in Nat
        OBVIOUS
      <3> HIDE DEF Upto
      <3> QED
        BY <3>1, Zenon
    <2> DEFINE g == [i \in 1 .. n |-> IF i = k + 1 THEN G(f, i) ELSE f[i]]
    <2>1. g = [i \in 1 .. n |-> g[i]]
      BY Zenon
    <2>2. \A i \in 1 .. n : g[i] = IF i = k + 1 THEN G(f, i) ELSE f[i]
      BY Zenon
    <2> HIDE DEF g
    <2>3. ASSUME NEW i \in 1 .. n, i <= k + 1 PROVE g[i] = G(g, i)
      <3>1. i = k + 1 \/ (i <= k)
        BY <2>3
      <3>2. g[i] = G(f, i)
        BY <2>2, <3>1, Zenon
      <3>3. i # 1 => i - 1 \in 1 .. n /\ ~ (i - 1 = k + 1)
        BY <2>3
      <3>4. i # 1 => g[i - 1] = f[i - 1]
        BY <2>2, <3>3, Zenon
      <3>5. G(g, i) = G(f, i)
        BY <1>1, <3>4
      <3> QED
        BY <3>2, <3>5, Zenon
    <2> QED
      BY <2>1, <2>3, Zenon
  <1>4. Nat \subseteq P
    <2> HIDE DEF P
    <2> QED
      BY <1>2, <1>3, SetInduction, Zenon
  <1>5. PICK f : Upto(f, n)
    BY <1>4, Zenon
  <1>6. \A i \in 1 .. n : i <= n
    OBVIOUS
  <1>7. f = [i \in 1 .. n |-> f[i]] /\ \A i \in 1 .. n : f[i] = G(f, i)
    BY <1>5, <1>6, Zenon
  <1> QED
    BY <1>7, Zenon DEF G, IsForward

\* The value of f at i is computed from that at a later place or at none.
IsChain(f, n, base, head, next) ==
    /\ f = [i \in 1 .. n |-> f[i]]
    /\ \A i \in 1 .. n :
          f[i] = IF next[i] = 0 THEN base[i] ELSE head[i] \o f[next[i]]

\* There is such a function.
LEMMA ChainFunction ==
    ASSUME NEW n \in Nat, NEW base, NEW head, NEW next,
           \A i \in 1 .. n : next[i] # 0 => next[i] \in i + 1 .. n
    PROVE  \E f : IsChain(f, n, base, head, next)
  <1> DEFINE G(f, i) == IF next[i] = 0 THEN base[i] ELSE head[i] \o f[next[i]]
  <1>1. \A f, g, i : (next[i] # 0 => f[next[i]] = g[next[i]]) => G(f, i) = G(g, i)
    BY Zenon
  <1> HIDE DEF G
  <1> DEFINE Upto(f, k) == /\ f = [i \in 1 .. n |-> f[i]]
                           /\ \A i \in 1 .. n : i + k > n => f[i] = G(f, i)
             P == {k \in Nat : \E f : Upto(f, k)}
  <1>2. 0 \in P
    <2> DEFINE f == [i \in 1 .. n |-> 0]
    <2>1. f = [i \in 1 .. n |-> f[i]]
      BY Zenon
    <2>2. \A i \in 1 .. n : ~ (i + 0 > n)
      OBVIOUS
    <2> HIDE DEF f
    <2>3. Upto(f, 0)
      BY <2>1, <2>2, Zenon
    <2> QED
      BY <2>3, Zenon
  <1>3. \A k \in Nat : k \in P => k + 1 \in P
    <2> SUFFICES ASSUME NEW k \in Nat, NEW f, Upto(f, k) PROVE \E g : Upto(g, k + 1)
      <3>1. \A k \in Nat : k + 1 \in Nat
        OBVIOUS
      <3> HIDE DEF Upto
      <3> QED
        BY <3>1, Zenon
    <2> DEFINE g == [i \in 1 .. n |-> IF i + k = n THEN G(f, i) ELSE f[i]]
    <2>1. g = [i \in 1 .. n |-> g[i]]
      BY Zenon
    <2>2. \A i \in 1 .. n : g[i] = IF i + k = n THEN G(f, i) ELSE f[i]
      BY Zenon
    <2> HIDE DEF g
    <2>3. ASSUME NEW i \in 1 .. n, i + (k + 1) > n PROVE g[i] = G(g, i)
      <3>1. i + k = n \/ (i + k > n)
        BY <2>3
      <3>2. g[i] = G(f, i)
        BY <2>2, <3>1, Zenon
      <3>3. next[i] # 0 => next[i] \in 1 .. n /\ ~ (next[i] + k = n)
        BY <2>3
      <3>4. next[i] # 0 => g[next[i]] = f[next[i]]
        BY <2>2, <3>3, Zenon
      <3>5. G(g, i) = G(f, i)
        BY <1>1, <3>4
      <3> QED
        BY <3>2, <3>5, Zenon
    <2> QED
      BY <2>1, <2>3, Zenon
  <1>4. Nat \subseteq P
    <2> HIDE DEF P
    <2> QED
      BY <1>2, <1>3, SetInduction, Zenon
  <1>5. PICK f : Upto(f, n)
    BY <1>4, Zenon
  <1>6. \A i \in 1 .. n : i + n > n
    OBVIOUS
  <1>7. f = [i \in 1 .. n |-> f[i]] /\ \A i \in 1 .. n : f[i] = G(f, i)
    BY <1>5, <1>6, Zenon
  <1> QED
    BY <1>7, Zenon DEF G, IsChain

\* What holds at the ends of chains, and at i if it holds at the next one,
\* holds everywhere.
LEMMA ChainInduction ==
    ASSUME NEW n \in Nat, NEW next, NEW P,
           \A i \in 1 .. n : next[i] # 0 => next[i] \in i + 1 .. n,
           \A i \in 1 .. n : (next[i] = 0 \/ next[i] \in P) => i \in P
    PROVE  1 .. n \subseteq P
  <1> DEFINE S == {i \in 1 .. n : \A j \in i .. n : j \in P}
  <1>1. ASSUME NEW i \in 1 .. n, \A j \in i + 1 .. n : j \in P PROVE i \in P
    BY <1>1, Zenon
  <1>2. 1 <= n => n \in S
    <2> SUFFICES ASSUME 1 <= n PROVE n \in P
      OBVIOUS
    <2>1. n \in 1 .. n /\ \A j \in n + 1 .. n : FALSE
      OBVIOUS
    <2> QED
      BY <1>1, <2>1, Zenon
  <1>3. ASSUME NEW i \in 1 + 1 .. n, i \in S PROVE i - 1 \in S
    <2>1. /\ i - 1 \in 1 .. n /\ (i - 1) + 1 = i
          /\ \A j \in i - 1 .. n : j = i - 1 \/ j \in i .. n
      OBVIOUS
    <2>2. i - 1 \in P
      BY <1>1, <1>3, <2>1
    <2> QED
      BY <1>3, <2>1, <2>2, Zenon
  <1>4. 1 .. n \subseteq S
    <2>1. 1 \in Int /\ n \in Int
      OBVIOUS
    <2> HIDE DEF S
    <2> QED
      BY <1>2, <1>3, <2>1, DownInduction, Zenon
  <1>5. \A i \in 1 .. n : i \in i .. n
    OBVIOUS
  <1> QED
    BY <1>4, <1>5, Zenon

\* A chain of sequences has sequences as its values.
LEMMA ChainType ==
    ASSUME NEW T, NEW n \in Nat, NEW f, NEW base, NEW head, NEW next,
           IsChain(f, n, base, head, next),
           \A i \in 1 .. n : next[i] # 0 => next[i] \in i + 1 .. n,
           \A i \in 1 .. n : base[i] \in Seq(T) /\ head[i] \in Seq(T)
    PROVE  \A i \in 1 .. n : f[i] \in Seq(T)
  <1> DEFINE P == {i \in 1 .. n : f[i] \in Seq(T)}
  <1>1. ASSUME NEW i \in 1 .. n, next[i] = 0 \/ next[i] \in P PROVE i \in P
    <2>1. f[i] = IF next[i] = 0 THEN base[i] ELSE head[i] \o f[next[i]]
      BY Zenon DEF IsChain
    <2>2. next[i] # 0 => f[next[i]] \in Seq(T)
      BY <1>1, Zenon
    <2>3. f[i] \in Seq(T)
      BY <2>1, <2>2, ConcatElement, Zenon
    <2> QED
      BY <2>3, Zenon
  <1>2. 1 .. n \subseteq P
    <2> HIDE DEF P
    <2> QED
      BY <1>1, ChainInduction, Zenon
  <1> QED
    BY <1>2, Zenon

-----------------------------------------------------------------------------
(* Flat.                                                                   *)

\* The concatenation of the sequences before position i, as Flat computes it.
Sums(ss) ==
    CHOOSE f : f = [i \in 1 .. Len(ss) + 1 |-> IF i = 1 THEN <<>> ELSE f[i - 1] \o ss[i - 1]]

\* Flat is the last of them.
LEMMA FlatIsSum ==
    ASSUME NEW ss
    PROVE  Flat(ss) = Sums(ss)[Len(ss) + 1]
  BY Zenon DEF Flat, Sums

\* The equation that defines the sums has a solution.
LEMMA SumsEquation ==
    ASSUME NEW S, NEW ss \in Seq(Seq(S))
    PROVE  /\ Sums(ss)[1] = <<>>
           /\ \A i \in 1 .. Len(ss) + 1 : Sums(ss)[i] \in Seq(S)
           /\ \A i \in 1 .. Len(ss) : Sums(ss)[i + 1] = Sums(ss)[i] \o ss[i]
  <1> DEFINE n == Len(ss) + 1
             G(f, i) == IF i = 1 THEN <<>> ELSE f[i - 1] \o ss[i - 1]
             step == [i \in 1 .. n |-> [x \in Seq(S) |-> x \o ss[i - 1]]]
             sums == Sums(ss)
  <1>1. /\ n \in Nat /\ 1 \in 1 .. n /\ 1 <= n /\ <<>> \in Seq(S)
        /\ \A i \in 1 .. n : i # 1 => i - 1 \in 1 .. n /\ ss[i - 1] \in Seq(S)
    OBVIOUS
  <1>2. sums = CHOOSE f : f = [i \in 1 .. n |-> G(f, i)]
    BY Zenon DEF Sums
  <1>3. ASSUME NEW i \in 1 .. n, i # 1, NEW x \in Seq(S)
        PROVE  step[i][x] = x \o ss[i - 1] /\ x \o ss[i - 1] \in Seq(S)
    <2>1. step[i][x] = x \o ss[i - 1]
      BY Zenon
    <2>2. ss[i - 1] \in Seq(S)
      BY <1>1, <1>3, Zenon
    <2> QED
      BY <2>1, <2>2, ConcatElement, Zenon
  <1> HIDE DEF step, n, sums
  <1>4. PICK f : IsForward(f, n, <<>>, step)
    BY <1>1, ForwardFunction, Zenon
  <1>5. /\ f = [i \in 1 .. n |-> f[i]]
        /\ \A i \in 1 .. n : f[i] = IF i = 1 THEN <<>> ELSE step[i][f[i - 1]]
    BY <1>4, Zenon DEF IsForward
  <1>6. \A i \in 1 .. n - 1 : i + 1 \in 1 .. n /\ i + 1 # 1 /\ (i + 1) - 1 = i
    BY <1>1
  <1>7. 1 \in Int /\ n \in Int
    BY <1>1
  <1> DEFINE T == {i \in 1 .. n : f[i] \in Seq(S)}
  <1>8. 1 .. n \subseteq T
    <2>1. 1 <= n => 1 \in T
      BY <1>1, <1>5, Zenon
    <2>2. ASSUME NEW i \in 1 .. n - 1, i \in T PROVE i + 1 \in T
      <3>1. i + 1 \in 1 .. n /\ i + 1 # 1 /\ (i + 1) - 1 = i /\ f[i] \in Seq(S)
        BY <1>6, <2>2, Zenon
      <3>2. f[i + 1] = step[i + 1][f[i]]
        BY <1>5, <3>1, Zenon
      <3>3. step[i + 1][f[i]] \in Seq(S)
        BY <1>3, <3>1, Zenon
      <3> QED
        BY <3>1, <3>2, <3>3, Zenon
    <2> HIDE DEF T
    <2> QED
      BY <1>7, <2>1, <2>2, IntervalInduction, Zenon
  <1>9. ASSUME NEW i \in 1 .. n PROVE f[i] = G(f, i)
    BY <1>1, <1>3, <1>5, <1>8, Zenon
  <1> HIDE DEF G, T
  <1>10. f = [i \in 1 .. n |-> G(f, i)]
    BY <1>5, <1>9, Zenon
  <1>11. sums = [i \in 1 .. n |-> G(sums, i)]
    BY <1>2, <1>10, Zenon
  <1>12. \A i \in 1 .. n : sums[i] = IF i = 1 THEN <<>> ELSE sums[i - 1] \o ss[i - 1]
    BY <1>11, Zenon DEF G
  <1>13. \A i \in 1 .. n - 1 : sums[i + 1] = sums[i] \o ss[i]
    BY <1>6, <1>12, Zenon
  <1> DEFINE U == {i \in 1 .. n : sums[i] \in Seq(S)}
  <1>14. 1 .. n \subseteq U
    <2>1. 1 <= n => 1 \in U
      BY <1>1, <1>12, Zenon
    <2>2. ASSUME NEW i \in 1 .. n - 1, i \in U PROVE i + 1 \in U
      <3>1. i + 1 \in 1 .. n /\ i + 1 # 1 /\ (i + 1) - 1 = i /\ sums[i] \in Seq(S)
        BY <1>6, <2>2, Zenon
      <3>2. sums[i] \o ss[(i + 1) - 1] \in Seq(S)
        BY <1>3, <3>1, Zenon
      <3> QED
        BY <1>13, <3>1, <3>2, Zenon
    <2> HIDE DEF U
    <2> QED
      BY <1>7, <2>1, <2>2, IntervalInduction, Zenon
  <1>15. n - 1 = Len(ss)
    BY DEF n
  <1> QED
    BY <1>1, <1>12, <1>13, <1>14, <1>15, Zenon DEF n, sums

\* The sums of sequences that begin alike begin alike.
LEMMA SumsOfPrefix ==
    ASSUME NEW S, NEW s \in Seq(Seq(S)), NEW t \in Seq(Seq(S)), NEW n \in Nat,
           n <= Len(s), n <= Len(t), \A i \in 1 .. n : s[i] = t[i]
    PROVE  Sums(s)[n + 1] = Sums(t)[n + 1]
  <1> DEFINE T == {i \in 1 .. n + 1 : Sums(s)[i] = Sums(t)[i]}
  <1>1. /\ \A i \in 1 .. n : i \in 1 .. Len(s) /\ i \in 1 .. Len(t)
        /\ \A i \in 1 .. (n + 1) - 1 : i \in 1 .. n /\ i + 1 \in 1 .. n + 1
        /\ 1 \in Int /\ n + 1 \in Int /\ 1 \in 1 .. n + 1 /\ n + 1 \in 1 .. n + 1
    OBVIOUS
  <1>2. 1 <= n + 1 => 1 \in T
    <2>1. Sums(s)[1] = <<>>
      BY SumsEquation, Zenon
    <2>2. Sums(t)[1] = <<>>
      BY SumsEquation, Zenon
    <2> QED
      BY <1>1, <2>1, <2>2, Zenon
  <1>3. ASSUME NEW i \in 1 .. (n + 1) - 1, i \in T PROVE i + 1 \in T
    <2>1. Sums(s)[i + 1] = Sums(s)[i] \o s[i] /\ Sums(t)[i + 1] = Sums(t)[i] \o t[i]
      BY <1>1, SumsEquation, Zenon
    <2> QED
      BY <1>1, <1>3, <2>1, Zenon
  <1>4. 1 .. n + 1 \subseteq T
    <2> HIDE DEF T
    <2> QED
      BY <1>1, <1>2, <1>3, IntervalInduction, Zenon
  <1> QED
    BY <1>1, <1>4, Zenon

\* A set that holds the empty sequence, and with a sequence all that have one
\* element more, holds all sequences.
LEMMA SeqInduction ==
    ASSUME NEW S, NEW P, <<>> \in P,
           \A s \in Seq(S), e \in S : s \in P => Append(s, e) \in P
    PROVE  Seq(S) \subseteq P
  <1> DEFINE T == {n \in Nat : \A s \in Seq(S) : Len(s) = n => s \in P}
  <1>1. 0 \in T
    OBVIOUS
  <1>2. ASSUME NEW n \in Nat, n \in T PROVE n + 1 \in T
    <2> SUFFICES ASSUME NEW s \in Seq(S), Len(s) = n + 1 PROVE s \in P
      OBVIOUS
    <2>1. s # <<>>
      OBVIOUS
    <2>2. PICK t \in Seq(S), e \in S : s = Append(t, e)
      BY <2>1, HasLast, Zenon
    <2>3. Len(t) = n
      BY <2>2
    <2> QED
      BY <1>2, <2>2, <2>3
  <1>3. Nat \subseteq T
    <2> HIDE DEF T
    <2> QED
      BY <1>1, <1>2, SetInduction, Zenon
  <1> QED
    BY <1>3

\* What Flat makes of no sequences, ...
LEMMA FlatEmpty == Flat(<<>>) = <<>>
  <1>1. <<>> \in Seq(Seq({})) /\ Len(<<>>) + 1 = 1
    OBVIOUS
  <1> QED
    BY <1>1, FlatIsSum, SumsEquation, Zenon

\* ... of sequences over a set, ...
LEMMA FlatType ==
    ASSUME NEW S, NEW ss \in Seq(Seq(S))
    PROVE  Flat(ss) \in Seq(S)
  <1>1. Len(ss) + 1 \in 1 .. Len(ss) + 1
    OBVIOUS
  <1> QED
    BY <1>1, FlatIsSum, SumsEquation, Zenon

\* ... of one sequence more, ...
LEMMA FlatAppend ==
    ASSUME NEW S, NEW ss \in Seq(Seq(S)), NEW x \in Seq(S)
    PROVE  Flat(Append(ss, x)) = Flat(ss) \o x
  <1> DEFINE t == Append(ss, x)
             n == Len(ss)
  <1>1. /\ t \in Seq(Seq(S)) /\ n \in Nat /\ Len(t) = n + 1 /\ n <= n /\ n <= Len(t)
        /\ n + 1 \in 1 .. Len(t) /\ t[n + 1] = x /\ \A i \in 1 .. n : ss[i] = t[i]
    OBVIOUS
  <1> HIDE DEF t
  <1>2. Flat(t) = Sums(t)[n + 1] \o t[n + 1]
    BY <1>1, FlatIsSum, SumsEquation, Zenon
  <1>3. Sums(ss)[n + 1] = Sums(t)[n + 1]
    BY <1>1, SumsOfPrefix, Zenon
  <1> QED
    BY <1>1, <1>2, <1>3, FlatIsSum, Zenon DEF t

\* ... of one, ...
LEMMA FlatOne ==
    ASSUME NEW S, NEW x \in Seq(S)
    PROVE  Flat(<<x>>) = x
  <1>1. <<x>> = Append(<<>>, x) /\ <<>> \in Seq(Seq(S)) /\ <<>> \o x = x
    OBVIOUS
  <1> QED
    BY <1>1, FlatAppend, FlatEmpty, Zenon

\* ... and of a concatenation.
LEMMA FlatConcat ==
    ASSUME NEW S, NEW s \in Seq(Seq(S)), NEW t \in Seq(Seq(S))
    PROVE  Flat(s \o t) = Flat(s) \o Flat(t)
  <1> DEFINE P == {u \in Seq(Seq(S)) :
                     Flat(s \o u) = Flat(s) \o Flat(u)}
  <1>1. <<>> \in P
    <2>1. <<>> \in Seq(Seq(S)) /\ s \o <<>> = s
      OBVIOUS
    <2>2. Flat(s) \o <<>> = Flat(s)
      <3> DEFINE a == Flat(s)
      <3>1. a \in Seq(S)
        BY FlatType, Zenon
      <3> HIDE DEF a
      <3>2. a \o <<>> = a
        BY <3>1
      <3> QED
        BY <3>2, Zenon DEF a
    <2> QED
      BY <2>1, <2>2, FlatEmpty, Zenon
  <1>2. ASSUME NEW u \in Seq(Seq(S)), NEW x \in Seq(S), u \in P
        PROVE  Append(u, x) \in P
    <2>1. Append(u, x) \in Seq(Seq(S)) /\ s \o u \in Seq(Seq(S))
      OBVIOUS
    <2>2. s \o Append(u, x) = Append(s \o u, x)
      OBVIOUS
    <2>3. Flat(Append(s \o u, x)) = Flat(s \o u) \o x
      BY <2>1, FlatAppend, Zenon
    <2>4. Flat(Append(u, x)) = Flat(u) \o x
      BY FlatAppend, Zenon
    <2>5. (Flat(s) \o Flat(u)) \o x = Flat(s) \o (Flat(u) \o x)
      <3> DEFINE a == Flat(s)
                 b == Flat(u)
      <3>1. a \in Seq(S) /\ b \in Seq(S)
        BY FlatType, Zenon
      <3> HIDE DEF a, b
      <3>2. (a \o b) \o x = a \o (b \o x)
        <4>1. \A c, d, e \in Seq(S) : (c \o d) \o e = c \o (d \o e)
          OBVIOUS
        <4> QED
          BY <3>1, <4>1, Zenon
      <3> QED
        BY <3>2, Zenon DEF a, b
    <2> QED
      BY <1>2, <2>1, <2>2, <2>3, <2>4, <2>5, Zenon
  <1>3. Seq(Seq(S)) \subseteq P
    <2> HIDE DEF P
    <2> QED
      BY <1>1, <1>2, SeqInduction, Zenon
  <1> QED
    BY <1>3, Zenon

-----------------------------------------------------------------------------
(* Without.                                                                *)

\* A function with values in T, applied to the elements of a sequence, and the concatenation of
\* what it gives.
Gives(g, S, T) == g \in [S -> T]

Mapped(s, g) == [i \in DOMAIN s |-> g[s[i]]]

FlatMap(s, g) == Flat(Mapped(s, g))

IsMapped(m, s, g, T) == /\ m \in Seq(T) /\ Len(m) = Len(s)
                        /\ \A i \in 1 .. Len(s) : m[i] = g[s[i]]

\* The elements of the sequence of values.
LEMMA MappedType ==
    ASSUME NEW S, NEW T, NEW s \in Seq(S), NEW g, Gives(g, S, T)
    PROVE  IsMapped(Mapped(s, g), s, g, T)
  <1>1. Len(s) \in Nat /\ DOMAIN s = 1 .. Len(s) /\ \A i \in 1 .. Len(s) : s[i] \in S
    BY SeqIsFunction, Zenon
  <1>2. \A i \in 1 .. Len(s) : g[s[i]] \in T
    BY <1>1, Zenon DEF Gives
  <1>3. Mapped(s, g) = [i \in 1 .. Len(s) |-> g[s[i]]]
    BY <1>1, Zenon DEF Mapped
  <1>4. Mapped(s, g) \in [1 .. Len(s) -> T]
    BY <1>2, <1>3, Zenon
  <1>5. Mapped(s, g) \in Seq(T) /\ Len(Mapped(s, g)) = Len(s)
    BY <1>1, <1>4, FunctionIsSeq, Zenon
  <1> QED
    BY <1>3, <1>5, Zenon DEF IsMapped

\* What is joined is a sequence of the elements.
LEMMA FlatMapType ==
    ASSUME NEW S, NEW T, NEW s \in Seq(S),
           NEW g, Gives(g, S, Seq(T))
    PROVE  FlatMap(s, g) \in Seq(T)
  <1>1. IsMapped(Mapped(s, g), s, g, Seq(T))
    BY MappedType, Zenon
  <1>2. Mapped(s, g) \in Seq(Seq(T))
    BY <1>1, Zenon DEF IsMapped
  <1> QED
    BY <1>2, FlatType, Zenon DEF FlatMap

\* A concatenation is mapped part by part.
LEMMA FlatMapConcat ==
    ASSUME NEW S, NEW T, NEW s \in Seq(S), NEW t \in Seq(S),
           NEW g, Gives(g, S, Seq(T))
    PROVE  FlatMap(s \o t, g) = FlatMap(s, g) \o FlatMap(t, g)
  <1> DEFINE n == Len(s)
             m == Len(t)
             ks == Mapped(s, g)
             kt == Mapped(t, g)
             kst == Mapped(s \o t, g)
             R == Seq(T)
  <1>1. /\ s \o t \in Seq(S) /\ Len(s \o t) = n + m /\ n \in Nat /\ m \in Nat
        /\ \A i \in 1 .. n : (s \o t)[i] = s[i]
        /\ \A i \in n + 1 .. n + m : (s \o t)[i] = t[i - n]
    BY ConcatElement, SeqIsFunction, Zenon
  <1>2. /\ ks \in Seq(R) /\ Len(ks) = n
        /\ \A i \in 1 .. n : ks[i] = g[s[i]]
    <2>1. IsMapped(Mapped(s, g), s, g, Seq(T))
      BY MappedType, Zenon
    <2> QED
      BY <2>1, Zenon DEF IsMapped
  <1>3. /\ kt \in Seq(R) /\ Len(kt) = m
        /\ \A i \in 1 .. m : kt[i] = g[t[i]]
    <2>1. IsMapped(Mapped(t, g), t, g, Seq(T))
      BY MappedType, Zenon
    <2> QED
      BY <2>1, Zenon DEF IsMapped
  <1>4. /\ kst \in Seq(R) /\ Len(kst) = n + m
        /\ \A i \in 1 .. n + m : kst[i] = g[(s \o t)[i]]
    <2>1. IsMapped(Mapped(s \o t, g), s \o t, g, Seq(T))
      BY <1>1, MappedType, Zenon
    <2> QED
      BY <1>1, <2>1, Zenon DEF IsMapped
  <1> HIDE DEF n, m, ks, kt, kst, R
  <1>5. /\ ks \o kt \in Seq(R) /\ Len(ks \o kt) = n + m
        /\ \A i \in 1 .. n : (ks \o kt)[i] = ks[i]
        /\ \A i \in n + 1 .. n + m : (ks \o kt)[i] = kt[i - n]
    <2>1. /\ ks \o kt \in Seq(R) /\ Len(ks \o kt) = Len(ks) + Len(kt)
          /\ \A i \in 1 .. Len(ks) : (ks \o kt)[i] = ks[i]
          /\ \A i \in Len(ks) + 1 .. Len(ks) + Len(kt) : (ks \o kt)[i] = kt[i - Len(ks)]
      <3>1. ks \in Seq(R) /\ kt \in Seq(R)
        BY <1>2, <1>3, Zenon
      <3> QED
        BY <3>1
    <2> QED
      BY <2>1, <1>2, <1>3, Zenon
  <1>6. ASSUME NEW i \in 1 .. n + m PROVE kst[i] = (ks \o kt)[i]
    <2>1. CASE i \in 1 .. n
      <3>1. kst[i] = g[s[i]]
        BY <2>1, <1>1, <1>4, Zenon
      <3>2. (ks \o kt)[i] = g[s[i]]
        BY <2>1, <1>2, <1>5, Zenon
      <3> QED
        BY <3>1, <3>2, Zenon
    <2>2. CASE i \in n + 1 .. n + m
      <3>1. i - n \in 1 .. m
        BY <2>2, <1>1
      <3>2. kst[i] = g[t[i - n]]
        BY <2>2, <1>1, <1>4, Zenon
      <3>3. (ks \o kt)[i] = g[t[i - n]]
        BY <2>2, <3>1, <1>3, <1>5, Zenon
      <3> QED
        BY <3>2, <3>3, Zenon
    <2>3. i \in 1 .. n \/ i \in n + 1 .. n + m
      BY <1>1
    <2> QED
      BY <2>1, <2>2, <2>3, Zenon
  <1>7. kst = ks \o kt
    BY <1>4, <1>5, <1>6
  <1>8. Flat(ks \o kt) = Flat(ks) \o Flat(kt)
    BY <1>2, <1>3, FlatConcat, Zenon DEF R
  <1> QED
    BY <1>7, <1>8, Zenon DEF FlatMap, ks, kt, kst

\* The values of the empty sequence and of one element.
LEMMA FlatMapOne ==
    ASSUME NEW S, NEW T, NEW g, Gives(g, S, Seq(T))
    PROVE  /\ FlatMap(<<>>, g) = <<>>
           /\ \A x \in S : FlatMap(<<x>>, g) = g[x]
  <1>1. FlatMap(<<>>, g) = <<>>
    <2>1. <<>> \in Seq(S) /\ Len(<<>>) = 0
      OBVIOUS
    <2>2. IsMapped(Mapped(<<>>, g), <<>>, g, Seq(T))
      BY <2>1, MappedType, Zenon
    <2>3. Mapped(<<>>, g) = <<>>
      BY <2>1, <2>2 DEF IsMapped
    <2> QED
      BY <2>3, FlatEmpty, Zenon DEF FlatMap
  <1>2. ASSUME NEW x \in S PROVE FlatMap(<<x>>, g) = g[x]
    <2>1. <<x>> \in Seq(S) /\ Len(<<x>>) = 1 /\ <<x>>[1] = x /\ 1 \in 1 .. 1
      OBVIOUS
    <2>2. IsMapped(Mapped(<<x>>, g), <<x>>, g, Seq(T))
      BY <2>1, MappedType, Zenon
    <2> DEFINE m == Mapped(<<x>>, g)
    <2>5. m \in Seq(Seq(T)) /\ Len(m) = 1 /\ m[1] = g[x]
      BY <2>1, <2>2, Zenon DEF IsMapped
    <2>3. Mapped(<<x>>, g) = <<g[x]>>
      <3> HIDE DEF m
      <3> QED
        BY <2>5 DEF m
    <2>4. g[x] \in Seq(T)
      BY Zenon DEF Gives
    <2> QED
      BY <2>3, <2>4, FlatOne, Zenon DEF FlatMap
  <1> QED
    BY <1>1, <1>2, Zenon

\* What Without keeps of one element.
KeptOf(x, D) == IF x \in D THEN <<>> ELSE <<x>>

KeptFrom(S, D) == [x \in S |-> KeptOf(x, D)]

\* Filtering joins every element with itself or with nothing.
LEMMA WithoutIsMap ==
    ASSUME NEW S, NEW s \in Seq(S), NEW D
    PROVE  /\ Without(s, D) = FlatMap(s, KeptFrom(S, D))
           /\ Gives(KeptFrom(S, D), S, Seq(S \ D))
  <1>1. DOMAIN s = 1 .. Len(s) /\ \A i \in 1 .. Len(s) : s[i] \in S
    BY SeqIsFunction, Zenon
  <1>2. \A i \in DOMAIN s : KeptFrom(S, D)[s[i]] = KeptOf(s[i], D)
    BY <1>1, Zenon DEF KeptFrom
  <1>3. Mapped(s, KeptFrom(S, D)) = [i \in DOMAIN s |-> KeptOf(s[i], D)]
    BY <1>2, Zenon DEF Mapped
  <1>4. ASSUME NEW x \in S PROVE KeptOf(x, D) \in Seq(S \ D)
    <2>1. <<>> \in Seq(S \ D)
      OBVIOUS
    <2> QED
      BY <2>1, OneElement, Zenon DEF KeptOf
  <1> QED
    BY <1>3, <1>4, Zenon DEF Without, FlatMap, KeptFrom, KeptOf, Gives

\* Without gives a sequence of the other elements, part by part.
LEMMA WithoutType ==
    ASSUME NEW S, NEW s \in Seq(S), NEW D
    PROVE  Without(s, D) \in Seq(S \ D)
  <1> DEFINE g == KeptFrom(S, D)
  <1>1. Without(s, D) = FlatMap(s, g) /\ Gives(g, S, Seq(S \ D))
    BY WithoutIsMap, Zenon
  <1> HIDE DEF g
  <1>2. FlatMap(s, g) \in Seq(S \ D)
    BY <1>1, FlatMapType, Zenon
  <1> QED
    BY <1>1, <1>2, Zenon

\* A concatenation is filtered part by part.
LEMMA WithoutConcat ==
    ASSUME NEW S, NEW s \in Seq(S), NEW t \in Seq(S), NEW D
    PROVE  Without(s \o t, D) = Without(s, D) \o Without(t, D)
  <1> DEFINE g == KeptFrom(S, D)
  <1>1. s \o t \in Seq(S)
    OBVIOUS
  <1>2. /\ Without(s, D) = FlatMap(s, g) /\ Without(t, D) = FlatMap(t, g)
        /\ Without(s \o t, D) = FlatMap(s \o t, g) /\ Gives(g, S, Seq(S \ D))
    BY <1>1, WithoutIsMap, Zenon
  <1>3. FlatMap(s \o t, g) = FlatMap(s, g) \o FlatMap(t, g)
    <2> DEFINE T == S \ D
    <2>1. Gives(g, S, Seq(T))
      BY <1>2, Zenon
    <2> HIDE DEF g, T
    <2> QED
      BY <2>1, FlatMapConcat
  <1> QED
    BY <1>2, <1>3, Zenon
=============================================================================
