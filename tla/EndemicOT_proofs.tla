-------------------------- MODULE EndemicOT_proofs --------------------------
(***************************************************************************)
(* Proofs about EndemicOT, for every length of a batch, every combination  *)
(* of the forms, all choices and messages, every ring and rank of Kyber    *)
(* and every generator.                                                    *)
(*                                                                         *)
(* The inductive invariant has three parts.  Control counts: while the     *)
(* receiver waits, and only then, a batch is out, of which every OT is     *)
(* either a message to the sender or an answer; so the two threads take    *)
(* turns.  Generators: what a thread inside randombytes has read is still  *)
(* the generator's state, which counts the draws.  Contents: every object  *)
(* belongs to a keypair drawn in this batch, its keys give the sender the  *)
(* chosen one back, and every answer encrypts the chosen item under it.    *)
(* That a key comes out of a difference and a hash the way it went in is   *)
(* arithmetic on words: Barrett reduction and the conditional subtraction  *)
(* of packing leave the remainder modulo q.                                *)
(***************************************************************************)
EXTENDS EndemicOT, SequenceTheorems, WellFoundedInduction, TLAPS

(* Induction over the numbers up to n. *)
LEMMA UpTo ==
  ASSUME NEW n \in Nat, NEW good, 0 \in good,
         \A i \in 1 .. n : i - 1 \in good => i \in good
  PROVE  n \in good
<1> DEFINE bad == {i \in 0 .. n : i \notin good}
<1>1. SUFFICES ASSUME bad # {} PROVE FALSE
  OBVIOUS
<1>2. IsWellFoundedOn(OpToRel(<, Nat), Nat)
  BY NatLessThanWellFounded
<1>3. bad \subseteq Nat
  OBVIOUS
<1>4. PICK i \in bad : \A j \in bad : <<j, i>> \notin OpToRel(<, Nat)
  BY <1>1, <1>2, <1>3, WFMin
<1>5. i \in 1 .. n /\ i - 1 \in 0 .. n /\ i - 1 \in Nat /\ i \in Nat /\ i - 1 < i
  OBVIOUS
<1>6. i - 1 \in bad
  BY <1>5
<1> DEFINE p == <<i - 1, i>>
<1>7. p \in Nat \X Nat /\ p[1] < p[2]
  BY <1>5
<1> HIDE DEF p
<1>8. p \in OpToRel(<, Nat)
  BY <1>7, Zenon DEF OpToRel
<1>9. <<i - 1, i>> \in OpToRel(<, Nat)
  BY <1>8 DEF p
<1> QED  BY <1>4, <1>6, <1>9, Zenon

-----------------------------------------------------------------------------
(* Membership of words, for provers that would otherwise list them. *)
LEMMA Interval ==
  ASSUME NEW lo \in Int, NEW hi \in Int, NEW x
  PROVE  x \in lo .. hi <=> x \in Int /\ lo <= x /\ x <= hi
OBVIOUS

LEMMA WordBounds ==
  ASSUME NEW lo, NEW hi, lo = -32768, hi = 32767
  PROVE  Word = lo .. hi
BY DEF Word

LEMMA Words ==
  ASSUME NEW x
  PROVE  x \in Word <=> x \in Int /\ -32768 <= x /\ x <= 32767
<1> DEFINE lo == -32768
           hi == 32767
<1>1. lo \in Int /\ hi \in Int /\ lo = -32768 /\ hi = 32767
  OBVIOUS
<1> HIDE DEF lo, hi
<1>2. x \in Word <=> x \in Int /\ lo <= x /\ x <= hi
  BY <1>1, WordBounds, Interval
<1> QED  BY <1>1, <1>2

(* A coefficient of at most n. *)
Below(x, n) == x \in Int /\ 0 <= x /\ x <= n

(* A word that fits is kept. *)
LEMMA WrapIdentity ==
  ASSUME NEW x, x \in Word
  PROVE  Wrap(x) = x
<1>1. x \in Int /\ -32768 <= x /\ x <= 32767
  BY Words
<1>2. ((x + 32768) % 65536) - 32768 = x
  BY <1>1
<1> QED  BY <1>2 DEF Wrap

(* Barrett reduction leaves at most q of a word, *)
LEMMA Red16Right ==
  ASSUME NEW x, x \in Word
  PROVE  /\ Below(Red16[x], 3329)
         /\ \E m \in Int : Red16[x] = x - m * 3329
<1>1. x \in Int /\ -32768 <= x /\ x <= 32767
  BY Words
<1> DEFINE h == (x * 20159) \div 65536
           t == h \div 1024
<1>2. h \in Int /\ t \in Int /\ -10 <= t /\ t <= 10 /\ Below(x - t * 3329, 3329)
  BY <1>1 DEF Below
<1>3. MulHi(x, V) \div 1024 = t
  BY DEF MulHi, V
<1> HIDE DEF h, t
<1>4. MulLo(t, Q) = ((t * 3329 + 32768) % 65536) - 32768
  BY DEF MulLo, Wrap, Q
<1> DEFINE l == ((t * 3329 + 32768) % 65536) - 32768
           w == ((x - l + 32768) % 65536) - 32768
<1>5. w = x - t * 3329
  BY <1>1, <1>2 DEF Below
<1>6. Red16[x] = w
  <2>1. Red16[x] = Wrap(x - MulLo(MulHi(x, V) \div 1024, Q))
    BY Zenon DEF Red16
  <2> QED  BY <1>3, <1>4, <2>1 DEF Wrap
<1> HIDE DEF w
<1> QED  BY <1>2, <1>5, <1>6

(* and a conditional subtraction the least remainder. *)
LEMMA CSubQRight ==
  ASSUME NEW x, Below(x, 3329)
  PROVE  CSubQ[x] = IF x = 3329 THEN 0 ELSE x
<1>1. x \in Word /\ x - 3329 \in Word
  BY Words DEF Below
<1>2. Wrap(x - 3329) = x - 3329 /\ (x - 3329) + 3329 = x
  BY <1>1, WrapIdentity DEF Below
<1>3. Wrap((x - 3329) + 3329) = x
  BY <1>1, <1>2, WrapIdentity
<1>4. CSubQ[x] = IF Wrap(x - Q) < 0 THEN Wrap(Wrap(x - Q) + Q) ELSE Wrap(x - Q)
  BY <1>1 DEF CSubQ
<1>5. CSubQ[x] = IF x - 3329 < 0 THEN x ELSE x - 3329
  BY <1>2, <1>3, <1>4 DEF Q
<1> QED  BY <1>5 DEF Below

(***************************************************************************)
(* What polyvec_reduce and polyvec_tobytes leave of a word: the remainder  *)
(* modulo q.                                                               *)
(***************************************************************************)
LEMMA Remainder ==
  ASSUME NEW x, x \in Word
  PROVE  /\ Below(CSubQ[Red16[x]], 3328)
         /\ \E m \in Int : CSubQ[Red16[x]] = x - m * 3329
<1>1. PICK m \in Int : Red16[x] = x - m * 3329
  BY Red16Right
<1>2. Below(Red16[x], 3329)
  BY Red16Right
<1> DEFINE r == Red16[x]
<1>3. CSubQ[r] = IF r = 3329 THEN 0 ELSE r
  BY <1>2, CSubQRight
<1>4. x \in Int
  BY Words
<1>5. r = x - m * 3329 /\ Below(r, 3329)
  BY <1>1, <1>2
<1> HIDE DEF r
<1>6. Below(CSubQ[r], 3328) /\ \E l \in Int : CSubQ[r] = x - l * 3329
  <2>1. CASE r = 3329
    <3>1. m + 1 \in Int /\ 0 = x - (m + 1) * 3329
      BY <1>4, <1>5, <2>1
    <3>2. CSubQ[r] = 0
      BY <1>3, <2>1
    <3> DEFINE l == m + 1
    <3>3. l \in Int /\ CSubQ[r] = x - l * 3329
      BY <3>1, <3>2
    <3> HIDE DEF l
    <3> QED  BY <3>2, <3>3 DEF Below
  <2>2. CASE r # 3329
    BY <1>3, <1>5, <2>2 DEF Below
  <2> QED  BY <2>1, <2>2
<1> QED  BY <1>6 DEF r

(* What was subtracted and reduced comes back when it is added. *)
LEMMA SubtractAdd ==
  ASSUME NEW a, NEW h, Below(a, 3328), Below(h, 3328)
  PROVE  CSubQ[Red16[CSubQ[Red16[a - h]] + h]] = a
<1> DEFINE d == CSubQ[Red16[a - h]]
<1>1. a - h \in Word
  BY Words DEF Below
<1>2. Below(d, 3328) /\ \E m \in Int : d = (a - h) - m * 3329
  BY <1>1, Remainder
<1> HIDE DEF d
<1>3. PICK m \in Int : d = (a - h) - m * 3329
  BY <1>2
<1>4. d + h \in Word
  BY <1>2, Words DEF Below
<1> DEFINE r == CSubQ[Red16[d + h]]
<1>5. Below(r, 3328) /\ \E l \in Int : r = (d + h) - l * 3329
  BY <1>4, Remainder
<1> HIDE DEF r
<1>6. PICK l \in Int : r = (d + h) - l * 3329
  BY <1>5
<1>7. r = a
  BY <1>2, <1>3, <1>5, <1>6 DEF Below
<1> QED  BY <1>7 DEF r, d
-----------------------------------------------------------------------------
(* g[i] is the sum of the first i terms. *)
PartialSums(g, f, n) ==
  /\ g \in [0 .. n -> Int] /\ g[0] = 0
  /\ \A i \in 1 .. n : g[i] = g[i - 1] + f[i - 1]

(* Sum is the last of the partial sums. *)
LEMMA SumRecursion ==
  ASSUME NEW n \in Nat, NEW f, \A i \in 0 .. n - 1 : f[i] \in Int
  PROVE  \E g : PartialSums(g, f, n) /\ Sum(f, n) = g[n]
<1> DEFINE IsSum(g, m) == /\ g \in [0 .. m -> Int] /\ g[0] = 0
                          /\ \A i \in 1 .. m : g[i] = g[i - 1] + f[i - 1]
           good == {m \in 0 .. n : \E g : IsSum(g, m)}
<1>1. 0 \in good
  <2> DEFINE z == [i \in 0 .. 0 |-> 0]
  <2>1. IsSum(z, 0)
    OBVIOUS
  <2> HIDE DEF IsSum, z
  <2> QED  BY <2>1
<1>2. ASSUME NEW m \in 1 .. n, m - 1 \in good
      PROVE  m \in good
  <2>1. PICK g : IsSum(g, m - 1)
    BY <1>2
  <2> DEFINE h == [i \in 0 .. m |-> IF i < m THEN g[i] ELSE g[m - 1] + f[m - 1]]
  <2>2. m - 1 \in 0 .. m - 1 /\ m - 1 \in 0 .. n - 1
    OBVIOUS
  <2>3. h \in [0 .. m -> Int] /\ h[0] = 0
    BY <2>1, <2>2
  <2>4. ASSUME NEW i \in 1 .. m
        PROVE  h[i] = h[i - 1] + f[i - 1]
    <3>1. CASE i = m
      BY <2>1, <2>2, <3>1
    <3>2. CASE i # m
      <4>1. i \in 1 .. m - 1 /\ i < m /\ i - 1 < m /\ i \in 0 .. m /\ i - 1 \in 0 .. m
        BY <3>2
      <4>2. g[i] = g[i - 1] + f[i - 1]
        BY <2>1, <4>1
      <4> QED  BY <4>1, <4>2
    <3> QED  BY <3>1, <3>2
  <2>5. IsSum(h, m)
    BY <2>3, <2>4
  <2>6. m \in 0 .. n
    OBVIOUS
  <2> HIDE DEF IsSum, h
  <2> QED  BY <2>5, <2>6
<1>3. n \in good
  <2> HIDE DEF good
  <2> QED  BY <1>1, <1>2, UpTo
<1>4. PICK g : IsSum(g, n)
  BY <1>3
<1> DEFINE F(sum) == [i \in 0 .. n |-> IF i = 0 THEN 0 ELSE sum[i - 1] + f[i - 1]]
           s == CHOOSE sum : sum = F(sum)
<1>5. g = F(g)
  <2>1. g = [i \in 0 .. n |-> g[i]]
    BY <1>4
  <2>2. ASSUME NEW i \in 0 .. n
        PROVE  g[i] = IF i = 0 THEN 0 ELSE g[i - 1] + f[i - 1]
    <3>1. i = 0 \/ i \in 1 .. n
      OBVIOUS
    <3> QED  BY <1>4, <3>1
  <2> QED  BY <2>1, <2>2
<1>6. s = F(s)
  <2> HIDE DEF F
  <2> QED  BY <1>5
<1>7. Sum(f, n) = s[n]
  BY DEF Sum
<1> HIDE DEF s
<1>8. \A i \in 0 .. n : s[i] = IF i = 0 THEN 0 ELSE s[i - 1] + f[i - 1]
  BY <1>6
<1>9. s = g
  <2> DEFINE same == {m \in 0 .. n : s[m] = g[m]}
  <2>1. 0 \in same
    BY <1>4, <1>8
  <2>2. ASSUME NEW m \in 1 .. n, m - 1 \in same
        PROVE  m \in same
    BY <1>4, <1>8, <2>2
  <2>3. ASSUME NEW k \in 0 .. n
        PROVE  k \in same
    <3>1. \A i \in 1 .. k : i \in 1 .. n
      OBVIOUS
    <3>2. \A i \in 1 .. k : i - 1 \in same => i \in same
      BY <2>2, <3>1
    <3>3. k \in Nat
      OBVIOUS
    <3> HIDE DEF same
    <3> QED  BY <2>1, <3>2, <3>3, UpTo
  <2>4. s = [i \in 0 .. n |-> s[i]]
    BY <1>6
  <2>5. g = [i \in 0 .. n |-> g[i]]
    BY <1>4
  <2> QED  BY <2>3, <2>4, <2>5
<1>10. PartialSums(g, f, n)
  BY <1>4, Zenon DEF PartialSums
<1> QED  BY <1>7, <1>9, <1>10, Zenon

(* A sum of integers is one, *)
LEMMA SumType ==
  ASSUME NEW n \in Nat, NEW f, \A i \in 0 .. n - 1 : f[i] \in Int
  PROVE  Sum(f, n) \in Int
<1>1. PICK g : PartialSums(g, f, n) /\ Sum(f, n) = g[n]
  BY SumRecursion, Zenon
<1> QED  BY <1>1 DEF PartialSums

(* and of n coefficients below q at most n times as large. *)
LEMMA SumBound ==
  ASSUME NEW n \in Nat, NEW f, \A i \in 0 .. n - 1 : Below(f[i], 3328)
  PROVE  Below(Sum(f, n), n * 3328)
<1>1. \A i \in 0 .. n - 1 : f[i] \in Int
  BY DEF Below
<1>2. PICK g : PartialSums(g, f, n) /\ Sum(f, n) = g[n]
  BY <1>1, SumRecursion, SMT
<1>3. /\ g \in [0 .. n -> Int] /\ Sum(f, n) = g[n] /\ g[0] = 0
      /\ \A i \in 1 .. n : g[i] = g[i - 1] + f[i - 1]
  BY <1>2 DEF PartialSums
<1> DEFINE good == {m \in 0 .. n : Below(g[m], m * 3328)}
<1>4. 0 \in good
  BY <1>3 DEF Below
<1>5. ASSUME NEW m \in 1 .. n, m - 1 \in good
      PROVE  m \in good
  <2>1. g[m] = g[m - 1] + f[m - 1] /\ m - 1 \in 0 .. n - 1
    BY <1>3
  <2>2. Below(f[m - 1], 3328) /\ Below(g[m - 1], (m - 1) * 3328)
    BY <1>5, <2>1
  <2>3. Below(g[m], m * 3328)
    BY <2>1, <2>2 DEF Below
  <2> QED  BY <2>3
<1>6. n \in good
  <2> HIDE DEF good
  <2> QED  BY <1>4, <1>5, UpTo
<1> QED  BY <1>3, <1>6

-----------------------------------------------------------------------------
(* A polynomial with coefficients that gen_matrix may leave, all of them   *)
(* below q, and the vectors of them.                                       *)
Reduced(p) == \A k \in Positions : Below(p[k], 3328)
ReducedVec(v) == \A i \in Indices : Reduced(v[i])

(* What rejection sampling and the noise of cbd give: coefficients below   *)
(* q, and at most eta1 <= 3 around zero.                                   *)
SampledBelowQ == \A seed : \A i, j \in Indices : Reduced(Xof(seed, i, j))
NoiseSmall ==
  \A seed : \A nonce \in 0 .. 2 * K : \A k \in Positions :
    Prf(seed, nonce)[k] \in Int /\ -3 <= Prf(seed, nonce)[k] /\ Prf(seed, nonce)[k] <= 3

(* A product of polynomials is one of remainders. *)
LEMMA PolyMulReduced ==
  ASSUME NEW a, NEW b, \A k \in Positions : a[k] \in Int /\ b[k] \in Int
  PROVE  Reduced(PolyMul(a, b))
<1> SUFFICES ASSUME NEW k \in Positions
             PROVE  Below(PolyMul(a, b)[k], 3328)
  BY DEF Reduced
<1> DEFINE f == [i \in Positions |-> IF i <= k THEN a[i] * b[k - i] ELSE -(a[i] * b[N + k - i])]
<1>1. N \in Nat
  BY KyberAssumption
<1>2. ASSUME NEW i \in 0 .. N - 1
      PROVE  f[i] \in Int
  <2>1. CASE i <= k
    <3>1. i \in Positions /\ k - i \in Positions
      BY <1>1, <2>1 DEF Positions
    <3>2. a[i] \in Int /\ b[k - i] \in Int
      BY <3>1
    <3>3. a[i] * b[k - i] \in Int
      BY <3>2
    <3> QED  BY <2>1, <3>1, <3>3
  <2>2. CASE ~(i <= k)
    <3>1. i \in Positions /\ N + k - i \in Positions
      BY <1>1, <2>2 DEF Positions
    <3>2. a[i] \in Int /\ b[N + k - i] \in Int
      BY <3>1
    <3>3. -(a[i] * b[N + k - i]) \in Int
      BY <3>2
    <3> QED  BY <2>2, <3>1, <3>3
  <2> QED  BY <2>1, <2>2
<1>3. Sum(f, N) \in Int
  <2> HIDE DEF f
  <2> QED  BY <1>1, <1>2, SumType
<1>4. PolyMul(a, b)[k] = Sum(f, N) % 3329
  BY DEF PolyMul, Q
<1> HIDE DEF f
<1>5. Below(Sum(f, N) % 3329, 3328)
  BY <1>3 DEF Below
<1> QED  BY <1>4, <1>5

(* indcpa_keypair packs coefficients below q. *)
LEMMA KeypairReduced ==
  ASSUME SampledBelowQ, NoiseSmall, NEW bytes
  PROVE  ReducedVec(Keypair(bytes).pk.vec)
<1> SUFFICES ASSUME NEW i \in Indices, NEW k \in Positions
             PROVE  Below(Keypair(bytes).pk.vec[i][k], 3328)
  BY DEF ReducedVec, Reduced
<1> DEFINE seeds == HashG(bytes)
           a == GenMatrix(seeds.publicseed, FALSE)
           s == [j \in Indices |-> Prf(seeds.noiseseed, j)]
           e == [j \in Indices |-> Prf(seeds.noiseseed, K + j)]
           t == [j \in Indices |-> PointwiseAcc(a[j], s)]
<1>1. /\ K \in Nat /\ 2 <= K /\ K <= 4
      /\ \A j \in Indices : j \in 0 .. 2 * K /\ K + j \in 0 .. 2 * K
  BY KyberAssumption DEF Indices
<1>2. \A j \in Indices : Reduced(a[i][j])
  BY DEF GenMatrix, SampledBelowQ
<1>3. \A j \in Indices, l \in Positions : s[j][l] \in Int
  BY <1>1 DEF NoiseSmall
<1>4. ASSUME NEW j \in Indices
      PROVE  Reduced(PolyMul(a[i][j], s[j]))
  <2> HIDE DEF a, s
  <2> DEFINE p == a[i][j]
             r == s[j]
  <2>1. Reduced(p) /\ \A l \in Positions : r[l] \in Int
    BY <1>2, <1>3
  <2> HIDE DEF p, r
  <2>2. \A l \in Positions : p[l] \in Int /\ r[l] \in Int
    BY <2>1 DEF Reduced, Below
  <2>3. Reduced(PolyMul(p, r))
    BY <2>2, PolyMulReduced
  <2> QED  BY <2>3 DEF p, r
<1> DEFINE f == [j \in Indices |-> PolyMul(a[i][j], s[j])[k]]
<1>5. ASSUME NEW j \in 0 .. K - 1
      PROVE  Below(f[j], 3328)
  <2>1. j \in Indices
    BY DEF Indices
  <2> DEFINE w == PolyMul(a[i][j], s[j])
  <2>2. Reduced(w) /\ f[j] = w[k]
    BY <1>4, <2>1
  <2> HIDE DEF w, f
  <2> QED  BY <2>2 DEF Reduced
<1>6. Below(Sum(f, K), K * 3328)
  <2> HIDE DEF f
  <2> QED  BY <1>1, <1>5, SumBound
<1>7. Sum(f, K) \in Word
  BY <1>1, <1>6, Words DEF Below
<1>8. t[i][k] = Red16[Sum(f, K)]
  BY DEF PointwiseAcc
<1>9. Below(t[i][k], 3329)
  <2> DEFINE w == Sum(f, K)
  <2> HIDE DEF w
  <2>1. Below(Red16[w], 3329)
    BY <1>7, Red16Right DEF w
  <2> HIDE DEF t, f
  <2> QED  BY <1>8, <2>1 DEF w
<1>10. e[i][k] \in Int /\ -3 <= e[i][k] /\ e[i][k] <= 3
  BY <1>1 DEF NoiseSmall
<1> DEFINE x == t[i][k] + e[i][k]
<1>11. x \in Word
  <2> HIDE DEF t, e
  <2> QED  BY <1>9, <1>10, Words DEF Below
<1>12. Keypair(bytes).pk.vec[i][k] = CSubQ[Red16[x]]
  BY DEF Keypair, PackPk, Packed, VecReduce, PolyReduce, VecAdd, PolyAdd
<1> HIDE DEF x
<1> QED  BY <1>11, <1>12, Remainder

(* randomPK too, *)
LEMMA RandomPKReduced ==
  ASSUME SampledBelowQ, NEW seed1, NEW seed2
  PROVE  ReducedVec(RandomPK(seed1, seed2).vec)
<1> SUFFICES ASSUME NEW i \in Indices, NEW k \in Positions
             PROVE  Below(RandomPK(seed1, seed2).vec[i][k], 3328)
  BY DEF ReducedVec, Reduced
<1>1. 0 \in Indices
  BY KyberAssumption DEF Indices
<1>2. Below(Xof(seed1, 0, i)[k], 3328)
  BY <1>1 DEF SampledBelowQ, Reduced
<1>3. RandomPK(seed1, seed2).vec[i][k] = CSubQ[Xof(seed1, 0, i)[k]]
  BY <1>1 DEF RandomPK, PackPk, Packed, GenMatrix
<1>4. CSubQ[Xof(seed1, 0, i)[k]] = Xof(seed1, 0, i)[k]
  BY <1>2, CSubQRight DEF Below
<1> QED  BY <1>2, <1>3, <1>4

(* What pkMinus takes off a key pkPlus puts on again. *)
LEMMA MinusPlus ==
  ASSUME NEW vec, NEW seed, NEW h, ReducedVec(PackPk(vec, seed).vec), ReducedVec(h.vec)
  PROVE  PkPlus(PkMinus(PackPk(vec, seed), h), h) = PackPk(vec, seed)
<1> DEFINE key == PackPk(vec, seed)
           diff == PkMinus(key, h)
           sum == PkPlus(diff, h)
<1>1. ASSUME NEW i \in Indices, NEW k \in Positions
      PROVE  sum.vec[i][k] = key.vec[i][k]
  <2>1. Below(key.vec[i][k], 3328) /\ Below(h.vec[i][k], 3328)
    BY DEF ReducedVec, Reduced
  <2>2. diff.vec[i][k] = CSubQ[Red16[key.vec[i][k] - h.vec[i][k]]]
    BY DEF PkMinus, PackPk, Packed, VecReduce, PolyReduce, VecSub, PolySub
  <2>3. sum.vec[i][k] = CSubQ[Red16[diff.vec[i][k] + h.vec[i][k]]]
    <3> HIDE DEF diff
    <3> QED  BY DEF PkPlus, PackPk, Packed, VecReduce, PolyReduce, VecAdd, PolyAdd
  <2> HIDE DEF key, diff, sum
  <2> DEFINE x == key.vec[i][k]
             y == h.vec[i][k]
  <2>4. CSubQ[Red16[CSubQ[Red16[x - y]] + y]] = x
    <3>1. Below(x, 3328) /\ Below(y, 3328)
      BY <2>1
    <3> HIDE DEF x, y
    <3> QED  BY <3>1, SubtractAdd
  <2> QED  BY <2>2, <2>3, <2>4
<1>2. diff.seed = seed
  BY DEF PkMinus, PackPk
<1>3. sum = [vec |-> [i \in Indices |-> [k \in Positions |-> sum.vec[i][k]]], seed |-> seed]
  <2> HIDE DEF diff
  <2> QED  BY <1>2 DEF PkPlus, PackPk, Packed
<1>4. key = [vec |-> [i \in Indices |-> [k \in Positions |-> key.vec[i][k]]], seed |-> seed]
  BY DEF PackPk, Packed
<1> HIDE DEF key, diff, sum
<1>5. sum = key
  BY <1>1, <1>3, <1>4
<1> QED  BY <1>5 DEF key, diff, sum

-----------------------------------------------------------------------------
(* Sequences, whatever is in them. *)
IsSeq(s) == \E S : s \in Seq(S)

LEMMA LenType ==
  ASSUME NEW s, IsSeq(s)
  PROVE  Len(s) \in Nat /\ DOMAIN s = 1 .. Len(s) /\ (Len(s) = 0 <=> s = <<>>)
<1>1. PICK S : s \in Seq(S)
  BY DEF IsSeq
<1> QED  BY <1>1

LEMMA EmptyIsSeq == IsSeq(<<>>) /\ Len(<<>>) = 0
<1>1. <<>> \in Seq({}) /\ Len(<<>>) = 0
  BY EmptySeq
<1> QED  BY <1>1, Zenon DEF IsSeq

LEMMA ListIsSeq ==
  ASSUME NEW n \in Nat, NEW f, f = [i \in 1 .. n |-> f[i]]
  PROVE  IsSeq(f) /\ Len(f) = n
<1> DEFINE S == {f[i] : i \in 1 .. n}
<1>1. f \in [1 .. n -> S]
  OBVIOUS
<1>2. f \in Seq(S) /\ Len(f) = n
  <2> HIDE DEF S
  <2> QED  BY <1>1
<1> HIDE DEF S
<1> QED  BY <1>2 DEF IsSeq

LEMMA SingleIsSeq ==
  ASSUME NEW e
  PROVE  IsSeq(<<e>>) /\ Len(<<e>>) = 1 /\ <<e>>[1] = e
<1> DEFINE S == {e}
<1>1. <<e>> \in Seq(S) /\ Len(<<e>>) = 1 /\ <<e>>[1] = e
  OBVIOUS
<1> HIDE DEF S
<1> QED  BY <1>1, Zenon DEF IsSeq

LEMMA Appended ==
  ASSUME NEW s, IsSeq(s), NEW e
  PROVE  /\ IsSeq(Append(s, e)) /\ Len(Append(s, e)) = Len(s) + 1
         /\ \A i \in 1 .. Len(s) : Append(s, e)[i] = s[i]
         /\ Append(s, e)[Len(s) + 1] = e
<1>1. PICK S : s \in Seq(S)
  BY DEF IsSeq
<1> DEFINE T == S \cup {e}
<1>2. s \in Seq(T)
  BY <1>1, SeqMonotonic
<1>3. e \in T
  OBVIOUS
<1> HIDE DEF T
<1> DEFINE t == Append(s, e)
<1>4. /\ t \in Seq(T) /\ Len(t) = Len(s) + 1
      /\ \A i \in 1 .. Len(s) : t[i] = s[i]
      /\ t[Len(s) + 1] = e
  BY <1>2, <1>3, AppendProperties
<1> HIDE DEF t
<1>5. IsSeq(t)
  BY <1>4, Zenon DEF IsSeq
<1> QED  BY <1>4, <1>5 DEF t

LEMMA Concatenated ==
  ASSUME NEW s, IsSeq(s), NEW t, IsSeq(t)
  PROVE  /\ IsSeq(s \o t) /\ Len(s \o t) = Len(s) + Len(t)
         /\ \A i \in 1 .. Len(s) : (s \o t)[i] = s[i]
         /\ \A i \in 1 .. Len(t) : (s \o t)[Len(s) + i] = t[i]
<1>1. PICK S : s \in Seq(S)
  BY DEF IsSeq
<1>2. PICK T : t \in Seq(T)
  BY DEF IsSeq
<1> DEFINE R == S \cup T
<1>3. s \in Seq(R) /\ t \in Seq(R)
  BY <1>1, <1>2, SeqMonotonic
<1> HIDE DEF R
<1> DEFINE u == s \o t
<1>4. /\ u \in Seq(R) /\ Len(u) = Len(s) + Len(t)
      /\ \A i \in 1 .. Len(s) + Len(t) : u[i] = IF i <= Len(s) THEN s[i] ELSE t[i - Len(s)]
  BY <1>3, ConcatProperties
<1>5. Len(s) \in Nat /\ Len(t) \in Nat
  BY <1>3
<1> HIDE DEF u
<1>6. IsSeq(u)
  BY <1>4, Zenon DEF IsSeq
<1>7. \A i \in 1 .. Len(s) : u[i] = s[i]
  BY <1>4, <1>5
<1>8. \A i \in 1 .. Len(t) : u[Len(s) + i] = t[i]
  BY <1>4, <1>5
<1> QED  BY <1>4, <1>6, <1>7, <1>8 DEF u

LEMMA Dropped ==
  ASSUME NEW s, IsSeq(s), NEW n \in Nat, n <= Len(s)
  PROVE  /\ IsSeq(SubSeq(s, n + 1, Len(s))) /\ Len(SubSeq(s, n + 1, Len(s))) = Len(s) - n
         /\ \A i \in 1 .. Len(s) - n : SubSeq(s, n + 1, Len(s))[i] = s[n + i]
<1>1. PICK S : s \in Seq(S)
  BY DEF IsSeq
<1> DEFINE m == n + 1
           l == Len(s)
           t == SubSeq(s, m, l)
<1>2. m \in Int /\ l \in Nat /\ n <= l
  BY <1>1
<1>3. \A i \in m .. l : s[i] \in S
  BY <1>1
<1> HIDE DEF m, l
<1>4. t \in Seq(S) /\ Len(t) = (IF m <= l THEN l - m + 1 ELSE 0)
      /\ \A i \in 1 .. l - m + 1 : t[i] = s[m + i - 1]
  BY <1>2, <1>3, SubSeqProperties
<1> HIDE DEF t
<1>5. IsSeq(t)
  BY <1>4, Zenon DEF IsSeq
<1>6. Len(t) = l - n
  BY <1>2, <1>4 DEF m
<1>7. ASSUME NEW i \in 1 .. l - n
      PROVE  t[i] = s[n + i]
  <2>1. i \in 1 .. l - m + 1 /\ m + i - 1 = n + i
    BY <1>2 DEF m
  <2> QED  BY <1>4, <2>1
<1> QED  BY <1>5, <1>6, <1>7 DEF t, m, l

LEMMA Tailed ==
  ASSUME NEW s, IsSeq(s), Len(s) > 0
  PROVE  /\ IsSeq(Tail(s)) /\ Len(Tail(s)) = Len(s) - 1
         /\ \A i \in 1 .. Len(s) - 1 : Tail(s)[i] = s[i + 1]
         /\ Head(s) = s[1]
<1>1. PICK S : s \in Seq(S)
  BY DEF IsSeq
<1>2. s # <<>>
  BY <1>1, LenType
<1> DEFINE t == Tail(s)
<1>3. t \in Seq(S) /\ Len(t) = Len(s) - 1 /\ \A i \in 1 .. Len(t) : t[i] = s[i + 1]
  BY <1>1, <1>2, HeadTailProperties
<1>4. Head(s) = s[1]
  BY <1>1, <1>2
<1> HIDE DEF t
<1>5. IsSeq(t)
  BY <1>3, Zenon DEF IsSeq
<1> QED  BY <1>3, <1>4, <1>5 DEF t

LEMMA Replaced ==
  ASSUME NEW s, IsSeq(s), NEW i \in 1 .. Len(s), NEW e
  PROVE  /\ IsSeq([s EXCEPT ![i] = e]) /\ Len([s EXCEPT ![i] = e]) = Len(s)
         /\ \A j \in 1 .. Len(s) : [s EXCEPT ![i] = e][j] = IF j = i THEN e ELSE s[j]
<1>1. PICK S : s \in Seq(S)
  BY DEF IsSeq
<1> DEFINE T == S \cup {e}
<1>2. s \in Seq(T)
  BY <1>1, SeqMonotonic
<1>3. e \in T
  OBVIOUS
<1> HIDE DEF T
<1> DEFINE t == [s EXCEPT ![i] = e]
<1>4. /\ t \in Seq(T) /\ Len(t) = Len(s)
      /\ \A j \in 1 .. Len(s) : t[j] = IF j = i THEN e ELSE s[j]
  BY <1>2, <1>3, ExceptSeq
<1> HIDE DEF t
<1>5. IsSeq(t)
  BY <1>4, Zenon DEF IsSeq
<1> QED  BY <1>4, <1>5 DEF t

-----------------------------------------------------------------------------
ReceiverSteps == {"keypair", "seed", "send", "recv", "done"}
SenderSteps == {"recv", "coins0", "encrypt0", "coins1", "encrypt1", "send", "done"}

(* The sender has a message in hand; it has encrypted half of an answer;   *)
(* the whole answers on their way or about to be; a batch's messages.      *)
Busy == pc[SENDER] \in {"coins0", "encrypt0", "coins1", "encrypt1"}
Half == IF pc[SENDER] \in {"coins1", "encrypt1"} THEN 1 ELSE 0
Answered == Len(toReceiver) + Len(ciphertexts) - Half
Batch == IF mode[RECEIVER] = "all" THEN LEN ELSE 1

Typed ==
  /\ mode \in [Threads -> Modes]
  /\ mode[SENDER] = "all" => (mode[RECEIVER] = "all" \/ LEN = 1)
  /\ pc = [t \in Threads |-> pc[t]]
  /\ pc[RECEIVER] \in ReceiverSteps /\ pc[SENDER] \in SenderSteps
  /\ at \in [Threads -> 1 .. LEN + 1]
  /\ inside = [t \in Threads |-> inside[t]]
  /\ IsSeq(receivers) /\ IsSeq(toSender) /\ IsSeq(toReceiver) /\ IsSeq(ciphertexts)
  /\ IsSeq(received)

(* A thread is inside randombytes only at the steps that draw. *)
Drawing ==
  /\ inside[RECEIVER] # <<>> => pc[RECEIVER] \in {"keypair", "seed"}
  /\ inside[SENDER] # <<>> => pc[SENDER] \in {"coins0", "coins1"}

(* The receiver's current OT, and its objects and blocks so far. *)
Progress ==
  /\ IF pc[RECEIVER] = "done" THEN at[RECEIVER] = LEN + 1 ELSE at[RECEIVER] <= LEN
  /\ pc[RECEIVER] \in {"send", "recv"} /\ mode[RECEIVER] = "all" => at[RECEIVER] = LEN
  /\ Len(receivers) = IF pc[RECEIVER] \in {"keypair", "done"} THEN at[RECEIVER] - 1
                      ELSE at[RECEIVER]
  /\ Len(received) = IF mode[RECEIVER] = "all" THEN (IF pc[RECEIVER] = "done" THEN LEN ELSE 0)
                     ELSE at[RECEIVER] - 1

(* While the receiver waits, and only then, a batch is out, of which every *)
(* OT is a message to the sender or an answer.                             *)
Turns ==
  /\ Len(toSender) + Answered = IF pc[RECEIVER] = "recv" THEN Batch ELSE 0
  /\ at[SENDER] = Len(received) + Answered + 1
  /\ Busy => Len(toSender) > 0
  /\ Half <= Len(ciphertexts)

Control == Typed /\ Drawing /\ Progress /\ Turns

LEMMA TwoThreads ==
  /\ Threads = {RECEIVER, SENDER} /\ RECEIVER # SENDER
  /\ RECEIVER \in Threads /\ SENDER \in Threads
  /\ \A t \in Threads : t = RECEIVER \/ t = SENDER
BY DEF Threads, RECEIVER, SENDER

LEMMA ControlInit ==
  ASSUME Init
  PROVE  Control
<1>1. IsSeq(<<>>) /\ Len(<<>>) = 0
  BY EmptyIsSeq
<1>2. LEN \in Nat /\ 1 <= LEN
  BY BatchAssumption
<1>3. Typed
  BY <1>1, <1>2, TwoThreads DEF Init, Typed, ReceiverSteps, SenderSteps
<1>4. /\ pc[RECEIVER] = "keypair" /\ pc[SENDER] = "recv" /\ at[RECEIVER] = 1 /\ at[SENDER] = 1
      /\ inside[RECEIVER] = <<>> /\ inside[SENDER] = <<>>
      /\ Len(receivers) = 0 /\ Len(ciphertexts) = 0 /\ Len(toSender) = 0
      /\ Len(toReceiver) = 0 /\ Len(received) = 0
  BY <1>1, TwoThreads DEF Init
<1>5. Drawing /\ Progress
  BY <1>2, <1>4 DEF Drawing, Progress
<1>6. Half = 0 /\ ~Busy
  BY <1>4 DEF Half, Busy
<1>7. Turns
  BY <1>4, <1>6 DEF Turns, Answered
<1> QED  BY <1>3, <1>5, <1>7 DEF Control

LEMMA ControlLens ==
  ASSUME Control
  PROVE  /\ Len(receivers) \in Nat /\ Len(toSender) \in Nat /\ Len(toReceiver) \in Nat
         /\ Len(ciphertexts) \in Nat /\ Len(received) \in Nat
         /\ at[RECEIVER] \in Nat /\ at[SENDER] \in Nat /\ 1 <= at[RECEIVER] /\ 1 <= at[SENDER]
         /\ at[RECEIVER] <= LEN + 1 /\ at[SENDER] <= LEN + 1
         /\ LEN \in Nat /\ 1 <= LEN
<1>1. /\ Len(receivers) \in Nat /\ Len(toSender) \in Nat /\ Len(toReceiver) \in Nat
      /\ Len(ciphertexts) \in Nat /\ Len(received) \in Nat
  BY LenType DEF Control, Typed
<1>2. LEN \in Nat /\ 1 <= LEN
  BY BatchAssumption
<1>3. at[RECEIVER] \in 1 .. LEN + 1 /\ at[SENDER] \in 1 .. LEN + 1
  BY TwoThreads DEF Control, Typed
<1> QED  BY <1>1, <1>2, <1>3

LEMMA ControlEnter ==
  ASSUME Control, NEW t \in Threads, NEW step, Enter(t, step),
         \/ t = RECEIVER /\ step \in {"keypair", "seed"}
         \/ t = SENDER /\ step \in {"coins0", "coins1"}
  PROVE  Control'
<1>1. Typed'
  BY DEF Enter, Control, Typed, inputs
<1>2. Drawing'
  BY TwoThreads DEF Enter, Control, Typed, Drawing
<1>3. Progress' /\ Turns'
  BY DEF Enter, Control, Progress, Turns, Answered, Half, Busy, Batch, inputs
<1> QED  BY <1>1, <1>2, <1>3 DEF Control

LEMMA ControlReceiverKeypair ==
  ASSUME Control, ReceiverKeypair
  PROVE  Control'
<1> DEFINE o == [b |-> choices[at[RECEIVER]], secretKey |-> Keypair(Bytes(RECEIVER)).sk,
                 pk |-> Keypair(Bytes(RECEIVER)).pk, keys |-> <<>>]
<1>1. IsSeq(receivers') /\ Len(receivers') = Len(receivers) + 1
  <2>1. receivers' = Append(receivers, o)
    BY DEF ReceiverKeypair
  <2> HIDE DEF o
  <2> QED  BY <2>1, Appended DEF Control, Typed
<1>2. /\ pc[RECEIVER] = "keypair" /\ pc'[RECEIVER] = "seed" /\ pc'[SENDER] = pc[SENDER]
      /\ pc' = [t \in Threads |-> pc'[t]]
      /\ inside'[RECEIVER] = <<>> /\ inside'[SENDER] = inside[SENDER]
      /\ inside' = [t \in Threads |-> inside'[t]]
      /\ UNCHANGED <<mode, at, ciphertexts, toSender, toReceiver, received>>
  BY TwoThreads DEF ReceiverKeypair, Leave, Goto, Control, Typed, inputs
<1>3. Typed'
  BY <1>1, <1>2 DEF Control, Typed, ReceiverSteps
<1>4. Drawing' /\ Progress'
  BY <1>1, <1>2, ControlLens DEF Control, Drawing, Progress
<1>5. Turns'
  BY <1>2 DEF Control, Turns, Answered, Half, Busy, Batch
<1> QED  BY <1>3, <1>4, <1>5 DEF Control

LEMMA ControlReceiverKeys ==
  ASSUME Control, ReceiverKeys
  PROVE  Control'
<1> USE ControlLens
<1>1. PICK keys : receivers' = [receivers EXCEPT ![Len(receivers)].keys = keys]
  BY DEF ReceiverKeys
<1> DEFINE more == mode[RECEIVER] = "all" /\ at[RECEIVER] < LEN
<1>2. /\ pc[RECEIVER] = "seed" /\ pc'[RECEIVER] = (IF more THEN "keypair" ELSE "send")
      /\ pc'[SENDER] = pc[SENDER] /\ pc' = [t \in Threads |-> pc'[t]]
      /\ inside'[RECEIVER] = <<>> /\ inside'[SENDER] = inside[SENDER]
      /\ inside' = [t \in Threads |-> inside'[t]]
      /\ at'[RECEIVER] = (IF more THEN at[RECEIVER] + 1 ELSE at[RECEIVER])
      /\ at'[SENDER] = at[SENDER]
      /\ UNCHANGED <<mode, ciphertexts, toSender, toReceiver, received>>
  BY TwoThreads DEF ReceiverKeys, Leave, Goto, Control, Typed, inputs
<1>3. at' \in [Threads -> 1 .. LEN + 1]
  BY TwoThreads DEF ReceiverKeys, Control, Typed
<1>4. Len(receivers) = at[RECEIVER] /\ at[RECEIVER] <= LEN
  BY <1>2 DEF Control, Progress
<1>5. IsSeq(receivers') /\ Len(receivers') = Len(receivers)
  <2> DEFINE o == [receivers[Len(receivers)] EXCEPT !.keys = keys]
  <2>1. receivers' = [receivers EXCEPT ![Len(receivers)] = o]
    BY <1>1
  <2>2. Len(receivers) \in 1 .. Len(receivers)
    BY <1>4
  <2> HIDE DEF o
  <2> QED  BY <2>1, <2>2, Replaced DEF Control, Typed
<1>6. Typed'
  BY <1>2, <1>3, <1>5 DEF Control, Typed, ReceiverSteps
<1>7. Drawing' /\ Progress'
  BY <1>2, <1>4, <1>5 DEF Control, Typed, Drawing, Progress, Modes
<1>8. Turns'
  BY <1>2 DEF Control, Turns, Answered, Half, Busy, Batch
<1> QED  BY <1>6, <1>7, <1>8 DEF Control

LEMMA ControlReceiverSends ==
  ASSUME Control, ReceiverSends
  PROVE  Control'
<1> USE ControlLens
<1>1. PICK out : IsSeq(out) /\ Len(out) = Batch /\ toSender' = toSender \o out
  <2>1. CASE mode[RECEIVER] = "all"
    <3> DEFINE out == [i \in 1 .. LEN |-> receivers[i].keys]
    <3>1. out = [i \in 1 .. LEN |-> out[i]]
      OBVIOUS
    <3>2. toSender' = toSender \o out
      BY <2>1 DEF ReceiverSends
    <3> HIDE DEF out
    <3>3. IsSeq(out) /\ Len(out) = LEN
      BY <3>1, ListIsSeq
    <3> QED  BY <2>1, <3>2, <3>3 DEF Batch
  <2>2. CASE mode[RECEIVER] # "all"
    <3> DEFINE out == <<receivers[at[RECEIVER]].keys>>
    <3>1. IsSeq(out) /\ Len(out) = 1
      BY SingleIsSeq
    <3>2. toSender' = toSender \o out
      BY <2>2 DEF ReceiverSends
    <3> HIDE DEF out
    <3> QED  BY <2>2, <3>1, <3>2 DEF Batch
  <2> QED  BY <2>1, <2>2
<1>2. IsSeq(toSender') /\ Len(toSender') = Len(toSender) + Batch /\ Batch \in Nat
  BY <1>1, Concatenated, LenType DEF Control, Typed
<1>3. /\ pc[RECEIVER] = "send" /\ pc'[RECEIVER] = "recv" /\ pc'[SENDER] = pc[SENDER]
      /\ pc' = [t \in Threads |-> pc'[t]]
      /\ UNCHANGED <<mode, at, inside, receivers, ciphertexts, toReceiver, received>>
  BY TwoThreads DEF ReceiverSends, Goto, Control, Typed, inputs
<1>4. Typed'
  BY <1>2, <1>3 DEF Control, Typed, ReceiverSteps
<1>5. Drawing' /\ Progress'
  BY <1>3 DEF Control, Drawing, Progress
<1>6. Half' = Half /\ Half \in {0, 1} /\ Batch' = Batch /\ (Busy' <=> Busy)
  BY <1>3 DEF Half, Batch, Busy
<1>7. Answered' = Answered /\ Answered \in Int
  BY <1>3, <1>6 DEF Answered
<1>8. /\ Len(toSender) + Answered = 0 /\ at[SENDER] = Len(received) + Answered + 1
      /\ Busy => Len(toSender) > 0
      /\ Half <= Len(ciphertexts)
  BY <1>3 DEF Control, Turns
<1>9. Len(toSender') + Answered' = Batch' /\ (Busy' => Len(toSender') > 0)
  BY <1>2, <1>6, <1>7, <1>8
<1>10. Turns'
  BY <1>3, <1>6, <1>7, <1>8, <1>9 DEF Turns
<1> QED  BY <1>4, <1>5, <1>10 DEF Control

LEMMA ControlReceiverDecrypts ==
  ASSUME Control, ReceiverDecrypts
  PROVE  Control'
<1> USE ControlLens
<1>1. pc[RECEIVER] = "recv" /\ Batch \in Nat /\ 1 <= Batch /\ Batch <= Len(toReceiver)
  BY DEF ReceiverDecrypts, Batch
<1>2. PICK out : IsSeq(out) /\ Len(out) = Batch /\ received' = received \o out
  <2> DEFINE first == IF mode[RECEIVER] = "all" THEN 1 ELSE at[RECEIVER]
             out == [i \in 1 .. Batch |-> Decrypted(receivers[first + i - 1], toReceiver[i])]
  <2>1. out = [i \in 1 .. Batch |-> out[i]]
    OBVIOUS
  <2>2. received' = received \o out
    BY DEF ReceiverDecrypts, Batch
  <2> HIDE DEF out
  <2>3. IsSeq(out) /\ Len(out) = Batch
    BY <1>1, <2>1, ListIsSeq
  <2> QED  BY <2>2, <2>3
<1>3. IsSeq(received') /\ Len(received') = Len(received) + Batch
  BY <1>2, Concatenated DEF Control, Typed
<1>4. IsSeq(toReceiver') /\ Len(toReceiver') = Len(toReceiver) - Batch
  <2>1. toReceiver' = SubSeq(toReceiver, Batch + 1, Len(toReceiver))
    BY DEF ReceiverDecrypts, Batch
  <2> QED  BY <1>1, <2>1, Dropped DEF Control, Typed
<1>5. /\ pc'[RECEIVER] = (IF at[RECEIVER] < LEN THEN "keypair" ELSE "done")
      /\ pc'[SENDER] = pc[SENDER] /\ pc' = [t \in Threads |-> pc'[t]]
      /\ at'[RECEIVER] = at[RECEIVER] + 1 /\ at'[SENDER] = at[SENDER]
      /\ UNCHANGED <<mode, inside, receivers, ciphertexts, toSender>>
  BY TwoThreads DEF ReceiverDecrypts, Goto, Control, Typed, inputs
<1>6. at[RECEIVER] <= LEN /\ Len(receivers) = at[RECEIVER]
      /\ (mode[RECEIVER] = "all" => at[RECEIVER] = LEN /\ Len(received) = 0)
  BY <1>1 DEF Control, Progress
<1>7. at' \in [Threads -> 1 .. LEN + 1]
  BY <1>6, TwoThreads, SMTT(30) DEF ReceiverDecrypts, Control, Typed
<1>8. Typed'
  BY <1>3, <1>4, <1>5, <1>7 DEF Control, Typed, ReceiverSteps
<1>9. Drawing'
  BY <1>1, <1>5 DEF Control, Drawing
<1>10. Progress'
  BY <1>1, <1>3, <1>5, <1>6 DEF Control, Progress, Batch
<1>11. Half' = Half /\ Batch' = Batch /\ (Busy' <=> Busy) /\ Half \in {0, 1}
  BY <1>5 DEF Half, Batch, Busy
<1>12. /\ Len(toSender) + (Len(toReceiver) + Len(ciphertexts) - Half) = Batch
       /\ at[SENDER] = Len(received) + (Len(toReceiver) + Len(ciphertexts) - Half) + 1
       /\ Busy => Len(toSender) > 0
       /\ Half <= Len(ciphertexts)
  BY <1>1 DEF Control, Turns, Answered
<1>13. Answered' = Len(toReceiver) - Batch + Len(ciphertexts) - Half
  BY <1>4, <1>5, <1>11 DEF Answered
<1>14. pc'[RECEIVER] # "recv"
  BY <1>5
<1>15. /\ Len(toSender) + Answered' = 0
       /\ at[SENDER] = Len(received) + Batch + Answered' + 1
       /\ ~Busy
  <2>1. Len(toSender) = 0 /\ Len(toReceiver) = Batch /\ Len(ciphertexts) = Half
    <3> DEFINE asked == Len(toSender)
               sent == Len(toReceiver)
               made == Len(ciphertexts)
    <3>1. asked \in Nat /\ sent \in Nat /\ made \in Nat /\ Batch \in Nat /\ Half \in Nat
      BY <1>1, <1>11
    <3>2. Batch <= sent /\ Half <= made /\ asked + (sent + made - Half) = Batch
      BY <1>1, <1>12
    <3> HIDE DEF asked, sent, made
    <3>3. asked = 0 /\ sent = Batch /\ made = Half
      BY <3>1, <3>2
    <3> QED  BY <3>3 DEF asked, sent, made
  <2>2. Answered' = 0
    BY <1>1, <1>11, <1>13, <2>1
  <2>3. at[SENDER] = Len(received) + Batch + 1
    BY <1>1, <1>11, <1>12, <2>1
  <2>4. ~Busy
    BY <1>12, <2>1
  <2> QED  BY <1>1, <2>1, <2>2, <2>3, <2>4
<1>16. Half' <= Len(ciphertexts')
  BY <1>5, <1>11, <1>12
<1>17. Turns'
  BY <1>3, <1>5, <1>11, <1>14, <1>15, <1>16 DEF Turns
<1> QED  BY <1>8, <1>9, <1>10, <1>17 DEF Control

LEMMA ControlSenderReceives ==
  ASSUME Control, SenderReceives
  PROVE  Control'
<1> USE ControlLens
<1>1. /\ pc[SENDER] = "recv" /\ pc'[SENDER] = "coins0" /\ pc'[RECEIVER] = pc[RECEIVER]
      /\ pc' = [t \in Threads |-> pc'[t]]
      /\ UNCHANGED <<mode, at, inside, receivers, ciphertexts, toSender, toReceiver, received>>
  BY TwoThreads DEF SenderReceives, Goto, Control, Typed, inputs
<1>2. Len(toSender) >= 1
  BY DEF SenderReceives
<1>3. Typed'
  BY <1>1 DEF Control, Typed, SenderSteps
<1>4. Drawing' /\ Progress'
  BY <1>1 DEF Control, Drawing, Progress
<1>5. UNCHANGED <<Half, Answered, Batch>>
  BY <1>1 DEF Half, Answered, Batch
<1>6. Turns'
  BY <1>1, <1>2, <1>5 DEF Control, Turns
<1> QED  BY <1>3, <1>4, <1>6 DEF Control

LEMMA ControlSenderCoins ==
  ASSUME Control, NEW k \in {0, 1}, SenderCoins(k)
  PROVE  Control'
<1>1. /\ pc[SENDER] = CoinsOf(k) /\ pc'[SENDER] = EncryptOf(k) /\ pc'[RECEIVER] = pc[RECEIVER]
      /\ pc' = [t \in Threads |-> pc'[t]]
      /\ inside'[SENDER] = <<>> /\ inside'[RECEIVER] = inside[RECEIVER]
      /\ inside' = [t \in Threads |-> inside'[t]]
      /\ UNCHANGED <<mode, at, receivers, ciphertexts, toSender, toReceiver, received>>
  BY TwoThreads DEF SenderCoins, Leave, Goto, Control, Typed, inputs
<1>2. CoinsOf(k) \in {"coins0", "coins1"} /\ EncryptOf(k) \in {"encrypt0", "encrypt1"}
      /\ (CoinsOf(k) = "coins1" <=> EncryptOf(k) = "encrypt1")
  BY DEF CoinsOf, EncryptOf
<1>3. Typed'
  BY <1>1, <1>2 DEF Control, Typed, SenderSteps
<1>4. Drawing' /\ Progress'
  BY <1>1, <1>2 DEF Control, Drawing, Progress
<1>5. UNCHANGED <<Half, Batch>> /\ Busy
  BY <1>1, <1>2 DEF Half, Batch, Busy
<1>6. UNCHANGED Answered
  BY <1>1, <1>5 DEF Answered
<1>7. Turns'
  BY <1>1, <1>5, <1>6 DEF Control, Turns
<1> QED  BY <1>3, <1>4, <1>7 DEF Control

LEMMA ControlSenderEncryptsFirst ==
  ASSUME Control, SenderEncrypts(0)
  PROVE  Control'
<1> USE ControlLens
<1>1. PICK e : ciphertexts' = Append(ciphertexts, e)
  BY DEF SenderEncrypts
<1>2. IsSeq(ciphertexts') /\ Len(ciphertexts') = Len(ciphertexts) + 1
  BY <1>1, Appended DEF Control, Typed
<1>3. /\ pc[SENDER] = "encrypt0" /\ pc'[SENDER] = "coins1" /\ pc'[RECEIVER] = pc[RECEIVER]
      /\ pc' = [t \in Threads |-> pc'[t]]
      /\ UNCHANGED <<mode, at, inside, receivers, toSender, toReceiver, received>>
  BY TwoThreads DEF SenderEncrypts, EncryptOf, Goto, Control, Typed, inputs
<1>4. Typed'
  BY <1>2, <1>3 DEF Control, Typed, SenderSteps
<1>5. Drawing' /\ Progress'
  BY <1>3 DEF Control, Drawing, Progress
<1>6. Half = 0 /\ Half' = 1 /\ Batch' = Batch /\ Busy
  BY <1>3 DEF Half, Batch, Busy
<1>7. Answered' = Answered
  BY <1>2, <1>3, <1>6 DEF Answered
<1>8. Turns'
  BY <1>2, <1>3, <1>6, <1>7 DEF Control, Turns
<1> QED  BY <1>4, <1>5, <1>8 DEF Control

LEMMA ControlSenderEncryptsSecond ==
  ASSUME Control, SenderEncrypts(1)
  PROVE  Control'
<1> USE ControlLens
<1> DEFINE more == mode[SENDER] = "all" /\ at[SENDER] < LEN
<1>1. /\ pc[SENDER] = "encrypt1" /\ pc' = [pc EXCEPT ![SENDER] = IF more THEN "coins0" ELSE "send"]
      /\ at' = [at EXCEPT ![SENDER] = @ + 1] /\ toSender' = Tail(toSender)
      /\ UNCHANGED <<mode, inside, receivers, toReceiver, received>>
  <2>1. 1 # 0
    OBVIOUS
  <2> QED  BY <2>1, Zenon DEF SenderEncrypts, EncryptOf, Goto, inputs
<1>2. pc = [t \in Threads |-> pc[t]] /\ at = [t \in Threads |-> at[t]]
  BY DEF Control, Typed
<1>3. /\ pc[SENDER] = "encrypt1" /\ pc'[SENDER] = (IF more THEN "coins0" ELSE "send")
      /\ pc'[RECEIVER] = pc[RECEIVER] /\ pc' = [t \in Threads |-> pc'[t]]
      /\ at'[SENDER] = at[SENDER] + 1 /\ at'[RECEIVER] = at[RECEIVER]
      /\ toSender' = Tail(toSender)
      /\ UNCHANGED <<mode, inside, receivers, toReceiver, received>>
  <2> HIDE DEF more
  <2> QED  BY <1>1, <1>2, TwoThreads
<1>4. Half = 1 /\ Half' = 0 /\ Batch' = Batch /\ Busy
  BY <1>3 DEF Half, Batch, Busy
<1>5. Len(toSender) > 0 /\ Len(ciphertexts) > 0
  BY <1>4 DEF Control, Turns
<1>6. IsSeq(ciphertexts') /\ Len(ciphertexts') = Len(ciphertexts)
  <2> DEFINE last == Len(ciphertexts)
  <2>1. PICK e : ciphertexts' = [ciphertexts EXCEPT ![last] = e]
    BY SMTT(30) DEF SenderEncrypts
  <2>2. last \in 1 .. last
    BY <1>5
  <2> QED  BY <2>1, <2>2, Replaced DEF Control, Typed
<1>7. IsSeq(toSender') /\ Len(toSender') = Len(toSender) - 1
  BY <1>3, <1>5, Tailed DEF Control, Typed
<1>8. /\ Len(toSender) + (Len(toReceiver) + Len(ciphertexts) - 1) = Batch
      /\ at[SENDER] = Len(received) + (Len(toReceiver) + Len(ciphertexts) - 1) + 1
      /\ pc[RECEIVER] = "recv"
  <2>1. pc[RECEIVER] = "recv"
    BY <1>4, <1>5 DEF Control, Turns, Answered
  <2> QED  BY <1>4, <2>1 DEF Control, Turns, Answered
<1>9. at[SENDER] <= LEN /\ (more => Len(toSender) >= 2)
  <2>1. CASE mode[RECEIVER] = "all"
    <3>1. Len(received) = 0 /\ Batch = LEN
      BY <1>8, <2>1 DEF Control, Progress, Batch
    <3> QED  BY <1>5, <1>8, <3>1
  <2>2. CASE mode[RECEIVER] # "all"
    <3>1. Len(received) = at[RECEIVER] - 1 /\ at[RECEIVER] <= LEN /\ Batch = 1
      BY <1>8, <2>2 DEF Control, Progress, Batch
    <3>2. ~more
      BY <2>2 DEF Control, Typed
    <3> QED  BY <1>5, <1>8, <3>1, <3>2
  <2> QED  BY <2>1, <2>2
<1>10. at' \in [Threads -> 1 .. LEN + 1]
  BY <1>1, <1>9, TwoThreads DEF Control, Typed
<1>11. Typed'
  BY <1>3, <1>6, <1>7, <1>10 DEF Control, Typed, SenderSteps
<1>12. Drawing' /\ Progress'
  BY <1>3 DEF Control, Drawing, Progress
<1>13. Answered' = Len(toReceiver) + Len(ciphertexts) /\ (Busy' <=> more)
  BY <1>3, <1>4, <1>6 DEF Answered, Busy
<1>14. Len(toSender') + Answered' = Batch
  BY <1>7, <1>8, <1>13
<1>15. at'[SENDER] = Len(received') + Answered' + 1 /\ Half' <= Len(ciphertexts')
  <2>1. at'[SENDER] = Len(received) + (Len(toReceiver) + Len(ciphertexts)) + 1
    BY <1>3, <1>8
  <2>2. received' = received
    BY <1>3
  <2> QED  BY <1>4, <1>6, <1>13, <2>1, <2>2
<1>16. Busy' => Len(toSender') > 0
  BY <1>7, <1>9, <1>13
<1>17. Turns'
  BY <1>3, <1>4, <1>8, <1>14, <1>15, <1>16 DEF Turns
<1> QED  BY <1>11, <1>12, <1>17 DEF Control

LEMMA ControlSenderSends ==
  ASSUME Control, SenderSends
  PROVE  Control'
<1> USE ControlLens
<1>1. IsSeq(ciphertexts') /\ Len(ciphertexts') = 0
  BY EmptyIsSeq DEF SenderSends
<1>2. IsSeq(toReceiver') /\ Len(toReceiver') = Len(toReceiver) + Len(ciphertexts)
  BY Concatenated DEF SenderSends, Control, Typed
<1>3. /\ pc[SENDER] = "send" /\ pc'[SENDER] \in {"recv", "done"} /\ pc'[RECEIVER] = pc[RECEIVER]
      /\ pc' = [t \in Threads |-> pc'[t]]
      /\ UNCHANGED <<mode, at, inside, receivers, toSender, received>>
  BY TwoThreads DEF SenderSends, Goto, Control, Typed, inputs
<1>4. Typed'
  BY <1>1, <1>2, <1>3 DEF Control, Typed, SenderSteps
<1>5. Drawing' /\ Progress'
  BY <1>3 DEF Control, Drawing, Progress
<1>6. Half = 0 /\ Half' = 0 /\ Batch' = Batch /\ ~Busy'
  BY <1>3 DEF Half, Batch, Busy
<1>7. Answered' = Answered
  BY <1>1, <1>2, <1>6 DEF Answered
<1>8. Turns'
  BY <1>1, <1>3, <1>6, <1>7 DEF Control, Turns
<1> QED  BY <1>4, <1>5, <1>8 DEF Control

LEMMA ControlStep ==
  ASSUME Control, [Next]_vars
  PROVE  Control'
<1>1. CASE Receiver
  BY <1>1, TwoThreads, ControlEnter, ControlReceiverKeypair, ControlReceiverKeys,
     ControlReceiverSends, ControlReceiverDecrypts DEF Receiver
<1>2. CASE Sender
  <2>1. ASSUME NEW k \in {0, 1}, Enter(SENDER, CoinsOf(k))
        PROVE  Control'
    BY <2>1, TwoThreads, ControlEnter DEF CoinsOf
  <2>2. ASSUME NEW k \in {0, 1}, SenderEncrypts(k)
        PROVE  Control'
    BY <2>2, ControlSenderEncryptsFirst, ControlSenderEncryptsSecond
  <2> QED  BY <1>2, <2>1, <2>2, ControlSenderReceives, ControlSenderSends, ControlSenderCoins
           DEF Sender
<1>3. CASE UNCHANGED vars
  BY <1>3 DEF vars, Control, Typed, Drawing, Progress, Turns, Answered, Half, Busy, Batch
<1> QED  BY <1>1, <1>2, <1>3 DEF Next

(***************************************************************************)
(* The counts of messages, objects and blocks fit the steps of the two     *)
(* threads in every state.                                                 *)
(***************************************************************************)
THEOREM ControlHolds == Spec => []Control
<1>1. Init => Control
  BY ControlInit
<1>2. Control /\ [Next]_vars => Control'
  BY ControlStep
<1> QED  BY <1>1, <1>2, PTL DEF Spec

(***************************************************************************)
(* Both calls returned, the connection holds no message of the batch       *)
(* (ConnectionLeftEmpty): what the receiver sent was answered once each,   *)
(* and it counted its answers off whichever form the sender took.          *)
(***************************************************************************)
THEOREM ConnectionLeftEmptyHolds == Spec => []ConnectionLeftEmpty
<1>1. Control => ConnectionLeftEmpty
  <2> SUFFICES ASSUME Control, Done
               PROVE  toSender = <<>> /\ toReceiver = <<>>
    BY DEF ConnectionLeftEmpty
  <2>1. pc[RECEIVER] = "done" /\ pc[SENDER] = "done"
    BY TwoThreads DEF Done
  <2>2. Half = 0
    BY <2>1 DEF Half
  <2>3. Len(toSender) = 0 /\ Len(toReceiver) = 0
    BY <2>1, <2>2, ControlLens DEF Control, Turns, Answered
  <2> QED  BY <2>3, LenType DEF Control, Typed
<1> QED  BY <1>1, ControlHolds, PTL

(* Where the receiver does not wait, nothing is on its way. *)
LEMMA Quiet ==
  ASSUME Control, pc[RECEIVER] # "recv"
  PROVE  /\ Len(toSender) = 0 /\ Len(toReceiver) = 0 /\ Len(ciphertexts) = 0 /\ ~Busy
         /\ Half = 0 /\ at[SENDER] = Len(received) + 1
<1> USE ControlLens
<1>1. /\ Len(toSender) + (Len(toReceiver) + Len(ciphertexts) - Half) = 0
      /\ at[SENDER] = Len(received) + (Len(toReceiver) + Len(ciphertexts) - Half) + 1
      /\ Busy => Len(toSender) > 0
      /\ Half <= Len(ciphertexts)
  BY DEF Control, Turns, Answered
<1>2. Half \in {0, 1} /\ (Half = 1 => Busy)
  BY DEF Half, Busy
<1>3. Len(toSender) = 0 /\ Len(toReceiver) = 0 /\ Len(ciphertexts) = Half
  BY <1>1, <1>2
<1> QED  BY <1>1, <1>2, <1>3

(* While a thread draws it is its turn, and the other waits. *)
LEMMA Exclusive ==
  ASSUME Control
  PROVE  inside[RECEIVER] = <<>> \/ inside[SENDER] = <<>>
<1> SUFFICES ASSUME inside[RECEIVER] # <<>>, inside[SENDER] # <<>>
             PROVE  FALSE
  OBVIOUS
<1>1. pc[RECEIVER] # "recv" /\ Busy
  BY DEF Control, Drawing, Busy
<1> QED  BY <1>1, Quiet

(***************************************************************************)
(* RngExclusive: two threads of a process are never both in randombytes,   *)
(* for every length of a batch and every combination of the forms.         *)
(***************************************************************************)
THEOREM RngExclusiveHolds == Spec => []RngExclusive
<1>1. Control => RngExclusive
  BY Exclusive, TwoThreads DEF RngExclusive
<1> QED  BY <1>1, ControlHolds, PTL

-----------------------------------------------------------------------------
(* What a thread has read in randombytes is still the generator's state. *)
Reading == \A t \in Threads : inside[t] # <<>> => inside[t] = <<drbg[Process(t)]>>

Generators == drbg = [t \in Threads |-> drbg[t]] /\ Reading /\ EveryDrawAdvances

(* While the sender has a message in hand its OT is one of the batch. *)
LEMMA BusyAt ==
  ASSUME Control, Busy
  PROVE  at[SENDER] <= LEN /\ pc[RECEIVER] = "recv"
<1> USE ControlLens
<1>1. pc[RECEIVER] = "recv"
  BY Quiet
<1>2. /\ Len(toSender) + Answered = Batch /\ Len(toSender) > 0
      /\ at[SENDER] = Len(received) + Answered + 1
  BY <1>1 DEF Control, Turns
<1>3. Half \in {0, 1} /\ Answered \in Int
  BY DEF Half, Answered
<1>4. Len(received) + Batch <= LEN /\ Batch \in Nat
  BY <1>1 DEF Control, Progress, Batch
<1> QED  BY <1>1, <1>2, <1>3, <1>4

LEMMA DrawnBounds ==
  ASSUME Control
  PROVE  /\ Drawn = [t \in Threads |-> Drawn[t]]
         /\ Drawn[RECEIVER] \in Nat /\ Drawn[SENDER] \in Nat
         /\ Drawn[RECEIVER] <= 2 * LEN /\ Drawn[SENDER] <= 2 * LEN
         /\ pc[RECEIVER] \in {"keypair", "seed"} => Drawn[RECEIVER] < 2 * LEN
         /\ pc[SENDER] \in {"coins0", "coins1"} => Drawn[SENDER] < 2 * LEN
<1> USE ControlLens
<1>1. Drawn[RECEIVER] = 2 * Len(receivers) - IF pc[RECEIVER] = "seed" THEN 1 ELSE 0
  BY TwoThreads DEF Drawn
<1>2. Drawn[SENDER] = 2 * at[SENDER] -
        IF pc[SENDER] = "encrypt1" THEN 0
        ELSE IF pc[SENDER] \in {"encrypt0", "coins1"} THEN 1 ELSE 2
  BY TwoThreads DEF Drawn
<1>3. /\ Len(receivers) = IF pc[RECEIVER] \in {"keypair", "done"} THEN at[RECEIVER] - 1
                          ELSE at[RECEIVER]
      /\ IF pc[RECEIVER] = "done" THEN at[RECEIVER] = LEN + 1 ELSE at[RECEIVER] <= LEN
  BY DEF Control, Progress
<1>4. /\ Drawn[RECEIVER] \in Nat /\ Drawn[RECEIVER] <= 2 * LEN
      /\ pc[RECEIVER] \in {"keypair", "seed"} => Drawn[RECEIVER] < 2 * LEN
  <2>1. Len(receivers) <= LEN
    BY <1>3
  <2>2. pc[RECEIVER] = "keypair" => Len(receivers) + 1 <= LEN
    BY <1>3
  <2>3. pc[RECEIVER] = "seed" => Len(receivers) >= 1
    BY <1>3
  <2> DEFINE n == Len(receivers)
  <2>4. n \in Nat
    OBVIOUS
  <2> HIDE DEF n
  <2>5. CASE pc[RECEIVER] = "seed"
    <3>1. Drawn[RECEIVER] = 2 * n - 1 /\ n <= LEN /\ n >= 1
      BY <1>1, <2>1, <2>3, <2>5 DEF n
    <3> QED  BY <2>4, <3>1
  <2>6. CASE pc[RECEIVER] # "seed"
    <3>1. Drawn[RECEIVER] = 2 * n /\ n <= LEN
      BY <1>1, <2>1, <2>4, <2>6 DEF n
    <3>2. pc[RECEIVER] = "keypair" => n + 1 <= LEN
      BY <2>2 DEF n
    <3> QED  BY <2>4, <2>6, <3>1, <3>2
  <2> QED  BY <2>5, <2>6
<1>5. pc[SENDER] \in {"coins0", "encrypt0", "coins1", "encrypt1"} => at[SENDER] <= LEN
  BY BusyAt DEF Busy
<1>6. /\ Drawn[SENDER] \in Nat /\ Drawn[SENDER] <= 2 * LEN
      /\ pc[SENDER] \in {"coins0", "coins1"} => Drawn[SENDER] < 2 * LEN
  BY <1>2, <1>5, SMTT(30)
<1>7. Drawn = [t \in Threads |-> Drawn[t]]
  BY DEF Drawn
<1> QED  BY <1>4, <1>6, <1>7

LEMMA GeneratorsInit ==
  ASSUME Init
  PROVE  Generators
<1>1. Control
  BY ControlInit
<1>2. /\ drbg \in [Threads -> Seeds] /\ inside = [t \in Threads |-> <<>>]
      /\ pc[RECEIVER] = "keypair" /\ pc[SENDER] = "recv" /\ at[SENDER] = 1
      /\ Len(receivers) = 0
  BY EmptyIsSeq, TwoThreads DEF Init
<1>3. Drawn[RECEIVER] = 0 /\ Drawn[SENDER] = 0
  BY <1>2, TwoThreads DEF Drawn
<1>4. EveryDrawAdvances
  <2> SUFFICES ASSUME NEW t \in Threads
               PROVE  \E seed \in Seeds : drbg[Process(t)] =
                        seed + (IF oneProcess THEN Drawn[RECEIVER] + Drawn[SENDER] ELSE Drawn[t])
    BY DEF EveryDrawAdvances
  <2>1. drbg[Process(t)] \in Seeds /\ drbg[Process(t)] \in Nat
    BY <1>2, TwoThreads, BatchAssumption DEF Process
  <2>2. (IF oneProcess THEN Drawn[RECEIVER] + Drawn[SENDER] ELSE Drawn[t]) = 0
    BY <1>3, TwoThreads
  <2> HIDE DEF Drawn
  <2> QED  BY <2>1, <2>2
<1> QED  BY <1>2, <1>4 DEF Generators, Reading

(* A thread that leaves advances its generator, which no other thread has  *)
(* read.                                                                   *)
LEMMA LeaveAdvances ==
  ASSUME Control, Generators, NEW t \in Threads, inside[t] # <<>>,
         drbg' = [drbg EXCEPT ![Process(t)] = inside[t][1] + 1],
         inside' = [inside EXCEPT ![t] = <<>>], oneProcess' = oneProcess,
         Drawn' = [Drawn EXCEPT ![t] = @ + 1]
  PROVE  Generators'
<1> USE DrawnBounds
<1> DEFINE p == Process(t)
<1>1. p \in Threads /\ inside[t] = <<drbg[p]>>
  BY TwoThreads DEF Generators, Reading, Process
<1>2. drbg' = [drbg EXCEPT ![p] = drbg[p] + 1] /\ drbg = [u \in Threads |-> drbg[u]]
  BY <1>1 DEF Generators
<1>3. inside = [u \in Threads |-> inside[u]]
  BY DEF Control, Typed
<1>4. \A u \in Threads : Process(u)' = Process(u)
  BY DEF Process
<1>5. Reading'
  <2> SUFFICES ASSUME NEW u \in Threads, inside'[u] # <<>>
               PROVE  inside'[u] = <<drbg'[Process(u)]>>
    BY <1>4 DEF Reading
  <2>1. u # t /\ inside'[u] = inside[u]
    BY <1>3
  <2>2. ~oneProcess
    BY <2>1, Exclusive, TwoThreads
  <2>3. Process(u) = u /\ p = t
    BY <2>2 DEF Process
  <2>4. drbg'[u] = drbg[u]
    BY <1>2, <2>1, <2>3
  <2> HIDE DEF p
  <2> QED  BY <2>1, <2>3, <2>4 DEF Generators, Reading
<1>6. EveryDrawAdvances'
  <2> DEFINE Total(u) == IF oneProcess THEN Drawn[RECEIVER] + Drawn[SENDER] ELSE Drawn[u]
  <2> SUFFICES ASSUME NEW u \in Threads
               PROVE  \E seed \in Seeds : drbg'[Process(u)] = seed + Total(u)'
    BY <1>4 DEF EveryDrawAdvances
  <2>1. PICK seed \in Seeds : drbg[Process(u)] = seed + Total(u)
    BY DEF Generators, EveryDrawAdvances
  <2>2. seed \in Int /\ Total(u) \in Int
    BY BatchAssumption, TwoThreads
  <2>3. CASE oneProcess \/ u = t
    <3>1. Process(u) = p
      BY <2>3 DEF Process
    <3>2. Total(u)' = Total(u) + 1
      BY <2>3, TwoThreads
    <3>3. drbg'[p] = drbg[p] + 1
      BY <1>1, <1>2
    <3> HIDE DEF p, Total
    <3>4. drbg'[p] = seed + Total(u)'
      BY <2>1, <2>2, <3>1, <3>2, <3>3
    <3> QED  BY <3>1, <3>4
  <2>4. CASE ~oneProcess /\ u # t
    <3>1. Process(u) = u /\ p = t
      BY <2>4 DEF Process
    <3>2. Total(u)' = Total(u)
      BY <2>4
    <3>3. drbg'[u] = drbg[u]
      BY <1>2, <2>4, <3>1
    <3> HIDE DEF p, Total
    <3> QED  BY <2>1, <3>1, <3>2, <3>3
  <2> QED  BY <2>3, <2>4
<1>7. drbg' = [u \in Threads |-> drbg'[u]]
  BY <1>2
<1> QED  BY <1>5, <1>6, <1>7 DEF Generators

LEMMA GeneratorsKept ==
  ASSUME Generators, UNCHANGED <<drbg, inside, oneProcess>>, Drawn' = Drawn
  PROVE  Generators'
BY DEF Generators, Reading, EveryDrawAdvances, Process

LEMMA GeneratorsStep ==
  ASSUME Control, Generators, [Next]_vars
  PROVE  Generators'
<1> USE ControlLens, TwoThreads
<1>1. pc = [t \in Threads |-> pc[t]] /\ Drawn = [t \in Threads |-> Drawn[t]]
  BY DEF Control, Typed, Drawn
<1>2. ASSUME NEW t \in Threads, NEW step, Enter(t, step)
      PROVE  Generators'
  <2>1. /\ UNCHANGED <<drbg, oneProcess, pc, at, receivers>>
        /\ inside' = [inside EXCEPT ![t] = <<drbg[Process(t)]>>]
    BY <1>2 DEF Enter, inputs
  <2>2. Drawn' = Drawn
    BY <2>1 DEF Drawn
  <2>3. Reading'
    BY <2>1 DEF Control, Typed, Generators, Reading, Process
  <2> QED  BY <2>1, <2>2, <2>3 DEF Generators, EveryDrawAdvances, Process
<1>3. CASE ReceiverKeypair
  <2>1. /\ inside[RECEIVER] # <<>> /\ inside' = [inside EXCEPT ![RECEIVER] = <<>>]
        /\ drbg' = [drbg EXCEPT ![Process(RECEIVER)] = inside[RECEIVER][1] + 1]
        /\ pc[RECEIVER] = "keypair" /\ pc' = [pc EXCEPT ![RECEIVER] = "seed"]
        /\ UNCHANGED <<oneProcess, at>>
    BY <1>3, Zenon DEF ReceiverKeypair, Leave, Goto, inputs
  <2>2. Len(receivers') = Len(receivers) + 1
    <3>1. PICK o : receivers' = Append(receivers, o)
      BY <1>3 DEF ReceiverKeypair
    <3> QED  BY <3>1, Appended DEF Control, Typed
  <2>3. Drawn' = [Drawn EXCEPT ![RECEIVER] = @ + 1]
    <3>1. Drawn'[RECEIVER] = Drawn[RECEIVER] + 1 /\ Drawn'[SENDER] = Drawn[SENDER]
      BY <1>1, <2>1, <2>2 DEF Drawn
    <3>2. Drawn' = [t \in Threads |-> Drawn'[t]]
      BY DEF Drawn
    <3> QED  BY <1>1, <3>1, <3>2
  <2> QED  BY <2>1, <2>3, LeaveAdvances
<1>4. CASE ReceiverKeys
  <2>1. /\ inside[RECEIVER] # <<>> /\ inside' = [inside EXCEPT ![RECEIVER] = <<>>]
        /\ drbg' = [drbg EXCEPT ![Process(RECEIVER)] = inside[RECEIVER][1] + 1]
        /\ pc[RECEIVER] = "seed"
        /\ \E next \in {"keypair", "send"} : pc' = [pc EXCEPT ![RECEIVER] = next]
        /\ oneProcess' = oneProcess /\ at'[SENDER] = at[SENDER]
        /\ \E keys : receivers' = [receivers EXCEPT ![Len(receivers)].keys = keys]
    BY <1>4 DEF ReceiverKeys, Leave, Goto, inputs, Control, Typed
  <2>2. Len(receivers') = Len(receivers)
    <3>1. PICK keys : receivers' = [receivers EXCEPT ![Len(receivers)].keys = keys]
      BY <2>1
    <3> DEFINE o == [receivers[Len(receivers)] EXCEPT !.keys = keys]
    <3>2. receivers' = [receivers EXCEPT ![Len(receivers)] = o]
      BY <3>1
    <3>3. Len(receivers) \in 1 .. Len(receivers)
      BY <2>1 DEF Control, Progress
    <3> HIDE DEF o
    <3> QED  BY <3>2, <3>3, Replaced DEF Control, Typed
  <2>3. Drawn' = [Drawn EXCEPT ![RECEIVER] = @ + 1]
    <3>1. pc'[RECEIVER] # "seed" /\ pc'[SENDER] = pc[SENDER]
      BY <1>1, <2>1
    <3>2. Drawn[RECEIVER] = 2 * Len(receivers) - 1 /\ Drawn'[RECEIVER] = 2 * Len(receivers)
      BY <2>1, <2>2, <3>1 DEF Drawn
    <3>3. Drawn'[SENDER] = Drawn[SENDER]
      BY <2>1, <3>1 DEF Drawn
    <3>4. Drawn' = [t \in Threads |-> Drawn'[t]]
      BY DEF Drawn
    <3> HIDE DEF Drawn
    <3>5. Drawn'[RECEIVER] = Drawn[RECEIVER] + 1
      BY <3>2
    <3> QED  BY <1>1, <3>3, <3>4, <3>5
  <2> QED  BY <2>1, <2>3, LeaveAdvances
<1>5. ASSUME NEW k \in {0, 1}, SenderCoins(k)
      PROVE  Generators'
  <2>1. /\ inside[SENDER] # <<>> /\ inside' = [inside EXCEPT ![SENDER] = <<>>]
        /\ drbg' = [drbg EXCEPT ![Process(SENDER)] = inside[SENDER][1] + 1]
        /\ pc[SENDER] = CoinsOf(k) /\ pc' = [pc EXCEPT ![SENDER] = EncryptOf(k)]
        /\ UNCHANGED <<oneProcess, at, receivers>>
    BY <1>5, Zenon DEF SenderCoins, Leave, Goto, inputs
  <2>2. Drawn' = [Drawn EXCEPT ![SENDER] = @ + 1]
    <3>1. Drawn'[SENDER] = Drawn[SENDER] + 1 /\ Drawn'[RECEIVER] = Drawn[RECEIVER]
      BY <1>1, <2>1 DEF Drawn, CoinsOf, EncryptOf
    <3>2. Drawn' = [t \in Threads |-> Drawn'[t]]
      BY DEF Drawn
    <3> QED  BY <1>1, <3>1, <3>2
  <2> QED  BY <2>1, <2>2, LeaveAdvances
<1>6. ASSUME \/ ReceiverSends \/ ReceiverDecrypts \/ SenderReceives \/ SenderSends
             \/ \E k \in {0, 1} : SenderEncrypts(k)
      PROVE  Generators'
  <2>1. UNCHANGED <<drbg, inside, oneProcess, receivers>>
    BY <1>6 DEF ReceiverSends, ReceiverDecrypts, SenderReceives, SenderSends, SenderEncrypts, inputs
  <2>2. Drawn' = Drawn
    <3>1. CASE ReceiverSends \/ ReceiverDecrypts
      <4>1. /\ pc[RECEIVER] # "seed" /\ pc'[RECEIVER] # "seed" /\ pc'[SENDER] = pc[SENDER]
            /\ at'[SENDER] = at[SENDER]
        BY <1>1, <3>1 DEF ReceiverSends, ReceiverDecrypts, Goto, Control, Typed
      <4> QED  BY <2>1, <4>1 DEF Drawn
    <3>2. CASE SenderReceives \/ SenderSends
      <4>1. /\ pc[SENDER] \in {"recv", "send"} /\ pc'[SENDER] \in {"recv", "coins0", "done"}
            /\ pc'[RECEIVER] = pc[RECEIVER] /\ at' = at
        BY <1>1, <3>2 DEF SenderReceives, SenderSends, Goto
      <4> QED  BY <2>1, <4>1 DEF Drawn
    <3>3. CASE SenderEncrypts(0)
      <4>1. /\ pc[SENDER] = "encrypt0" /\ pc'[SENDER] = "coins1"
            /\ pc'[RECEIVER] = pc[RECEIVER] /\ at' = at
        BY <1>1, <3>3 DEF SenderEncrypts, EncryptOf, Goto
      <4> QED  BY <2>1, <4>1 DEF Drawn
    <3>4. CASE SenderEncrypts(1)
      <4>1. 1 # 0
        OBVIOUS
      <4>2. /\ pc[SENDER] = "encrypt1" /\ at' = [at EXCEPT ![SENDER] = @ + 1]
            /\ Goto(SENDER, IF mode[SENDER] = "all" /\ at[SENDER] < LEN THEN "coins0" ELSE "send")
        BY <3>4, <4>1, Zenon DEF SenderEncrypts, EncryptOf
      <4>3. /\ pc'[SENDER] \in {"coins0", "send"} /\ pc'[RECEIVER] = pc[RECEIVER]
            /\ at'[SENDER] = at[SENDER] + 1
        BY <1>1, <4>2 DEF Goto, Control, Typed
      <4> QED  BY <2>1, <4>2, <4>3, SMTT(30) DEF Drawn
    <3> QED  BY <1>6, <3>1, <3>2, <3>3, <3>4
  <2> QED  BY <2>1, <2>2, GeneratorsKept
<1>7. CASE UNCHANGED vars
  <2>1. UNCHANGED <<drbg, inside, oneProcess>> /\ Drawn' = Drawn
    BY <1>7 DEF vars, Drawn
  <2> QED  BY <2>1, GeneratorsKept
<1> QED  BY <1>2, <1>3, <1>4, <1>5, <1>6, <1>7 DEF Next, Receiver, Sender

LEMMA GeneratorsHold == Spec => [](Control /\ Generators)
<1>1. Init => Control /\ Generators
  BY ControlInit, GeneratorsInit
<1>2. Control /\ Generators /\ [Next]_vars => Control' /\ Generators'
  BY ControlStep, GeneratorsStep
<1> QED  BY <1>1, <1>2, PTL DEF Spec

(***************************************************************************)
(* EveryDrawAdvances: a generator has moved on once for every draw of the  *)
(* threads that use it, so that no state is read twice.                    *)
(***************************************************************************)
THEOREM EveryDrawAdvancesHolds == Spec => []EveryDrawAdvances
<1>1. Generators => EveryDrawAdvances
  BY DEF Generators
<1> QED  BY <1>1, GeneratorsHold, PTL

(* A draw reads one of the states of the batch. *)
LEMMA StateRead ==
  ASSUME Control, Generators, NEW t \in Threads, inside[t] # <<>>
  PROVE  inside[t][1] \in States
<1> USE ControlLens, DrawnBounds
<1> DEFINE total == IF oneProcess THEN Drawn[RECEIVER] + Drawn[SENDER] ELSE Drawn[t]
<1>1. Drawn[t] < 2 * LEN
  BY TwoThreads DEF Control, Drawing
<1>2. total \in 0 .. 4 * LEN - 1
  BY <1>1, TwoThreads, SMTT(30)
<1>3. PICK seed \in Seeds : drbg[Process(t)] = seed + total
  BY DEF Generators, EveryDrawAdvances
<1>4. inside[t][1] = drbg[Process(t)]
  <2> DEFINE s == drbg[Process(t)]
  <2>1. inside[t] = <<s>>
    BY DEF Generators, Reading
  <2> HIDE DEF s
  <2>2. inside[t][1] = s
    BY <2>1
  <2> QED  BY <2>2 DEF s
<1> HIDE DEF total
<1> QED  BY <1>2, <1>3, <1>4 DEF States

-----------------------------------------------------------------------------
(* gen_sender_message's key for item k of a message. *)
SenderKey(keys, k) == PkPlus(keys[k], PkHash(keys[1 - k], keys[0].seed))

(* A Receiver object with the keypair of the bytes drawn from a state. *)
Object(bit, state, keys) ==
  [b |-> bit, secretKey |-> Keypair(Draw(state)).sk, pk |-> Keypair(Draw(state)).pk, keys |-> keys]

(* Item k is one of the OT's ciphertexts: the sender's block under the key *)
(* of the receiver's object.                                               *)
Answer(ciphertext, i) ==
  \E state \in States :
    ciphertext[choices[i] + 1] = Enc(data[i][choices[i]], receivers[i].pk, Draw(state))

Objects ==
  \A i \in 1 .. Len(receivers) : \E state \in States : \E keys :
    receivers[i] = Object(choices[i], state, keys)

(* The keys of a message give the sender the chosen one back. *)
Split ==
  \A i \in 1 .. Len(receivers) :
    i < Len(receivers) \/ pc[RECEIVER] # "seed" =>
      SenderKey(receivers[i].keys, choices[i]) = receivers[i].pk

Messages ==
  \A j \in 1 .. Len(toSender) :
    /\ at[SENDER] + j - 1 <= Len(receivers)
    /\ toSender[j] = receivers[at[SENDER] + j - 1].keys

InHand ==
  \A k \in {0, 1} : pc[SENDER] = EncryptOf(k) =>
    \E state \in States : coins = <<Draw(state)>> /\ pk = <<SenderKey(toSender[1], k)>>

(* The answers on their way, and those not yet sent; of the last of these  *)
(* the sender may have encrypted only the first item.                      *)
Sent == \A j \in 1 .. Len(toReceiver) : Answer(toReceiver[j], Len(received) + j)

FirstOnly(c, i) == IsSeq(c) /\ Len(c) = 1 /\ (choices[i] = 0 => Answer(c, i))

Unsent ==
  \A j \in 1 .. Len(ciphertexts) :
    LET i == Len(received) + Len(toReceiver) + j
    IN  IF Half = 1 /\ j = Len(ciphertexts) THEN FirstOnly(ciphertexts[j], i)
        ELSE Answer(ciphertexts[j], i)

Outcome == \A i \in 1 .. Len(received) : received[i] = items[i]

Inputs == choices \in [1 .. LEN -> {0, 1}] /\ data \in [1 .. LEN -> Pairs]

Contents == Inputs /\ Objects /\ Split /\ Messages /\ InHand /\ Sent /\ Unsent

-----------------------------------------------------------------------------
(* A receiver's keys, put together. *)
KeysOf(key, b, seed) ==
  LET other == RandomPK(seed, key.seed)
      own == PkMinus(key, PkHash(other, key.seed))
  IN  [k \in {0, 1} |-> IF k = b THEN own ELSE other]

(* For the chosen item they give the receiver's own key back. *)
LEMMA KeysFit ==
  ASSUME SampledBelowQ, NoiseSmall, NEW bytes, NEW seed, NEW b \in {0, 1},
         NEW key, key = Keypair(bytes).pk
  PROVE  SenderKey(KeysOf(key, b, seed), b) = key
<1> DEFINE other == RandomPK(seed, key.seed)
           h == PkHash(other, key.seed)
           own == PkMinus(key, h)
           keys == KeysOf(key, b, seed)
<1>1. PICK vec, s : key = PackPk(vec, s)
  BY DEF Keypair
<1>2. own.seed = key.seed
  BY DEF PkMinus, PackPk
<1>3. other.seed = key.seed
  BY DEF RandomPK, PackPk
<1>4. ReducedVec(key.vec)
  BY KeypairReduced
<1>5. ReducedVec(h.vec)
  BY RandomPKReduced DEF PkHash
<1>6. keys[b] = own /\ keys[1 - b] = other /\ keys[0].seed = key.seed
  BY <1>2, <1>3 DEF KeysOf
<1> HIDE DEF keys
<1>7. SenderKey(keys, b) = PkPlus(own, h)
  BY <1>6 DEF SenderKey
<1> HIDE DEF h
<1>8. PkPlus(PkMinus(key, h), h) = key
  BY <1>1, <1>4, <1>5, MinusPlus
<1> QED  BY <1>7, <1>8 DEF keys

(* Where the receiver can decrypt, only its answers are on their way. *)
LEMMA Answers ==
  ASSUME Control, ReceiverDecrypts
  PROVE  /\ Len(toSender) = 0 /\ Len(toReceiver) = Batch /\ Len(ciphertexts) = 0 /\ ~Busy
         /\ Half = 0 /\ Batch \in Nat /\ 1 <= Batch /\ Len(received) + Batch <= LEN
         /\ Len(received) + Batch <= Len(receivers)
         /\ (IF mode[RECEIVER] = "all" THEN 1 ELSE at[RECEIVER]) = Len(received) + 1
<1> USE ControlLens
<1>1. pc[RECEIVER] = "recv" /\ Batch \in Nat /\ 1 <= Batch /\ Batch <= Len(toReceiver)
  BY DEF ReceiverDecrypts, Batch
<1>2. /\ Len(toSender) + (Len(toReceiver) + Len(ciphertexts) - Half) = Batch
      /\ Busy => Len(toSender) > 0
      /\ Half <= Len(ciphertexts)
  BY <1>1 DEF Control, Turns, Answered
<1>3. Half \in {0, 1} /\ (Half = 1 => Busy)
  BY DEF Half, Busy
<1>4. Len(toSender) = 0 /\ Len(toReceiver) = Batch /\ Len(ciphertexts) = Half
  BY <1>1, <1>2, <1>3
<1>5. at[RECEIVER] <= LEN /\ Len(receivers) = at[RECEIVER]
      /\ Len(received) = (IF mode[RECEIVER] = "all" THEN 0 ELSE at[RECEIVER] - 1)
      /\ (mode[RECEIVER] = "all" => at[RECEIVER] = LEN)
  BY <1>1 DEF Control, Progress
<1>6. /\ Len(received) + Batch <= at[RECEIVER]
      /\ (IF mode[RECEIVER] = "all" THEN 1 ELSE at[RECEIVER]) = Len(received) + 1
  BY <1>5 DEF Batch
<1> QED  BY <1>1, <1>2, <1>3, <1>4, <1>5, <1>6

LEMMA ContentsInit ==
  ASSUME Init
  PROVE  Contents
<1>1. /\ Len(receivers) = 0 /\ Len(toSender) = 0 /\ Len(toReceiver) = 0 /\ Len(ciphertexts) = 0
      /\ pc[SENDER] = "recv"
  BY EmptyIsSeq, TwoThreads DEF Init
<1>2. Inputs
  BY DEF Init, Inputs
<1>3. Objects /\ Split /\ Messages /\ Sent /\ Unsent
  BY <1>1 DEF Objects, Split, Messages, Sent, Unsent
<1>4. InHand
  BY <1>1 DEF InHand, EncryptOf
<1> QED  BY <1>2, <1>3, <1>4 DEF Contents

(* A receiver's step that leaves nothing on its way. *)
LEMMA NothingOut ==
  ASSUME Len(toSender') = 0, Len(toReceiver') = 0, Len(ciphertexts') = 0,
         ~Busy, pc'[SENDER] = pc[SENDER]
  PROVE  Messages' /\ InHand' /\ Sent' /\ Unsent'
<1>1. \A k \in {0, 1} : pc'[SENDER] # EncryptOf(k)
  BY DEF Busy, EncryptOf
<1> QED  BY <1>1 DEF Messages, InHand, Sent, Unsent

LEMMA ContentsReceiverKeypair ==
  ASSUME Control, Generators, Contents, ReceiverKeypair
  PROVE  Contents'
<1> USE ControlLens
<1> DEFINE o == Object(choices[at[RECEIVER]], inside[RECEIVER][1], <<>>)
<1>1. /\ pc[RECEIVER] = "keypair" /\ pc'[RECEIVER] = "seed" /\ pc'[SENDER] = pc[SENDER]
      /\ UNCHANGED <<choices, data, ciphertexts, toSender, toReceiver>>
  BY TwoThreads DEF ReceiverKeypair, Leave, Goto, Control, Typed, inputs
<1>2. receivers' = Append(receivers, o)
  BY Zenon DEF ReceiverKeypair, Object, Bytes
<1>3. inside[RECEIVER][1] \in States
  BY StateRead, TwoThreads DEF ReceiverKeypair, Leave
<1>4. Len(receivers) + 1 = at[RECEIVER]
  BY <1>1 DEF Control, Progress
<1> HIDE DEF o
<1>5. /\ Len(receivers') = Len(receivers) + 1
      /\ \A i \in 1 .. Len(receivers) : receivers'[i] = receivers[i]
      /\ receivers'[Len(receivers) + 1] = o
  BY <1>2, Appended DEF Control, Typed
<1>6. Objects'
  <2> SUFFICES ASSUME NEW i \in 1 .. Len(receivers) + 1
               PROVE  \E state \in States : \E keys :
                        receivers'[i] = Object(choices[i], state, keys)
    BY <1>1, <1>5 DEF Objects
  <2>1. CASE i = Len(receivers) + 1
    BY <1>4, <1>5, <1>3, <2>1, Zenon DEF o
  <2>2. CASE i # Len(receivers) + 1
    <3>1. i \in 1 .. Len(receivers)
      BY <2>2
    <3> QED  BY <1>5, <3>1 DEF Contents, Objects
  <2> QED  BY <2>1, <2>2
<1>7. Split'
  <2> SUFFICES ASSUME NEW i \in 1 .. Len(receivers) + 1, i < Len(receivers) + 1
               PROVE  SenderKey(receivers'[i].keys, choices[i]) = receivers'[i].pk
    BY <1>1, <1>5 DEF Split
  <2>1. i \in 1 .. Len(receivers) /\ receivers'[i] = receivers[i]
    BY <1>5
  <2> QED  BY <1>1, <2>1 DEF Contents, Split
<1>8. Messages' /\ InHand' /\ Sent' /\ Unsent'
  BY <1>1, Quiet, NothingOut
<1>9. Inputs'
  BY <1>1 DEF Contents, Inputs
<1> QED  BY <1>6, <1>7, <1>8, <1>9 DEF Contents

LEMMA ContentsReceiverKeys ==
  ASSUME SampledBelowQ, NoiseSmall, Control, Contents, ReceiverKeys
  PROVE  Contents'
<1> USE ControlLens
<1> DEFINE n == Len(receivers)
           b == receivers[n].b
           key == receivers[n].pk
           other == RandomPK(Bytes(RECEIVER), key.seed)
           own == PkMinus(key, PkHash(other, key.seed))
           keys == [k \in {0, 1} |-> IF k = b THEN own ELSE other]
           o == [receivers[n] EXCEPT !.keys = keys]
<1>1. /\ pc[RECEIVER] = "seed" /\ pc'[RECEIVER] # "seed" /\ pc'[SENDER] = pc[SENDER]
      /\ UNCHANGED <<choices, data, ciphertexts, toSender, toReceiver>>
  BY TwoThreads DEF ReceiverKeys, Leave, Goto, Control, Typed, inputs
<1>2. receivers' = [receivers EXCEPT ![n] = o]
  BY DEF ReceiverKeys
<1>3. n \in 1 .. n /\ n = at[RECEIVER] /\ n \in 1 .. LEN
  BY <1>1 DEF Control, Progress
<1>4. PICK state \in States : \E old : receivers[n] = Object(choices[n], state, old)
  BY <1>3 DEF Contents, Objects
<1>5. b \in {0, 1} /\ b = choices[n] /\ key = Keypair(Draw(state)).pk
  BY <1>3, <1>4 DEF Object, Contents, Inputs
<1>6. SenderKey(keys, b) = key
  <2>1. keys = KeysOf(key, b, Bytes(RECEIVER))
    BY Zenon DEF KeysOf
  <2> HIDE DEF b, key, keys
  <2> QED  BY <1>5, <2>1, KeysFit, SMTT(30)
<1>7. o = Object(choices[n], state, keys) /\ o.keys = keys /\ o.pk = key
  <2> HIDE DEF keys
  <2> QED  BY <1>4 DEF Object
<1> HIDE DEF n, b, key, keys, o
<1>8. /\ Len(receivers') = n
      /\ \A i \in 1 .. n : receivers'[i] = IF i = n THEN o ELSE receivers[i]
  <2>1. n \in 1 .. Len(receivers)
    BY <1>3 DEF n
  <2> QED  BY <1>2, <2>1, Replaced DEF Control, Typed, n
<1>9. Objects'
  <2> SUFFICES ASSUME NEW i \in 1 .. n
               PROVE  \E st \in States : \E ks : receivers'[i] = Object(choices[i], st, ks)
    BY <1>1, <1>8 DEF Objects
  <2>1. CASE i = n
    BY <1>7, <1>8, <2>1
  <2>2. CASE i # n
    BY <1>8, <2>2 DEF Contents, Objects, n
  <2> QED  BY <2>1, <2>2
<1>10. Split'
  <2> SUFFICES ASSUME NEW i \in 1 .. n
               PROVE  SenderKey(receivers'[i].keys, choices[i]) = receivers'[i].pk
    BY <1>1, <1>8 DEF Split
  <2>1. CASE i = n
    BY <1>5, <1>6, <1>7, <1>8, <2>1
  <2>2. CASE i # n
    <3>1. i < Len(receivers) /\ i \in 1 .. Len(receivers)
      BY <1>3, <2>2 DEF n
    <3> QED  BY <1>8, <2>2, <3>1 DEF Contents, Split
  <2> QED  BY <2>1, <2>2
<1>11. Messages' /\ InHand' /\ Sent' /\ Unsent'
  BY <1>1, Quiet, NothingOut
<1>12. Inputs'
  BY <1>1 DEF Contents, Inputs
<1> QED  BY <1>9, <1>10, <1>11, <1>12 DEF Contents

LEMMA ContentsReceiverSends ==
  ASSUME Control, Contents, ReceiverSends
  PROVE  Contents'
<1> USE ControlLens
<1>1. /\ pc[RECEIVER] = "send" /\ pc'[RECEIVER] = "recv" /\ pc'[SENDER] = pc[SENDER]
      /\ UNCHANGED <<choices, data, at, receivers, ciphertexts, toReceiver, received>>
  BY TwoThreads DEF ReceiverSends, Goto, Control, Typed, inputs
<1>2. /\ Len(toSender) = 0 /\ Len(toReceiver) = 0 /\ Len(ciphertexts) = 0 /\ ~Busy
      /\ at[SENDER] = Len(received) + 1
  BY <1>1, Quiet
<1>3. Len(receivers) = at[RECEIVER] /\ at[RECEIVER] <= LEN
      /\ (mode[RECEIVER] = "all" => at[RECEIVER] = LEN /\ at[SENDER] = 1)
      /\ (mode[RECEIVER] # "all" => at[SENDER] = at[RECEIVER])
  BY <1>1, <1>2 DEF Control, Progress
<1>4. PICK out : /\ IsSeq(out) /\ toSender' = toSender \o out
                 /\ \A j \in 1 .. Len(out) : /\ at[SENDER] + j - 1 <= Len(receivers)
                                             /\ out[j] = receivers[at[SENDER] + j - 1].keys
  <2>1. CASE mode[RECEIVER] = "all"
    <3> DEFINE out == [i \in 1 .. LEN |-> receivers[i].keys]
    <3>1. out = [i \in 1 .. LEN |-> out[i]] /\ \A j \in 1 .. LEN : out[j] = receivers[j].keys
      OBVIOUS
    <3>2. toSender' = toSender \o out
      BY <2>1 DEF ReceiverSends
    <3> HIDE DEF out
    <3>3. IsSeq(out) /\ Len(out) = LEN
      BY <3>1, ListIsSeq
    <3>4. \A j \in 1 .. LEN : at[SENDER] + j - 1 = j /\ j <= Len(receivers)
      BY <1>3, <2>1
    <3> QED  BY <3>1, <3>2, <3>3, <3>4
  <2>2. CASE mode[RECEIVER] # "all"
    <3> DEFINE out == <<receivers[at[RECEIVER]].keys>>
    <3>1. IsSeq(out) /\ Len(out) = 1 /\ out[1] = receivers[at[RECEIVER]].keys
      BY SingleIsSeq
    <3>2. toSender' = toSender \o out
      BY <2>2 DEF ReceiverSends
    <3> HIDE DEF out
    <3>3. ASSUME NEW j \in 1 .. Len(out)
          PROVE  /\ at[SENDER] + j - 1 <= Len(receivers)
                 /\ out[j] = receivers[at[SENDER] + j - 1].keys
      <4>1. j = 1 /\ at[SENDER] + j - 1 = at[RECEIVER]
        BY <1>3, <2>2, <3>1
      <4> QED  BY <1>3, <3>1, <4>1
    <3> QED  BY <3>1, <3>2, <3>3
  <2> QED  BY <2>1, <2>2
<1>5. Messages'
  <2>1. Len(toSender') = Len(out) /\ \A j \in 1 .. Len(out) : toSender'[j] = out[j]
    <3>1. /\ Len(toSender \o out) = Len(toSender) + Len(out)
          /\ \A j \in 1 .. Len(out) : (toSender \o out)[Len(toSender) + j] = out[j]
      <4>1. IsSeq(toSender) /\ IsSeq(out)
        BY <1>4 DEF Control, Typed
      <4> QED  BY <4>1, Concatenated, SMTT(30)
    <3>2. Len(out) \in Nat
      BY <1>4, LenType
    <3>3. Len(toSender) + Len(out) = Len(out) /\ \A j \in 1 .. Len(out) : Len(toSender) + j = j
      BY <1>2, <3>2
    <3> QED  BY <1>4, <3>1, <3>3
  <2> QED  BY <1>1, <1>4, <2>1 DEF Messages
<1>6. InHand'
  BY <1>1, <1>2 DEF InHand, Busy, EncryptOf
<1>7. Sent' /\ Unsent'
  BY <1>1, <1>2 DEF Sent, Unsent
<1>8. Inputs' /\ Objects' /\ Split'
  BY <1>1 DEF Contents, Inputs, Objects, Split
<1> QED  BY <1>5, <1>6, <1>7, <1>8 DEF Contents

LEMMA ContentsReceiverDecrypts ==
  ASSUME Control, Contents, ReceiverDecrypts
  PROVE  Contents'
<1> USE ControlLens
<1>1. /\ pc[RECEIVER] = "recv" /\ pc'[RECEIVER] # "seed" /\ pc'[SENDER] = pc[SENDER]
      /\ UNCHANGED <<choices, data, receivers, ciphertexts, toSender>>
      /\ toReceiver' = SubSeq(toReceiver, Batch + 1, Len(toReceiver))
  BY TwoThreads DEF ReceiverDecrypts, Goto, Control, Typed, inputs, Batch
<1>2. Len(toReceiver') = 0
  <2>1. Batch \in Nat /\ Batch = Len(toReceiver) /\ IsSeq(toReceiver)
    BY Answers DEF Control, Typed
  <2>2. Len(SubSeq(toReceiver, Batch + 1, Len(toReceiver))) = Len(toReceiver) - Batch
    BY <2>1, Dropped
  <2> QED  BY <1>1, <2>1, <2>2
<1>3. Messages' /\ InHand' /\ Sent' /\ Unsent'
  BY <1>1, <1>2, Answers, NothingOut
<1>4. Inputs' /\ Objects' /\ Split'
  BY <1>1 DEF Contents, Inputs, Objects, Split
<1> QED  BY <1>3, <1>4 DEF Contents

-----------------------------------------------------------------------------
(* A sender's step touches neither the receiver's objects nor the blocks. *)
LEMMA ContentsSenderReceives ==
  ASSUME Control, Contents, SenderReceives
  PROVE  Contents'
<1>1. /\ pc[SENDER] = "recv" /\ pc'[SENDER] = "coins0" /\ pc'[RECEIVER] = pc[RECEIVER]
      /\ UNCHANGED <<choices, data, at, receivers, ciphertexts, toSender, toReceiver, received>>
  BY TwoThreads DEF SenderReceives, Goto, Control, Typed, inputs
<1>2. Half' = Half
  BY <1>1 DEF Half
<1>3. InHand'
  BY <1>1 DEF InHand, EncryptOf
<1>4. Messages' /\ Sent' /\ Unsent'
  BY <1>1, <1>2 DEF Contents, Messages, Sent, Unsent, FirstOnly, Answer
<1>5. Inputs' /\ Objects' /\ Split'
  BY <1>1 DEF Contents, Inputs, Objects, Split
<1> QED  BY <1>3, <1>4, <1>5 DEF Contents

LEMMA ContentsSenderCoins ==
  ASSUME Control, Generators, Contents, NEW k \in {0, 1}, SenderCoins(k)
  PROVE  Contents'
<1> USE ControlLens
<1>1. /\ pc[SENDER] = CoinsOf(k) /\ pc'[SENDER] = EncryptOf(k) /\ pc'[RECEIVER] = pc[RECEIVER]
      /\ UNCHANGED <<choices, data, at, receivers, ciphertexts, toSender, toReceiver, received>>
  BY TwoThreads DEF SenderCoins, Leave, Goto, Control, Typed, inputs
<1>2. Half' = Half /\ Busy
  BY <1>1 DEF Half, Busy, CoinsOf, EncryptOf
<1>3. Head(toSender) = toSender[1]
  BY <1>2, Tailed DEF Control, Typed, Turns
<1>4. inside[SENDER][1] \in States
  BY StateRead, TwoThreads DEF SenderCoins, Leave
<1>5. coins' = <<Draw(inside[SENDER][1])>> /\ pk' = <<SenderKey(toSender[1], k)>>
  BY <1>3, Zenon DEF SenderCoins, SenderKey, Bytes
<1>6. \A l \in {0, 1} : pc'[SENDER] = EncryptOf(l) => l = k
  BY <1>1 DEF EncryptOf
<1>7. InHand'
  BY <1>1, <1>5, <1>6, <1>4, Zenon DEF InHand
<1>8. Messages' /\ Sent' /\ Unsent'
  BY <1>1, <1>2 DEF Contents, Messages, Sent, Unsent, FirstOnly, Answer
<1>9. Inputs' /\ Objects' /\ Split'
  BY <1>1 DEF Contents, Inputs, Objects, Split
<1> QED  BY <1>7, <1>8, <1>9 DEF Contents

(* The key at hand for the item the receiver chose. *)
LEMMA ChosenKey ==
  ASSUME Control, Contents, NEW k \in {0, 1}, pc[SENDER] = EncryptOf(k)
  PROVE  /\ at[SENDER] \in 1 .. Len(receivers) /\ at[SENDER] <= LEN
         /\ choices[at[SENDER]] = k => pk = <<receivers[at[SENDER]].pk>>
         /\ \E state \in States : coins = <<Draw(state)>>
<1> USE ControlLens
<1>1. Busy
  BY DEF Busy, EncryptOf
<1>2. Len(toSender) > 0 /\ 1 \in 1 .. Len(toSender)
  BY <1>1 DEF Control, Turns
<1>3. pc[RECEIVER] = "recv"
  BY <1>1, Quiet
<1>4. at[SENDER] + 1 - 1 <= Len(receivers) /\ toSender[1] = receivers[at[SENDER] + 1 - 1].keys
  BY <1>2 DEF Contents, Messages
<1>5. at[SENDER] \in 1 .. Len(receivers) /\ toSender[1] = receivers[at[SENDER]].keys
  BY <1>4
<1>6. at[SENDER] <= LEN
  BY <1>3, <1>5 DEF Control, Progress
<1>7. SenderKey(toSender[1], choices[at[SENDER]]) = receivers[at[SENDER]].pk
  BY <1>3, <1>5 DEF Contents, Split
<1>8. \E state \in States : coins = <<Draw(state)>> /\ pk = <<SenderKey(toSender[1], k)>>
  BY Zenon DEF Contents, InHand
<1> QED  BY <1>5, <1>6, <1>7, <1>8

LEMMA ContentsSenderEncryptsFirst ==
  ASSUME Control, Contents, SenderEncrypts(0)
  PROVE  Contents'
<1> USE ControlLens
<1> DEFINE e == Enc(data[at[SENDER]][0], pk[1], coins[1])
           c == <<e>>
           n == Len(ciphertexts)
<1>1. /\ pc[SENDER] = "encrypt0" /\ pc'[SENDER] = "coins1" /\ pc'[RECEIVER] = pc[RECEIVER]
      /\ UNCHANGED <<choices, data, at, receivers, toSender, toReceiver, received>>
  BY TwoThreads DEF SenderEncrypts, EncryptOf, Goto, Control, Typed, inputs
<1>2. ciphertexts' = Append(ciphertexts, c)
  BY DEF SenderEncrypts
<1>3. Half = 0 /\ Half' = 1
  BY <1>1 DEF Half
<1>4. choices[at[SENDER]] = 0 => pk[1] = receivers[at[SENDER]].pk
  <2>1. choices[at[SENDER]] = 0 => pk = <<receivers[at[SENDER]].pk>>
    BY <1>1, ChosenKey DEF EncryptOf
  <2> QED  BY <2>1
<1>5. \E state \in States : coins[1] = Draw(state)
  <2>1. PICK state \in States : coins = <<Draw(state)>>
    BY <1>1, ChosenKey DEF EncryptOf
  <2> QED  BY <2>1
<1>6. IsSeq(c) /\ Len(c) = 1 /\ c[1] = e
  BY SingleIsSeq
<1>7. at[SENDER] = Len(received) + Len(toReceiver) + n + 1
  BY <1>3 DEF Control, Turns, Answered
<1>8. choices[at[SENDER]] = 0 => Answer(c, at[SENDER])
  <2> SUFFICES ASSUME choices[at[SENDER]] = 0
               PROVE  Answer(c, at[SENDER])
    OBVIOUS
  <2>1. PICK state \in States : coins[1] = Draw(state)
    BY <1>5
  <2>2. e = Enc(data[at[SENDER]][0], receivers[at[SENDER]].pk, Draw(state))
    BY <1>4, <2>1
  <2> HIDE DEF e, c
  <2>3. c[choices[at[SENDER]] + 1] = Enc(data[at[SENDER]][choices[at[SENDER]]],
                                         receivers[at[SENDER]].pk, Draw(state))
    BY <1>6, <2>2
  <2> QED  BY <2>3, Zenon DEF Answer
<1> HIDE DEF e, c
<1>9. /\ Len(ciphertexts') = n + 1 /\ ciphertexts'[n + 1] = c
      /\ \A j \in 1 .. n : ciphertexts'[j] = ciphertexts[j]
  BY <1>2, Appended DEF Control, Typed
<1>10. Unsent'
  <2> SUFFICES ASSUME NEW j \in 1 .. n + 1
               PROVE  LET i == Len(received) + Len(toReceiver) + j
                      IN  IF j = n + 1 THEN FirstOnly(ciphertexts'[j], i)
                          ELSE Answer(ciphertexts'[j], i)
    <3>1. \A x, i : (FirstOnly(x, i)' <=> FirstOnly(x, i)) /\ (Answer(x, i)' <=> Answer(x, i))
      BY <1>1 DEF FirstOnly, Answer
    <3> QED  BY <1>1, <1>3, <1>9, <3>1 DEF Unsent
  <2>1. CASE j = n + 1
    <3>1. Len(received) + Len(toReceiver) + j = at[SENDER]
      BY <1>7, <2>1
    <3> QED  BY <1>6, <1>8, <1>9, <2>1, <3>1 DEF FirstOnly
  <2>2. CASE j # n + 1
    <3>1. j \in 1 .. n
      BY <2>2
    <3> QED  BY <1>3, <1>9, <2>2, <3>1 DEF Contents, Unsent
  <2> QED  BY <2>1, <2>2
<1>11. InHand'
  BY <1>1 DEF InHand, EncryptOf
<1>12. Messages' /\ Sent'
  BY <1>1 DEF Contents, Messages, Sent, Answer
<1>13. Inputs' /\ Objects' /\ Split'
  BY <1>1 DEF Contents, Inputs, Objects, Split
<1> QED  BY <1>10, <1>11, <1>12, <1>13 DEF Contents

LEMMA ContentsSenderEncryptsSecond ==
  ASSUME Control, Contents, SenderEncrypts(1)
  PROVE  Contents'
<1> USE ControlLens
<1> DEFINE e == Enc(data[at[SENDER]][1], pk[1], coins[1])
           n == Len(ciphertexts)
           old == ciphertexts[n]
           c == Append(old, e)
<1>1. /\ pc[SENDER] = "encrypt1" /\ pc'[SENDER] \in {"coins0", "send"}
      /\ pc'[RECEIVER] = pc[RECEIVER] /\ at'[SENDER] = at[SENDER] + 1
      /\ toSender' = Tail(toSender) /\ ciphertexts' = [ciphertexts EXCEPT ![n] = c]
      /\ UNCHANGED <<choices, data, receivers, toReceiver, received>>
  <2> DEFINE more == mode[SENDER] = "all" /\ at[SENDER] < LEN
  <2>1. 1 # 0
    OBVIOUS
  <2>2. /\ pc[SENDER] = "encrypt1"
        /\ pc' = [pc EXCEPT ![SENDER] = IF more THEN "coins0" ELSE "send"]
        /\ at' = [at EXCEPT ![SENDER] = @ + 1] /\ toSender' = Tail(toSender)
        /\ ciphertexts' = [ciphertexts EXCEPT ![n] = c]
        /\ UNCHANGED <<choices, data, receivers, toReceiver, received>>
    BY <2>1, Zenon DEF SenderEncrypts, EncryptOf, Goto, inputs
  <2>3. pc = [t \in Threads |-> pc[t]] /\ at = [t \in Threads |-> at[t]]
    BY DEF Control, Typed
  <2> HIDE DEF more, c, n
  <2> QED  BY <2>2, <2>3, TwoThreads
<1>2. Half = 1 /\ Half' = 0 /\ Busy
  BY <1>1 DEF Half, Busy
<1>3. Len(toSender) > 0 /\ n > 0 /\ n \in 1 .. n
  BY <1>2 DEF Control, Turns
<1>4. at[SENDER] = Len(received) + Len(toReceiver) + n
  BY <1>2 DEF Control, Turns, Answered
<1>5. /\ IsSeq(old) /\ Len(old) = 1
      /\ choices[at[SENDER]] = 0 => Answer(old, at[SENDER])
  BY <1>2, <1>3, <1>4 DEF Contents, Unsent, FirstOnly
<1>6. /\ IsSeq(c) /\ Len(c) = 2 /\ c[1] = old[1] /\ c[2] = e
  <2> HIDE DEF old, e
  <2>1. IsSeq(c) /\ Len(c) = Len(old) + 1 /\ c[Len(old) + 1] = e
        /\ \A i \in 1 .. Len(old) : c[i] = old[i]
    BY <1>5, Appended, ZenonT(40)
  <2> HIDE DEF c
  <2> QED  BY <1>5, <2>1
<1>7. choices[at[SENDER]] \in {0, 1}
  BY <1>1, ChosenKey DEF EncryptOf, Contents, Inputs
<1>8. Answer(c, at[SENDER])
  <2>1. CASE choices[at[SENDER]] = 0
    <3> HIDE DEF c, old
    <3>1. PICK state \in States :
            old[0 + 1] = Enc(data[at[SENDER]][0], receivers[at[SENDER]].pk, Draw(state))
      BY <1>5, <2>1 DEF Answer
    <3>2. c[choices[at[SENDER]] + 1] = Enc(data[at[SENDER]][choices[at[SENDER]]],
                                           receivers[at[SENDER]].pk, Draw(state))
      BY <1>6, <2>1, <3>1
    <3> QED  BY <3>2, Zenon DEF Answer
  <2>2. CASE choices[at[SENDER]] = 1
    <3>1. pk = <<receivers[at[SENDER]].pk>> /\ \E state \in States : coins = <<Draw(state)>>
      BY <1>1, <2>2, ChosenKey DEF EncryptOf
    <3>2. PICK state \in States : coins = <<Draw(state)>>
      BY <3>1
    <3>3. e = Enc(data[at[SENDER]][1], receivers[at[SENDER]].pk, Draw(state))
      BY <3>1, <3>2
    <3> HIDE DEF e, c
    <3>4. c[choices[at[SENDER]] + 1] = Enc(data[at[SENDER]][choices[at[SENDER]]],
                                           receivers[at[SENDER]].pk, Draw(state))
      BY <1>6, <2>2, <3>3
    <3> QED  BY <3>4, Zenon DEF Answer
  <2> QED  BY <1>7, <2>1, <2>2
<1> HIDE DEF c, old, e
<1>9. /\ Len(ciphertexts') = n
      /\ \A j \in 1 .. n : ciphertexts'[j] = IF j = n THEN c ELSE ciphertexts[j]
  BY <1>1, <1>3, Replaced DEF Control, Typed
<1>10. Unsent'
  <2> SUFFICES ASSUME NEW j \in 1 .. n
               PROVE  Answer(ciphertexts'[j], Len(received) + Len(toReceiver) + j)
    <3>1. \A x, i : Answer(x, i)' <=> Answer(x, i)
      BY <1>1 DEF Answer
    <3>2. Half' = 0 /\ received' = received /\ toReceiver' = toReceiver
      BY <1>1, <1>2
    <3> HIDE DEF n
    <3> QED  BY <1>9, <3>1, <3>2 DEF Unsent
  <2>1. CASE j = n
    BY <1>4, <1>6, <1>8, <1>9, <2>1
  <2>2. CASE j # n
    BY <1>9, <2>2 DEF Contents, Unsent
  <2> QED  BY <2>1, <2>2
<1>11. Messages'
  <2>1. Len(toSender') = Len(toSender) - 1
        /\ \A i \in 1 .. Len(toSender) - 1 : toSender'[i] = toSender[i + 1]
    BY <1>1, <1>3, Tailed DEF Control, Typed
  <2> SUFFICES ASSUME NEW j \in 1 .. Len(toSender) - 1
               PROVE  /\ at[SENDER] + 1 + j - 1 <= Len(receivers)
                      /\ toSender'[j] = receivers[at[SENDER] + 1 + j - 1].keys
    BY <1>1, <2>1 DEF Messages
  <2>2. j + 1 \in 1 .. Len(toSender) /\ at[SENDER] + (j + 1) - 1 = at[SENDER] + 1 + j - 1
    OBVIOUS
  <2> QED  BY <2>1, <2>2 DEF Contents, Messages
<1>12. InHand'
  BY <1>1 DEF InHand, EncryptOf
<1>13. Sent' /\ Inputs' /\ Objects' /\ Split'
  BY <1>1 DEF Contents, Sent, Answer, Inputs, Objects, Split
<1> QED  BY <1>10, <1>11, <1>12, <1>13 DEF Contents

LEMMA ContentsSenderSends ==
  ASSUME Control, Contents, SenderSends
  PROVE  Contents'
<1> USE ControlLens
<1>1. /\ pc[SENDER] = "send" /\ pc'[SENDER] \in {"recv", "done"} /\ pc'[RECEIVER] = pc[RECEIVER]
      /\ toReceiver' = toReceiver \o ciphertexts /\ ciphertexts' = <<>>
      /\ UNCHANGED <<choices, data, at, receivers, toSender, received>>
  BY TwoThreads DEF SenderSends, Goto, Control, Typed, inputs
<1>2. Half = 0 /\ Len(ciphertexts') = 0
  BY <1>1, EmptyIsSeq DEF Half
<1>3. /\ Len(toReceiver') = Len(toReceiver) + Len(ciphertexts)
      /\ \A i \in 1 .. Len(toReceiver) : toReceiver'[i] = toReceiver[i]
      /\ \A i \in 1 .. Len(ciphertexts) : toReceiver'[Len(toReceiver) + i] = ciphertexts[i]
  <2>1. IsSeq(toReceiver) /\ IsSeq(ciphertexts)
    BY DEF Control, Typed
  <2> QED  BY <1>1, <2>1, Concatenated
<1>4. Sent'
  <2> SUFFICES ASSUME NEW j \in 1 .. Len(toReceiver) + Len(ciphertexts)
               PROVE  Answer(toReceiver'[j], Len(received) + j)
    BY <1>1, <1>3 DEF Sent, Answer
  <2>1. CASE j <= Len(toReceiver)
    BY <1>3, <2>1, SMTT(30) DEF Contents, Sent
  <2>2. CASE ~(j <= Len(toReceiver))
    <3> DEFINE i == j - Len(toReceiver)
    <3>1. i \in 1 .. Len(ciphertexts) /\ Len(toReceiver) + i = j
          /\ Len(received) + Len(toReceiver) + i = Len(received) + j
      BY <2>2
    <3> HIDE DEF i
    <3>2. toReceiver'[j] = ciphertexts[i]
      BY <1>3, <3>1
    <3>3. Answer(ciphertexts[i], Len(received) + Len(toReceiver) + i)
      BY <1>2, <3>1 DEF Contents, Unsent
    <3> QED  BY <3>1, <3>2, <3>3
  <2> QED  BY <2>1, <2>2
<1>5. Unsent' /\ InHand'
  BY <1>1, <1>2 DEF Unsent, InHand, EncryptOf
<1>6. Messages' /\ Inputs' /\ Objects' /\ Split'
  BY <1>1 DEF Contents, Messages, Inputs, Objects, Split
<1> QED  BY <1>4, <1>5, <1>6 DEF Contents

LEMMA ContentsUnchanged ==
  ASSUME Contents, UNCHANGED <<choices, data, pc, at, receivers, coins, pk, ciphertexts, toSender,
                               toReceiver, received>>
  PROVE  Contents'
BY DEF Contents, Inputs, Objects, Split, Messages, InHand, Sent, Unsent, FirstOnly, Answer, Half

LEMMA ContentsStep ==
  ASSUME SampledBelowQ, NoiseSmall, Control, Generators, Contents, [Next]_vars
  PROVE  Contents'
<1>1. ASSUME NEW t, NEW step, Enter(t, step)
      PROVE  Contents'
  BY <1>1, ContentsUnchanged DEF Enter, inputs
<1>2. CASE Receiver
  BY <1>1, <1>2, ContentsReceiverKeypair, ContentsReceiverKeys, ContentsReceiverSends,
     ContentsReceiverDecrypts DEF Receiver
<1>3. CASE Sender
  <2>1. ASSUME NEW k \in {0, 1}, SenderEncrypts(k)
        PROVE  Contents'
    BY <2>1, ContentsSenderEncryptsFirst, ContentsSenderEncryptsSecond
  <2> QED  BY <1>1, <1>3, <2>1, ContentsSenderReceives, ContentsSenderSends, ContentsSenderCoins
           DEF Sender
<1>4. CASE UNCHANGED vars
  BY <1>4, ContentsUnchanged DEF vars
<1> QED  BY <1>2, <1>3, <1>4 DEF Next

LEMMA ContentsHold ==
  ASSUME SampledBelowQ, NoiseSmall
  PROVE  Spec => [](Control /\ Contents)
<1>1. Init => Contents
  BY ContentsInit
<1>2. Control /\ Generators /\ Contents /\ [Next]_vars => Contents'
  BY ContentsStep
<1> QED  BY <1>1, <1>2, GeneratorsHold, PTL DEF Spec

(***************************************************************************)
(* What the sender encrypts the chosen item with is the public key of the  *)
(* object that will decrypt it (ChosenKeyIsReceivers), for every batch,    *)
(* every combination of the forms and every K Kyber allows, if rejection   *)
(* sampling leaves coefficients below q and the noise is that of cbd: a    *)
(* difference of keys, packed and unpacked, then takes the hash back.      *)
(***************************************************************************)
THEOREM ChosenKeyHolds ==
  ASSUME SampledBelowQ, NoiseSmall
  PROVE  Spec => []ChosenKeyIsReceivers
<1>1. Control /\ Contents => ChosenKeyIsReceivers
  BY ChosenKey DEF ChosenKeyIsReceivers
<1> QED  BY <1>1, ContentsHold, PTL

-----------------------------------------------------------------------------
(* The blocks written are the items chosen. *)
LEMMA Decrypts ==
  ASSUME DecryptsRight, Control, Contents, NEW i \in 1 .. Len(receivers), i <= LEN,
         NEW c, Answer(c, i)
  PROVE  Decrypted(receivers[i], c) = items[i]
<1> USE ControlLens
<1>1. i \in 1 .. LEN
  OBVIOUS
<1>2. choices[i] \in {0, 1} /\ data[i] \in Pairs
  BY <1>1 DEF Contents, Inputs
<1> DEFINE m == data[i][choices[i]]
<1>3. m \in [Positions -> {0, 1}]
  BY <1>2, BatchAssumption
<1>4. PICK s \in States : \E keys : receivers[i] = Object(choices[i], s, keys)
  BY DEF Contents, Objects
<1> DEFINE pair == Keypair(Draw(s))
<1>5. receivers[i].b = choices[i] /\ receivers[i].pk = pair.pk /\ receivers[i].secretKey = pair.sk
  BY <1>4 DEF Object
<1>6. PICK t \in States : c[choices[i] + 1] = Enc(m, pair.pk, Draw(t))
  BY <1>5 DEF Answer
<1>7. \A k \in Kept : Dec(Enc(m, pair.pk, Draw(t)), pair.sk)[k] = m[k]
  <2> HIDE DEF m
  <2> QED  BY <1>3 DEF DecryptsRight
<1> DEFINE bits == Dec(c[choices[i] + 1], pair.sk)
<1>8. \A k \in Kept : bits[k] = m[k]
  BY <1>6, <1>7
<1>9. Decrypted(receivers[i], c) = [k \in Kept |-> bits[k]]
  BY <1>5 DEF Decrypted
<1> HIDE DEF bits
<1>10. items[i] = [k \in Kept |-> m[k]]
  BY <1>1 DEF items
<1> HIDE DEF m
<1> QED  BY <1>8, <1>9, <1>10

LEMMA OutcomeInit ==
  ASSUME Init
  PROVE  Outcome /\ Ideal!OTInit
<1>1. Len(received) = 0 /\ received = <<>>
  BY EmptyIsSeq DEF Init
<1> QED  BY <1>1 DEF Outcome, Ideal!OTInit

(* Decryption delivers a batch, *)
LEMMA Delivers ==
  ASSUME DecryptsRight, Control, Contents, Outcome, ReceiverDecrypts
  PROVE  Outcome' /\ Ideal!Deliver
<1> USE ControlLens
<1> DEFINE first == Len(received) + 1
           out == [i \in 1 .. Batch |-> Decrypted(receivers[first + i - 1], toReceiver[i])]
<1>1. received' = received \o out
  <2>1. first = IF mode[RECEIVER] = "all" THEN 1 ELSE at[RECEIVER]
    BY Answers
  <2> QED  BY <2>1 DEF ReceiverDecrypts, Batch
<1>2. /\ Batch \in Nat /\ 1 <= Batch /\ Len(received) + Batch <= LEN
      /\ Len(received) + Batch <= Len(receivers) /\ Batch = Len(toReceiver)
  BY Answers
<1>3. ASSUME NEW i \in 1 .. Batch
      PROVE  out[i] = items[Len(received) + i]
  <2> DEFINE n == Len(received) + i
  <2>1. n \in 1 .. Len(receivers) /\ n <= LEN /\ first + i - 1 = n /\ i \in 1 .. Len(toReceiver)
    BY <1>2
  <2>2. Answer(toReceiver[i], n)
    BY <2>1 DEF Contents, Sent
  <2>3. out[i] = Decrypted(receivers[n], toReceiver[i])
    BY <2>1
  <2> HIDE DEF n, out
  <2>4. Decrypted(receivers[n], toReceiver[i]) = items[n]
    BY <2>1, <2>2, Decrypts
  <2> QED  BY <2>3, <2>4 DEF n
<1>4. IsSeq(out) /\ Len(out) = Batch
  <2>1. out = [i \in 1 .. Batch |-> out[i]]
    OBVIOUS
  <2> HIDE DEF out
  <2> QED  BY <1>2, <2>1, ListIsSeq
<1> HIDE DEF out
<1>5. /\ IsSeq(received') /\ Len(received') = Len(received) + Batch
      /\ \A i \in 1 .. Len(received) : received'[i] = received[i]
      /\ \A i \in 1 .. Batch : received'[Len(received) + i] = out[i]
  <2>1. IsSeq(received)
    BY DEF Control, Typed
  <2>2. IsSeq(out)
    BY <1>4
  <2>3. /\ IsSeq(received \o out) /\ Len(received \o out) = Len(received) + Len(out)
        /\ \A i \in 1 .. Len(received) : (received \o out)[i] = received[i]
        /\ \A i \in 1 .. Len(out) : (received \o out)[Len(received) + i] = out[i]
    BY <2>1, <2>2, Concatenated
  <2> QED  BY <1>1, <1>4, <2>3
<1>6. UNCHANGED items
  BY DEF ReceiverDecrypts, inputs, items
<1>7. ASSUME NEW i \in 1 .. Len(received) + Batch
      PROVE  received'[i] = IF i <= Len(received) THEN received[i] ELSE items[i]
  <2>1. CASE i <= Len(received)
    BY <1>5, <2>1
  <2>2. CASE ~(i <= Len(received))
    <3> DEFINE j == i - Len(received)
    <3>1. j \in 1 .. Batch /\ Len(received) + j = i
      BY <1>2, <2>2
    <3> HIDE DEF j
    <3> QED  BY <1>3, <1>5, <2>2, <3>1
  <2> QED  BY <2>1, <2>2
<1>8. Outcome'
  BY <1>5, <1>6, <1>7 DEF Outcome
<1>9. Len(items) = LEN
  BY DEF items
<1>10. Ideal!Deliver
  <2> DEFINE n == Len(received) + Batch
  <2>1. n \in Len(received) + 1 .. Len(items)
    BY <1>2, <1>9
  <2>2. received' = [i \in 1 .. n |-> received'[i]]
    BY <1>2, <1>5 DEF IsSeq
  <2>3. received' = [i \in 1 .. n |-> IF i <= Len(received) THEN received[i] ELSE items[i]]
    BY <1>7, <2>2
  <2> HIDE DEF n
  <2> QED  BY <1>6, <2>1, <2>3, Zenon DEF Ideal!Deliver
<1> QED  BY <1>8, <1>10

(* and no other step writes a block. *)
LEMMA OutcomeStep ==
  ASSUME DecryptsRight, Control, Contents, Outcome, [Next]_vars
  PROVE  Outcome' /\ [Ideal!Deliver]_<<items, received>>
<1>1. CASE ReceiverDecrypts
  BY <1>1, Delivers
<1>2. CASE ~ReceiverDecrypts
  <2>1. UNCHANGED <<choices, data, received>>
    BY <1>2 DEF Next, Receiver, Sender, Enter, ReceiverKeypair, ReceiverKeys, ReceiverSends,
       SenderReceives, SenderCoins, SenderEncrypts, SenderSends, inputs, vars
  <2>2. UNCHANGED items
    BY <2>1 DEF items
  <2> QED  BY <2>1, <2>2 DEF Outcome
<1> QED  BY <1>1, <1>2

(***************************************************************************)
(* The safety part of ImplementsOT: a batch starts without blocks, and a   *)
(* step delivers the items chosen next, in order, or none.  That no        *)
(* decryption fails is assumed of the keypairs and coins the batch can     *)
(* draw; the rest is shown.  That the batch ends is left to TLC.           *)
(***************************************************************************)
THEOREM DeliversChosen ==
  ASSUME SampledBelowQ, NoiseSmall, DecryptsRight
  PROVE  Spec => Ideal!OTInit /\ [][Ideal!Deliver]_<<items, received>>
<1>1. Init => Outcome /\ Ideal!OTInit
  BY OutcomeInit
<1>2. Control /\ Contents /\ Outcome /\ [Next]_vars =>
        Outcome' /\ [Ideal!Deliver]_<<items, received>>
  BY OutcomeStep
<1> QED  BY <1>1, <1>2, ContentsHold, PTL DEF Spec
=============================================================================
