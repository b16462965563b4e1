-------------------------------- MODULE Kyber --------------------------------
(***************************************************************************)
(* The CPA-secure encryption of libs/Kyber (indcpa.c) and what the OT adds *)
(* to public keys (OTTools.c).  A polynomial is the function from its      *)
(* positions to coefficients; the transform to and from the NTT domain and *)
(* the Montgomery factors cancel and are left out: products are those of   *)
(* Z_q[x]/(x^N+1).  Reduction, compression and message bits are those of   *)
(* KyberArith.  Seeds and hashes are opaque.                               *)
(***************************************************************************)
EXTENDS KyberArith

CONSTANTS
  N, K,              \* KYBER_N, KYBER_K
  Xof(_, _, _),      \* the polynomial of a seed at a place of the matrix
  Prf(_, _),         \* the noise of a seed and a nonce
  HashG(_), HashH(_)

(* KYBER_K is 2, 3 or 4. *)
ASSUME KyberAssumption == N \in Nat \ {0} /\ K \in 2 .. 4

Positions == 0 .. N - 1
Indices == 0 .. K - 1

-----------------------------------------------------------------------------
PolyAdd(a, b) == [k \in Positions |-> a[k] + b[k]]
PolySub(a, b) == [k \in Positions |-> a[k] - b[k]]
PolyReduce(a) == [k \in Positions |-> Red16[a[k]]]

Sum(f, n) == LET sum[i \in 0 .. n] == IF i = 0 THEN 0 ELSE sum[i - 1] + f[i - 1] IN sum[n]

(* poly_ntt, poly_basemul_montgomery and poly_invntt_tomont. *)
PolyMul(a, b) ==
  [k \in Positions |->
     Sum([i \in Positions |-> IF i <= k THEN a[i] * b[k - i] ELSE -(a[i] * b[N + k - i])], N) % Q]

(* polyvec_pointwise_acc_montgomery.  Which representative the transforms  *)
(* leave makes no difference after the reductions that follow.             *)
PointwiseAcc(a, b) ==
  [k \in Positions |-> Red16[Sum([i \in Indices |-> PolyMul(a[i], b[i])[k]], K)]]

VecAdd(a, b) == [i \in Indices |-> PolyAdd(a[i], b[i])]
VecSub(a, b) == [i \in Indices |-> PolySub(a[i], b[i])]
VecReduce(a) == [i \in Indices |-> PolyReduce(a[i])]

(* polyvec_tobytes leaves the least remainder; polyvec_frombytes reads it. *)
Packed(a) == [i \in Indices |-> [k \in Positions |-> CSubQ[a[i][k]]]]

PackPk(vec, seed) == [vec |-> Packed(vec), seed |-> seed]

GenMatrix(seed, transposed) ==
  [i \in Indices |-> [j \in Indices |-> IF transposed THEN Xof(seed, j, i) ELSE Xof(seed, i, j)]]

-----------------------------------------------------------------------------
Keypair(bytes) ==
  LET seeds == HashG(bytes)
      a == GenMatrix(seeds.publicseed, FALSE)
      s == [i \in Indices |-> Prf(seeds.noiseseed, i)]
      e == [i \in Indices |-> Prf(seeds.noiseseed, K + i)]
      t == [i \in Indices |-> PointwiseAcc(a[i], s)]
  IN  [pk |-> PackPk(VecReduce(VecAdd(t, e)), seeds.publicseed), sk |-> Packed(VecReduce(s))]

Enc(message, pk, coins) ==
  LET at == GenMatrix(pk.seed, TRUE)
      sp == [i \in Indices |-> Prf(coins, i)]
      ep == [i \in Indices |-> Prf(coins, K + i)]
      epp == Prf(coins, 2 * K)
      m == [k \in Positions |-> FromMsg(message[k])]
      bp == VecReduce(VecAdd([i \in Indices |-> PointwiseAcc(at[i], sp)], ep))
      v == PolyReduce(PolyAdd(PolyAdd(PointwiseAcc(pk.vec, sp), epp), m))
  IN  [b |-> [i \in Indices |-> [k \in Positions |-> Compress10[bp[i][k]]]],
       v |-> [k \in Positions |-> Compress4[v[k]]]]

Dec(ciphertext, sk) ==
  LET bp == [i \in Indices |-> [k \in Positions |-> Decompress10(ciphertext.b[i][k], k % 2)]]
      v == [k \in Positions |-> Decompress4(ciphertext.v[k])]
      mp == PolyReduce(PolySub(v, PointwiseAcc(sk, bp)))
  IN  [k \in Positions |-> ToMsg[mp[k]]]

-----------------------------------------------------------------------------
(* randomPK: the first row of a matrix, with the seed of another key.      *)
RandomPK(seed1, seed2) == PackPk(GenMatrix(seed1, FALSE)[0], seed2)

(* pkHash hashes the vector only. *)
PkHash(pk, pkSeed) == RandomPK(HashH(pk.vec), pkSeed)

PkMinus(pk1, pk2) == PackPk(VecReduce(VecSub(pk1.vec, pk2.vec)), pk1.seed)
PkPlus(pk1, pk2) == PackPk(VecReduce(VecAdd(pk1.vec, pk2.vec)), pk1.seed)
=============================================================================
