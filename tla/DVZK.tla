-------------------------------- MODULE DVZK --------------------------------
(***************************************************************************)
(* The designated-verifier proof of DVZK.hpp that z = x * y for            *)
(* authenticated values.  The prover holds values and MACs, the verifier   *)
(* local keys and the global key; both draw the same challenges from a     *)
(* seed the verifier sends.  p and v range over a set S of triples; a bit  *)
(* is proved as the block it stands for, so that and_all_bits is a         *)
(* product.  One authenticated random block masks the two proof terms.     *)
(***************************************************************************)
EXTENDS Field

BitBlock(bit) == IF bit THEN One ELSE ZeroBlock

(* p: x, y, macX, macY, macZ, functions on S; mask: a block and its MAC.   *)
A0(S, challenge, p, mask) ==
  mask.mac \oplus InnerProduct(S, challenge, [k \in S |-> GfMul(p.macX[k], p.macY[k])])

A1(S, challenge, p, mask) ==
  mask.block \oplus
    InnerProduct(S, challenge,
      [k \in S |-> p.macZ[k] \oplus (GfMul(p.x[k], p.macY[k]) \oplus GfMul(p.y[k], p.macX[k]))])

(* v: keyX, keyY, keyZ. *)
B(S, challenge, v, maskKey, delta) ==
  maskKey \oplus
    InnerProduct(S, challenge,
      [k \in S |-> GfMul(v.keyX[k], v.keyY[k]) \oplus GfMul(v.keyZ[k], delta)])

Accepts(b, proof, delta) == b \oplus proof.a0 = GfMul(proof.a1, delta)

-----------------------------------------------------------------------------
(***************************************************************************)
(* Prover and Verifier take one triple after the other, a challenge each.  *)
(* t: x, y, macX, macY, macZ; k: keyX, keyY, keyZ.                         *)
(***************************************************************************)
ProverStart(mask) == [a0 |-> mask.mac, a1 |-> mask.block]

ProverUpdate(proof, challenge, t) ==
  [a0 |-> proof.a0 \oplus GfMul(challenge, GfMul(t.macX, t.macY)),
   a1 |-> proof.a1 \oplus
            GfMul(challenge, (t.macZ \oplus GfMul(t.x, t.macY)) \oplus GfMul(t.y, t.macX))]

(* Mutant: the key of z is not multiplied by the global key. *)
UpdateWithoutDelta(b, challenge, k, delta) ==
  b \oplus GfMul(challenge, GfMul(k.keyX, k.keyY) \oplus k.keyZ)

VerifierUpdate(b, challenge, k, delta) ==
  b \oplus GfMul(challenge, GfMul(k.keyX, k.keyY) \oplus GfMul(k.keyZ, delta))
=============================================================================
